# MuseCanvas: TLA+ models, model checking and proofs

MuseCanvas is a TypeScript monorepo that generates images and videos with
external AI providers: a Next.js API (`apps/api`), a worker (`apps/worker`), a
web client (`apps/web-next`), shared packages (`packages/*`), PostgreSQL, a
Redis stream and S3-compatible storage. All state that matters is in
PostgreSQL; the interesting behaviour comes from several processes changing the
same few rows around slow, unreliable external calls.

This directory holds TLA+ models of that behaviour, the TLC configurations that
check them on small instances, and proofs for all instances.
`PROJECT.json` is the machine-readable index: for every definition the lines of
code it models, for every run its properties, for every property a mutation of
the model that breaks it, and the hazards of the code, each at its line.

Run a configuration with `tlc -config <name>.cfg <module>.tla` (section 4 names
the module of each), the proofs with `tlapm` on each module whose name ends in
`Proofs` (section 5).

## 1. Inventory

| Component | State it keeps | Operations | Interacts through | Hard because | Correct when |
|---|---|---|---|---|---|
| Provider runs (`repositories/provider-runs.ts`) | `provider_runs`: state, revision, remote id, capacity, lease, next action | upsert by client token, compare-and-swap updates, lease, capacity | worker, API, maintenance | a lost compare-and-swap is ignored by every caller | capacity is released exactly when a run ends; one live run per job |
| Job execution (`worker/src/jobs`, `provider-state.ts`) | `generation_jobs`, the memory of a worker between awaits | claim, preprocess, acquire, submit, poll, import, cancel, retry, catch | provider, bucket, runs | state read before an await is used after it; crashes at every await | a job ends, its media exist, nothing is ordered twice |
| Job API (`api/modules/jobs`, `generations/handlers.ts`, `admin/users.ts`) | the same rows | cancel, retry, delete, delete the user | rows and outbox | runs concurrently with the worker | a terminal job stays terminal, a cancellation ends the job |
| Outbox and stream (`worker/src/queue`) | `outbox_events`, stream, pending list, heartbeats | dispatch, read, ack, reclaim | worker | at-least-once, dedupe keys, reclaim delay | every committed event is handled, and settled only after that |
| Maintenance (`worker/src/maintenance`) | none of its own | lease recovery, due polls, cancellations, deletions, sweeps | everything | scans race the workers; reads outside a transaction | nothing stays stuck, nothing in use is deleted |
| Model capacity (`acquireModelCapacity`, `models/handlers.ts`) | `concurrency_limit`, reserved runs | acquire, release by ending a run, change the limit | jobs of one model | admission at the limit, limit changed meanwhile | a counting semaphore |
| Output ingestions, prompt preprocessing | `output_ingestions`, `prompt_optimizations` | register and attach; claim, call, store | job execution | repeated imports, a slow call in the middle of a job | one asset per output; the prompt used is the one stored |
| Job creation (`generations/create-job.ts`) | job, inputs, first event | idempotent create, attach inputs | uploads, outbox | concurrent duplicates | one job per idempotency key |
| Media uploads (`generation-uploads`) | `generation_input_images`, mirror `media_uploads`, objects | presign, complete, attach, delete, sweeps | job creation, maintenance | check-then-act around storage calls, two tables | an attached upload keeps its object, an unused one goes |
| Account deletion (`maintenance`, `canvas-cleanup.ts`) | `deletion_jobs` | delete objects, purge rows | everything of a user | partial failure | it completes |
| Canvas agent (`api/modules/canvas-agent`, repository) | sessions, turns, messages, pending jobs | run a turn, confirm, submit, reconcile, continue after a job | jobs, canvas, language model | turn lease, expiry, confirmation races | one turn at a time, one job per proposal that was approved |
| Canvas documents (`api/modules/canvases`) | `canvas_documents` with revision | read, save by revision, delete | agent, web client | two tabs | no lost update |
| Migrations (`packages/database/src/migrations`) | `schema_migrations`, advisory lock | validate, apply, record | start of every process | crash between two, releases that differ | each applied once, in order |
| Setup (`api/modules/setup`, `repositories/onboarding.ts`) | `onboarding_state`, setup sessions | claim code, sections, first administrator, completion | settings, accounts | attempts and sessions race | nobody enters a completed setup |
| Runtime settings (`settings/runtime.ts`, `worker/src/shared/runtime.ts`) | settings rows, revision, a cache per process | test, save, mark the section, resolve | API and worker | test, row, section and revision are separate statements | verified means tested; a cache is not older than its revision |
| Settings page (`admin-settings-view.tsx`, `admin-settings-state.ts`, `setup/validation.ts`) | per open page: the settings loaded, the draft, a request under way | type, reset, refetch, load, save, test | setup API, settings caches | the panel stays mounted while queries are fetched again and others save | a draft is not lost; one revision is one value; what is left out survives |
| Credentials (`admin/credentials`, `provider-credentials.ts`, `credentials/probe.ts`) | `provider_credentials` with its test columns | create, rotate, redirect, delete, test, claim, settle, reseal | API, worker, operator's script | superseded and stale tests; target and secret stored apart | a secret is sent only where it was entered for; the newest request is answered |
| Models and revisions (`models/handlers.ts`) | `model_configs`, `model_config_revisions` | save by plugin or preset, snapshot, delete | jobs pin a revision | read-then-write without a transaction | the latest revision names the plugin that was saved |
| Prompt templates | `prompt_template_sets` and entries | import, activate, edit by copy, delete | worker | two administrators | one active version, no edit lost |
| Entries of the templates (`admin/prompt-templates.ts`, `admin-prompt-templates-view.tsx`, `preprocessing/index.ts`) | entries of a version, the page's fetch and edit, the snapshot of a job | validate, import, edit, export, fetch, select, render | catalogue file, setup, worker | five doors with checks of their own; an edit makes a new version under a page that fetches | what is stored renders and can be imported again; a page edits what it showed; a job keeps its text |
| Plugin catalog and loader (`admin/plugins.ts`, `worker/src/plugins`) | `provider_plugins`, artifact, each worker's registry | install, switch, delete, refresh, import, promote | API, bucket, workers | row and object are written apart; workers learn late | the row says what happened to the artifact |
| Plugin packages (`core/plugin-package.ts`, `plugin-scan.ts`) | none | inspect an upload, check the bundle again at load | catalog | archives that disagree with themselves | what is stored was inspected, and what was accepted loads |
| Authentication (`api/modules/auth`, `session`, `admin/users.ts`) | users, codes, identities, invitations, sessions | sign in and up, link, invite, block, delete | administrator | checks and writes in different transactions | an invitation admits one account; a blocked account is out |
| Provider calls (`providers/src/core/http.ts` and the plugins) | a request with its timer and its body | submit, poll, cancel | vendor | an answer lost after acceptance; slow or endless bodies | accepted once; a known task stays known |
| Provider requests (`providers/src/plugins`, `worker/src/jobs`, `image-edit`) | none | normalise, check, send, read the answer, edit with a mask | vendor | contract, API and adapter each have their own rules | what was admitted is what is sent; what is answered can be imported |
| Parameter contracts and the console's form (`packages/contracts`, `generate-console.tsx`) | the form | values, conditions, legal values, defaults | API, plugins | one rule in four places, the model revised between | what the console sends is legal or refused for a reason shown |
| Staged inputs (`reference-upload.ts`, `generate-ui-store.ts`, the dialog) | the list of images in the browser, requests under way | decode, presign, post, verify, remove, retry, clear, submit | uploads API, bucket | every await meets a list that has changed | ready means verified; no upload row is forgotten; what is sent is what is shown |
| Library (`library-view.tsx`, `useLibrary.ts`, `api/modules/library`) | filter, cached pages, selection | page, search, refetch, select, delete | jobs, assets | pages fetched at different times, debounced filters | a deletion acts on nothing the filter hides |
| Other lists, pages, deployment, scripts | rows others own; none | reads; build | | little concurrency | |

The hazards of these components, each at its line, are listed under `hazards`
in `PROJECT.json`.

## 2. Plan

The order followed the weight of the behaviour: first what orders, pays for and
stores a generation, then what surrounds it.

1. `ProviderRun`, `GenerationJob` on top of it, `ModelCapacity` implementing
   `CapacitySemaphore`, each with its proofs. *Done.*
2. `EventDelivery` implementing `AtLeastOnce`, `MediaUploads`. *Done.*
3. `CanvasAgent`, with `CanvasDocuments` beside it. *Done.*
4. The services a job depends on: `Credentials`, `ModelRevisions`,
   `PluginCatalog`, `PromptTemplates`, `RuntimeSettings`, `SetupFlow`,
   `SchemaMigrations`, `AccountAccess`. *Done.*
5. The way of a request: `ParameterContract`, `GenerationRequest`,
   `ProviderRequests`, `ProviderCalls`. *Done.*
6. `PluginPackages`: what a package may contain. *Done.*
7. The browser's side: `ReferenceUploads`, `LibraryView`, `SettingsConsole`, and with
   its page and its worker `TemplateEntries`. *Done.*
8. Proofs about the modules of steps 2, 4 and 5 (`EventDelivery`, `MediaUploads`, the
   services, the requests and what becomes of them on the wire, `ProviderCalls`), about what `GenerationJob` promises of an
   asynchronous job, and about `CanvasAgent` and the modules of step 7. *Done.*
9. Open: the claim of `prompt_optimizations`, the rows of `output_ingestions`,
   the drawing of an edit region.

Runs are few and their properties dense: a liveness and a safety question that can
share an instance share a run, and the services that share no state share one run.

## 3. What is modelled

### ProviderRun

One row as a record: `state`, `rev` (`state_revision`), `remote` (has a remote
id), `reserved` (`capacity_state = 'reserved'`), `lease`, `due`
(`next_action_at`). The operators are the statements of the repository as
functions from row to row: `createProviderRun` (the upsert by client token),
`Moved`/`Stored`/`Ended`/`Postponed` (the four ways `updateProviderRunState` is
used; each changes nothing when the revision is stale), `Leased`/`Unleased`, and
`MarkedCanceling`, the plain UPDATE of the API that leaves the revision alone.

### GenerationJob

One job. Variables: `job` (the row), `runs` (its provider runs by attempt; the
client token is job:attempt:revision and the model revision is pinned, so the
attempt determines the row), `events` and `keys` (outbox rows not yet
dispatched, dedupe keys ever used), `stream` and `orphans` (stream messages, and
those a crashed worker had taken), `worker` (what each worker process has in
memory between two awaits), `stored`, `assets`, `doomed` (objects of a run in
the bucket, its rows of `assets`, open `asset_deletion_jobs`), `remote` (a ghost:
what the provider did with the submission of a run), `left` (how many external
events may still happen).

A step is one database transaction or statement, one provider call or one
storage call. What the code reads before an await and uses after it stays in the
worker's record (`rev`, `res`, `remote`, `run`), so the compare-and-swaps fail
or succeed as they do in the code. A read directly followed by the write that
uses it, with no external call between, is one step.

| Actions | Code |
|---|---|
| `ClaimJob`, `CancelAtClaim`, `IgnoreClaim`, `PollMessage` | `processJob` up to the commit of the claim, `decideJobClaim` |
| `PreprocessFails`, `CancelClaimed`, `ContinueClaimed` | the rest up to the look for a live run |
| `AcquireCapacity`, `DenyCapacity`, `Requeue`, `ModelNotFound` | `acquireModelCapacity` and what follows a refusal |
| `InputsFail`, `Submit`, `retrySyncSubmit`, `RetryConflict`, `SubmitFailed`, `SubmitUnclear`, `SubmitStored` | the submission and every way it is recorded |
| `ResultFailed`, `ResultCanceled`, `StartImport`, `CountMismatch`, `ImportOutputs`, `ImportFails`, `PersistSuccess`, `PersistRefused` | `handleTerminalResult`, `importRunOutputs`, `persistJobSuccess` |
| `PollFrom` (inside three actions), `Poll`, `PollThrows`, `PollFailed`, `PollJobDeleted`, `PollUnclear`, `PollStored`, `PollTemporary` | `pollProviderRun` |
| `RequestCancel`, `RequestCancelFails`, `FinishCancel` | `requestRemoteCancel`, `cancelJobWithRun` |
| `CatchFailure` | the outer catch of `processJob` |
| `Crash`, `claimStalePending`, `ExpireLease`, `ActionFallsDue` | death of a process, XAUTOCLAIM with heartbeat, leases and time |
| `cancelJob`, `retryJob`, `deleteJobWithAssets`, `deleteUser` | the API |
| `dispatchOutbox`, `dispatchDueProviderRun`, `handleCancellation`, `deleteDoomedObject` | maintenance |

Abstracted: the text of prompts, phases and progress, previews, the content and
number of outputs (the outputs of a run are one element), encryption of the
opaque state, error texts (only the classes the code branches on remain),
`output_ingestions` (present exactly when the asset is). Statements do not fail
by themselves: the failures modelled are those of providers, of the bucket, of
configuration and of processes. After `deleteUser` the model still lets the owner
delete or cancel the job, which a revoked session would refuse.

The bounds of `GenerationJob`: `MaxAttempt` (claims), `MaxRev` (a run at this
revision is no longer scanned; maintenance would poll for ever), `Budget`
(external events, drawn from `Allowed`).

### ModelCapacity and CapacitySemaphore

The jobs of one model. Variables: `limit` (`concurrency_limit`), `holder` (whose
transaction holds the `FOR UPDATE` lock of the model row), `runs` (provider runs
by client token, the rows of `ProviderRun`), `tx` (where each worker is in its
acquisition and what it has read: limit, count), `queue` (outbox and stream
together, in order), `failed` (jobs whose acquisition threw).

| Actions | Code |
|---|---|
| `ClaimJob` | a worker takes the next job |
| `LockModel`, `CountRuns`, `DenyCapacity`, `Acquire` | the statements of `acquireModelCapacity`; deny and acquire include the commit that frees the lock |
| `Requeue` | `processJob` after a refusal: back to `queued`, with an event |
| `AcquireThrows` | a statement throws or the connection is lost; rolled back, the outer catch fails the job |
| `RunMoves`, `RunEnds` | every write that moves or ends a run, late writes to ended runs included |
| `EnqueueJob`, `upsertModel` | a new job or a retry; the administrator's `UPDATE`, which waits for the row lock |

The code counts rows with `capacity_state = 'reserved'` in a non-terminal state;
`Held` is that set. `CapacitySemaphore` is a counting semaphore whose size may
change at any time: granted only below the size in force, and lowering it takes
nothing away. The refinement mapping is `held <- Held`, `limit` maps to itself. A
soft-deleted model still admits its jobs, as in the code. `MODEL_NOT_FOUND` (the
row is gone) is in `GenerationJob`. Which live or terminal state a run moves to
makes no difference to the limit, so one of each stands for all, next to the
API's `canceling`. `MaxRev` bounds how often a run moves; 3 leaves room for a
late write to a run that has ended.

The upsert by client token makes one case visible that the semaphore allows: a
retried job whose token is known gets its old, released row back and grants
nothing. What it then submits is outside the limit, although
`provider-runs.ts:360-364` speaks of creating the run as reserved.

### EventDelivery and AtLeastOnce

Outbox rows, the Redis stream with its consumer group, and per worker a
dispatcher and a consume loop. `Publish` is `dispatchOutbox` row by row (XADD,
then `dispatched_at`; it may throw between the two, and `FOR UPDATE SKIP LOCKED`
outside a transaction lets two dispatchers read the same row). `Consume` is the
loop: `claimStalePending` every so often, a read of a batch, one message after
the other with its heartbeat, acknowledgement after `processJob` returned.
`Time` lets heartbeats lapse and messages grow idle. `AtLeastOnce` promises,
handles and settles; the mapping makes an event promised when its row is there,
handled when some `processJob` returned, settled when nobody would be given it
again. Bounds: `BatchSize`, `MaxFaults`.

### MediaUploads

The upload (row and mirror, object, expiry, and a presigned POST that may be used any
number of times until it ends: it may replace bytes that were validated and bring back an
object that was deleted), the calls `completeGenerationUpload` (as many at once as
`Completions`, each acting on what it read itself) and `deleteGenerationUpload`
statement by statement, the transaction of `createGenerationJob` with its
idempotency key and its attachment under row locks, both sweeps of both tables (select,
delete the object, write), and the deletion of the account. `createGenerationUpload` counts the
open uploads against `MaxActive`; the limit on active *jobs* of `createGenerationJob` is left
out, it only refuses. A request may stop between any two statements; the bucket may refuse a
deletion; both are retried by the sweeps. Keys are never used again, so that the sweep
at `maintenance/index.ts:122` selects outside a transaction does no harm.

A job records in `live` which of its inputs were whole when it was committed: object there,
neither deleted nor expired, and no completion that may still reject it (`Settled`). The
last condition is a gap of the code (section 4).

### CanvasAgent

The rows of one canvas's session, its turns with lease and token, the transcript,
the pending generations and the jobs they became. A run is `runAgent` from the
lease to the end of the SSE loop; each language model call answers whatever it
likes (text, a save of the canvas, a proposal, a read). `Claim`, `CreateGeneration`
and `completeCanvasAgentPendingJob` are `submitPending`, whose claim, creation of the
job and completion are three transactions; `Approve` and `rejectCanvasAgentPendingJob`
are the user's answer; `beginCanvasAgentJobEventTurn` is the turn that the end of a job
starts. Disturbances, `MaxFaults` in all: leases and
pending jobs that expire, a run that dies, a submission that is cut off.

What one sees in it and a test would not: a pending job left `submitting` whose
canvas moved on before its job was created is never claimed again (the canvas
revision is part of the claim's condition); `autoContinuationCount` is counted
over the life of the session; the digest of a pending job covers `expiresAt`, so
the answer `replay` is out of reach for a proposal made again.

### CanvasDocuments

One canvas and two tabs. A tab saves the whole scene against the revision it
read; `updateCanvasDocument` compares under the row's lock. A scene is the set
of edits it contains.

### The services around a job

Each is a module of its own over the rows it owns; what it reads of another's
rows is an input free to change.

| Module | State | Left to itself, it shows |
|---|---|---|
| `Credentials` | row, secret and its target, a test from request to settled outcome, the operator's re-encryption | deletion checks `CREDENTIAL_IN_USE` before its transaction; a rotation leaves `last_test_status`; a new base URL on the same host without a secret is ignored without a word |
| `ModelRevisions` | row, revisions, catalogue, two editors | a PATCH of `enabled` alone snapshots an `undeclared` revision, which the API then refuses with `MODEL_CAPABILITIES_UNDECLARED`, contrary to `models/handlers.ts:405`; `concurrency_limit` is read and written back (`handlers.ts:515`); the digest (`handlers.ts:245`) leaves the credential out, so a model saved with another credential keeps its revision, and the worker prefers the revision's |
| `PluginCatalog` | row, artifact, two installers, two loaders | two uploads of one version, or a commit whose answer is lost, delete the artifact of a live row (`plugins.ts:479-485`); a deferred load waits for the next full sweep; one worker's import timeout fails an active row for all; the check for use is outside the deletion's transaction |
| `PromptTemplates` | versions with what they hold, two editors | a number is used again after the latest version was deleted; the worker takes the file's templates when a set is deleted between two reads |
| `RuntimeSettings` | row (its secret kept, set or cleared), section, revision, two saves, the cache of a process | a section stays `complete` while its row is no longer tested; SMTP kept with no password counts as verified untested; an error of the database caches the environment's values for the whole TTL |
| `SetupFlow` | state, claim code, sessions, administrators | two requests at once may both create an administrator |
| `SchemaMigrations` | files of each release, history, runners | a file that must run outside a transaction runs twice when the process dies before the record |
| `AccountAccess` | users, identities, invitations, codes, sessions | a code verified after the account's deletion makes a new account; the identity row of a deleted account refuses its owner with a 500; two requests at once leave two live codes; a session checked before an account was disabled may be issued after it was enabled again, contrary to `admin/users.ts:47-48` |

Bounds are the `Max…` constants of each module; a request that stops half way is
an action wherever the code has statements outside a transaction.
`SchemaMigrations` leaves out a release that lacks baseline files.

### ParameterContract and GenerationRequest

`ParameterContract` is `media-parameter-validation.ts` as operators: descriptors,
size bands, dependencies, constraints across fields, what is a legal value, the
default, normalisation and refusal. An optional part of a declaration is a set
with at most one element, a number is counted in tenths.

`GenerationRequest` is the way of one request through the four readers of that
contract: the console (`paramsByKind` by canonical name, reconciled values,
staged images with roles, the gate), the API at creation, a retry, and the
plugin, with the model revised at any time between. Left out: the console takes
the input limit from its built-in defaults while the API uses the setting; the
model keeps the setting at its default. Preset lists come from small contracts
shaped like the bundled ones.

Seen there: reconciliation is said to be idempotent and needs two passes for a
chain of dependencies; "the gate can never be looser" fails for required
parameters without a default and for texts; conditions are judged on canonical
names in the console, raw ones in the API and not at all in the plugin; the web
prefers the descriptor's default and the API the model's; the gate ignores input
slots that are required; a retry does not apply the ceiling of the runtime
settings; an absent `maxCount` becomes 0; a switch without a default looks on
while nothing is sent.

### ProviderRequests and ProviderCalls

`ProviderRequests` takes an admitted order to the vendor: the API's stored
parameters, the masked edit with its rectangle, `buildMediaRequest`, the four
bundled adapters with their own contracts, what each refuses, the fields and the
places of images it puts on the wire, and which answers it can read. At most two
parameters are given at once; images and answers come from small sets; `SeedMax`
stands for 2^31 - 1. Left out: the writes of source and mask to the bucket and
the deletions that compensate them, a video size (no bundled model declares
one), ties between ratios at the same distance (a square preset is always
there), and what only a Veo credential's extras can ask for (`storageUri`,
`personGeneration`, `negativePrompt`, `enhancePrompt`, `fps`, `resizeMode`,
`compressionQuality`): no parameter of a request has these names, so nothing is
said of what such an extra adds.

`ProviderCalls` is one run's calls: the request with its timer, abort signal,
redirects and body, a token being minted, each adapter's reading of every way a
call can end, and the worker's of that. The provider may accept what it never
answers.

The 1.0.0 versions of the plugins declare no contract and are reached only by jobs
that were under way when they were replaced; they are left out of
`ProviderRequests`.

### PluginPackages

An upload as the list of its entries (central directory, local header, data),
through envelope, archive, names, inventory, inflation, scan, manifest, block and
icon to the row, and the worker's checks of the same bundle. Each check yields a
set of faults; what the code reports is the first. Source is a list of tokens
(a string is one token, comments are tokens between marks), texts and limits are
members of small sets. The uploads are five accepted packages, each with one
thing changed.

### ReferenceUploads

The images a browser stages. `staged` is `stagedImages`, `uploadRows` what the API
has, `tasks` the awaits under way with what follows each, `inflight` the map of
requests to storage, `request` the submission that holds `isGenerating`. What a
task does after its await it does to the list as it is then: nothing, when the
image is gone (`isStaged`), or a deletion, when its row came too late. Storage may
have the bytes of a post that is aborted or unreadable; an answer may be lost; the
worker's sweep removes what was not used. Left out: sizes, roles, previews and
their refresh. Bounds: files (`MaxStagings`), rows (`MaxUploadRows`), clicks on one
retry button before the first is answered (`RetryClicks`).

### LibraryView

An asset is its place in the order of creation. `loaded` and `fetching` are the
query cache by key (the applied query and the kind): a fetch asks page after page
by cursor, for all pages that were loaded, while jobs store and lose assets;
`filter` holds the typed and the applied query apart, `batches` and `deletionsSent`
the deletions without an answer. How the query library refetches, replaces and
collects is external and modelled from how the hooks use it. Left out: writing the
address, the lightbox, the depth in `?page=`. Bounds: keys in use (`MaxCached`),
batches (`MaxBatches`).

Seen there: after a refetch new assets push the last tile out of the loaded pages
while it stays selected; a single deletion leaves its tile selected; a batch that
fails part way has nothing fetched again; deleting an asset deletes all outputs of
its job although the dialog says the record of the generation is untouched
(`library-view.tsx:633-677`, `library/handlers.ts:66-79`).

### SettingsConsole

One section of the settings, `shownSection`, in every open page. `stored` is its row;
`replaced` the rows a cache may still serve, since a process learns of a change with
`config_revision` or after the time to live; `panel` per page what the query last
brought (`latest`), what the panel was loaded with (`baseline`), and the `draft`;
`saving` the request under way, whose reading, merge, write, mark and answer are steps
of their own, as they are statements without a transaction. A section has the fields
that are handled in different ways (a plain one, one that is never null, a
secret, two that are validated together) and not the others; a value is a number, 0
blank or absent. The form's texts, the connection itself and the audit row are left
out. Bounds: `MaxSetting` (values of a field), `MaxSettingsRevision` (writes). In the run
two pages and two values, besides blank, give every relation of two drafts to the row and
to each other; the SMTP section has its TLS mode only, since the rest is handled as storage
is.

Seen there: the runtime section submits every field, so a page opened earlier
overwrites what another one saved, without a question; SMTP and storage merge over
what resolved before, with the environment's values written into the row.

### TemplateEntries

What the versions of `PromptTemplates` hold, with each transaction one step. `templateSets`
are the versions in the order they were made, a deleted one is not `live` but what others
have read of it stays; `swaps` counts the changes of the active one, as
`config_revision` does. An entry has its name (a number, legal between bounds), its text
(told apart by what a check asks of it: blank, NUL, stray braces, bytes, variables) and its
order. The doors are the setup's import, the administration's import, create, update and
delete of one entry, and the file of the index, which is never stored. `templatePage` is the
page of the administration: what it shows, the fetch and the edit under way, the dialog;
`attempt` what each worker has of the job's preprocessing between its awaits, `snapshot` and
`finished` the job's row of `prompt_optimizations`. Descriptions, paths, the language
model's prompts and the repair of its answer are left out. Bounds: `MaxTemplateSets`, `MaxSwaps`.

Seen there: an entry created without an order is put first (0), an imported one at its place;
the setup refuses control characters in a text that the administration accepts; a text of the
index may be larger than a stored one; an attempt that was already selecting when another one
wrote the snapshot goes on with its own choice, so "always wins" (`preprocessing/index.ts:159-161`)
holds for the attempts that begin after it.

### Composition

`MCServices` runs the modules from CanvasDocuments to PluginPackages and `TemplateEntries` in one
behaviour each, `MCWorkspace` the agent, the staged images, the library and the settings page:
`subject` names the one that moves, the others rest in one initial state. They share no
variable, so this reaches every state of each and no product of them. `MCRequests`,
`MCProviderRequests`, `MCPluginPackages` and `MCTemplateEntries` give the sets of inputs. `GenerationJob` composes the job with its runs, its
events, its media and the users' acts; `ModelCapacity` composes many jobs of one
model.

## 4. What the runs check

The runs of one job are instances of `MCGenerationJob`. Two workers suffice for
every race of the code, because a step involves one worker and what another left
in the database; attempts up to 3 reach the retry limit and the first repeated client
token; two external events give every pair (cancel and crash, duplicate and
failure, and so on).

| Run | Module, instance | Properties |
|---|---|---|
| `async_two_workers` | `MCGenerationJob`: video plugin, two interchangeable workers, two of seven kinds of event | `TypeOK`, `SingleLiveRun`, `NoBlindResubmit`, `SucceededHasMedia`, `SuccessNotOverruled`, `TerminalRunFinal` |
| `manual_retry` | `MCGenerationJob`: image plugin, the owner's retry, a lease expiring under its holder | `ReleasedWhenTerminal`, `TerminalStatusFinal` |
| `jobs_end` | `MCGenerationJob`: fair, image plugin, no crash, no failure of the surroundings | `JobEnds` |
| `cancel_ends` | `MCGenerationJob`: fair, video plugin whose provider may never answer, a crash | `CancelEnds` |
| `capacity` | `MCModelCapacity`: fair, two workers, three jobs, limits 1 and 2 | `ImplementsSemaphore`, `EveryJobServed` |
| `delivery` | `EventDelivery`: one event, two workers, batches of two, one failure | `ImplementsAtLeastOnce`, with its liveness |
| `uploads` | `MediaUploads`: one upload whose POST may be repeated, two completions of it at once, two requests under two keys, all sweeps, the account's end | `InputsProtected`, `NoForgottenObject`, `UnusedObjectsGo` |
| `workspace` | `MCWorkspace`: two agent runs, a confirmation, a user's turn and two job ends, one disturbance; two files, an asset and two uploads; a library of two assets of two jobs, with a word to search for; two settings pages on one section, each section in turn | `TurnsConsistent`, `JobsWanted`, `TurnsStayOver`, `UploadsAccounted`, `SelectionInFilter`, `SettingsAgree`, `DraftsKept` |
| `services` | `MCServices`: each service with two of whatever can race in it | one type invariant and one or two properties of each service |

Deadlock is not checked where the system comes to rest: a job that has ended, a
stream that is empty, requests that are used up. It is in `capacity` and
`uploads`.

In `capacity` two workers meet at the lock, and three jobs against a limit of two
give every relation of the limit to those who hold and those who wait: full,
lowered below what is held, raised while somebody counts. In `uploads` one upload
is enough because no statement relates two of them but the count of open ones and a job with
several inputs; two requests compete for it, and two completions give every overlap in which the
one undoes the other. In `services` every race is between two requests, or a
request and a worker: a third would find the rows one of them left. Attempts, codes, revisions and
versions go one past the first repetition. Interchangeable values start in one
way (the plugin a model is saved with first). `TemplateEntries` has three subjects, because
their product is too large: all doors alone, the page while other pages import, activate, delete
and edit, and two workers at one job while the active version changes. In `workspace` the library has the
tab of all kinds only: a kind narrows the same predicate as a word does, and the
word, which is debounced, is the harder of the two. The smtp section is saved twice,
the others once: with two saves of each section the run is too long, and
`SettingsAlwaysAgree` and `DraftsAreKept` hold for any number of them.

The properties of `services`, one line each:

| Property | Says |
|---|---|
| `NoEditLost` | an edit whose save was answered with 200 is in the document from then on |
| `CredentialSound` (`SecretNotRedirected`, `OutcomesCurrent`) | the secret in force is the last one entered and goes to the target it was entered for; a request is settled once, in order, and nobody is shown an outcome older than their request |
| `LatestNamesPlugin` | the revision a model links exists and names the plugin the row names, unless a preset save overlapped another or stopped half way |
| `PluginStatusHonest` | a rejection is final, a row is active only after an import, and a worker that has seen the row as it is runs the plugin only if it is active |
| `SetupClosed` | once a completion has swept the sessions no claim under way opens another, and at most one is ever valid |
| `SettingsHonest` | verified means that this configuration was tested; a cache entry is not older than the revision it is filed under |
| `TemplatesConsistent` | version numbers are unique, at most one is active, and it holds every edit acknowledged since the last activation or import |
| `MigrationsOrdered` | files are executed in order and once (one outside a transaction perhaps again before the next), and the history records them |
| `InvitationsHonoured` | an invitation admits at most one account, and none once revoked or expired |
| `CallsSound` (`TasksKept`: `AcceptedOnce` and `KnownTaskKept`; `BodiesBounded`) | a provider never accepts two attempts of a run; a run whose task is known to run is not failed for a late, throttled or lost answer; every open body is under a timer |
| `RefusedForWhatIsMissing`, `StoredParametersLegal` | what the console's gate lets through is refused later only for something left out, or a default no gate looked at; what is stored is legal in the contract it was checked against and nothing hidden is carried |
| `OrderHonoured` (`AdmittedIsAccepted`, `WireAsAdmitted`, `AnsweredIsImported`) | an admitted order is not refused by the adapter, reaches the vendor as admitted, and its answer can be used |
| `TemplateEntriesSound` (`EntriesUsable`, `ExportsReturn`, `PageFollows`, `SnapshotWins`) | every version holds legal entries with names of their own, and its export is let in again as the same version; the page's edit is made to the version it showed and it shows what was read after; a text kept for a job is what later attempts render |
| `PackageContained`, `AcceptedLoads` | only inspected, bounded, unambiguous contents are unpacked; an accepted plugin loads |

### Fairness

`FairSpec` of `GenerationJob`: weak fairness of each worker's own steps (`consume`
loops for ever, and every await settles because calls have timeouts), of each
maintenance action (the interval of five seconds in `worker/src/index.ts`), and
of time (leases end, `next_action_at` passes). Nothing is assumed of users,
failures or *which* answer a provider gives: an asynchronous provider may say
`waiting` for ever, which is why `JobEnds` is stated for a synchronous plugin
and `CancelEnds` is the promise for an asynchronous one.

`capacity` assumes weak fairness of a worker's steps, strong fairness of
`LockModel` (PostgreSQL serves the waiters for a row lock in turn, so a worker
does not lose the lock to the others for ever), and that every run ends: for a
synchronous plugin that is what `jobs_end` shows, for an asynchronous one it is an
assumption about its provider, with the user's cancellation as the way out
(`cancel_ends`). The jobs are finitely many:
an endless stream of new jobs could starve a refused one, since a refusal puts
it at the end of the queue and keeps no place.

`EventDelivery` assumes weak fairness of each worker's dispatcher and consume
loop (both are endless loops with a timer), of heartbeats that lapse when nobody
renews them and of messages that grow idle (time). `MediaUploads` assumes weak fairness of
time, of transactions that commit or roll back, of the scans and of the account's
deletion loop (a timer again), and strong fairness of the deletion of an object
and the write after it: a bucket that refuses now and then does not refuse for
ever.

### Disagreements between the code and what it says of itself

Three runs expect a violation; each quotes a line of the repository (`findings`):

* `resubmit_after_success`: an import that fails sends the job to `retry_wait`;
  a repeated message then submits again what the provider had accepted.
* `account_never_purged`: the transaction that scrubs a deleted account contains a
  statement with `$1` and no parameter, so that it aborts on every tick.
* `sent_as_entered`: a typed custom size that breaks the descriptor's band is dropped on
  the keystroke, since the console's effect (`generate-console.tsx:214`) reconciles the
  values on every change of them, and the default is sent, where the comment at
  `media-parameters.ts:301` says that invalid input blocks the button.

More were met than are kept as runs. They are found with these instances of
`MCGenerationJob` (one worker, `MaxAttempt` 1, two submit attempts, unless said
otherwise):

* asynchronous, two workers, `MaxRev` 4, `Allowed = {"delete_user"}`, `Budget` 1,
  `TerminalStatusFinal`: the job update of `SubmitUnclear` (`jobs/index.ts:1108`)
  has no status guard and revives a job that was canceled with its user during
  the submission.
* synchronous, two workers, `MaxAttempt` 2, `MaxRev` 4,
  `Allowed = {"cancel", "crash", "duplicate"}`, `Budget` 2, `TerminalStatusFinal`:
  while one worker preprocesses the second attempt of a job whose cancellation was
  requested, another one's late poll of the first run fails the job, and then the
  update after the preprocessing (`jobs/index.ts:1041`), which has no status guard,
  turns failed into canceled.
* synchronous, two workers, `MaxRev` 4, `Budget` 0, "a poll settles with
  `no_remote` only for a run nobody is submitting": a run is due as soon as it is
  inserted and its submission holds no lease, so another worker recovers a
  submission that is still under way.
* fair, synchronous, `MaxAttempt` 3, `MaxRev` 8, `Allowed = {"retry"}`, `Budget` 1,
  `JobEnds`: after a manual retry the attempts start over, the dedupe key of the
  automatic retry repeats, and the event is dropped.
* fair, synchronous, `MaxAttempt` 2, `MaxRev` 6, `Allowed = {"crash"}`, `Budget` 1,
  `JobEnds`: a crash between claim and run leaves the job running.
* asynchronous, `MaxRev` 6, `Allowed = {"delete"}`, `Budget` 1, "a run of a
  deleted job ends only when the provider was told": the poll of a deleted job
  never cancels remotely.

What the passing runs leave out because of them: `TerminalStatusFinal` is
checked for synchronous plugins, where the unguarded update cannot happen;
`NoBlindResubmit` for asynchronous ones; `JobEnds` without crashes, failures of
the surroundings and manual retries. Leases that end *during* an import
(`"expiry"`) are in `manual_retry` only: with them two workers import at once and
the loser's cleanup removes the winner's object, so `SucceededHasMedia` fails.
`CancelEnds` is checked for the asynchronous plugin: with a synchronous one, a
second attempt whose worker crashes before its run exists is never canceled, since
`handleCancellations` cancels a running job only when it has no run at all.

Hazards that their property catches only in part, besides: `JobEnds` finds a wrong bound on the
attempts, not the dedupe key that repeats after a manual retry; `TerminalStatusFinal` finds a
cancellation request that survives a retry, not the unguarded update of the asynchronous path;
`LatestNamesPlugin` leaves out models on which preset saves overlapped or stopped half way, so of
those saves it shows the lookup by digest and the numbers; `services` has one prober of
credentials, and two that overlap are in the scope of `CredentialsStaySound` alone. The
"note" of a hazard in `PROJECT.json` says so at its line.

`InputsProtected` excepts an input that a completion may still reject. A completion that read
the row as pending, and got bad bytes, may be overtaken: the user posts good bytes, another
completion makes both rows ready, a job attaches them, and then the first one's `rejectUpload`
(`generation-uploads/handlers.ts:221`, `WHERE id=$1` and nothing about the status) deletes the
object and writes `deleted` over both rows. In `MediaUploads` this is the trace TLC gives, with
two completions, when `Settled` is dropped from `CommitJob`. Nor does the property speak of what the
bytes are: a POST may replace them after they were validated, as long as its signature
lasts.

`UploadsAccounted` holds for one click on a retry button at a time; with
`RetryClicks` 2 it fails: two uploads start, the row of one is forgotten, and the
image may be shown as ready for the one that was not verified (the comment at
`reference-upload.ts:367` holds the bar "until the server has verified the stored
bytes"). A restored link `?page=N` never walks forward, contrary to the comments at
`library-view.tsx:256-260` and `294-296`: on the first render the effect of line 183
resets the depth that the hydration of line 132 has just set.

Of the settings page: `admin-settings-view.tsx:326` says "an untouched input is omitted so the
stored secret survives". It does not always. `setupSmtp` (`setup/handlers.ts:403-404`) fills an
omitted password with the one it read before the write, from the row, from a cache or from the
environment, and `updateSmtpSettings`, now given a password, writes it: a password that another
administrator stored between the two is undone. `setupConnected` and `UpdateRow` of
`SettingsConsole` have the step; "a write whose request had no password leaves the stored
one" fails with two pages, two passwords and four revisions.

Excepted in properties of `services`, each named in the property's comment:

* `StoredParametersLegal`: a chain of dependencies is followed for one step, since the
  API judges what is visible on the values it was given (`domain/index.ts:212`). A
  revision that makes a parameter hang on another one, which the console has not
  fetched, is enough: the value of what hangs on a hidden parameter is stored
  (`LooseContract` revised to `ChainContract`). The default of a flag or of a text, and
  one of another type than its parameter's, is in no check of a declaration.
* `KnownTaskKept`: a connection reset, or JSON that does not parse, while the body
  of a poll is read ends the run although its task still runs; a Veo token request
  that times out during a poll becomes `INVALID_CREDENTIAL`. A body reset after
  good headers of openai and seedream becomes `PROVIDER_EMPTY_RESULT` despite the
  comment near `openai-image/index.ts:441`.
* `AnsweredIsImported`: openai's `output_format` jpeg or webp, declared in
  `models.ts:137-149`, comes back inline and is always `OUTPUT_READ_FAILED`, since
  the adapter declares image/png; a synchronous retry orders it again.
* `WireAsAdmitted`: seedance declares `camera_fixed` and `frames` ("Every control
  the adapter reads") and `buildMediaRequest` never forwards them ("Losing a
  parameter on the way to a vendor is a billable mistake", `jobs/index.ts:519`);
  extras of a Veo credential win over the request ("Request-level fields win over
  shared config extras"). Two more differences show without breaking it: defaults
  of `background` and `input_fidelity` are always sent, although "forwarded only
  when the caller actually chose it"; a lone Veo reference or last frame becomes
  the first frame, as documented.
* `AcceptedLoads`: a language package with the key of a shipped language plugin
  passes the check that was to fail it fast (`installPlugin` asks the media
  registry only) and every worker refuses it (`PLUGIN_RESERVED_KEY`); a number
  beyond the range of JSON in a model's limits is stored as null and the bundle
  then never matches (`PLUGIN_MANIFEST_MISMATCH`). Beside the property: a NUL in a
  manifest's text passes validation and the INSERT always fails; `import type`
  from a forbidden module is reported although type-only imports are said to be
  permitted; `inspectModelCapabilities` says it rebuilds each field and keeps the
  parameters' own objects.

## 5. What is proved

Every theorem holds for all values of the constants that satisfy the named
assumptions: any number of workers, requests, tabs or administrators, any bound.
The pattern is one everywhere: an inductive invariant, checked first with TLC on
the instance of the run, a lemma or a step for each action, and a PTL step.
Eight modules hold theorems.

| Theorem | Module | Property |
|---|---|---|
| `Typing`, `Released` | `GenerationJobProofs` | `TypeOK`, `ReleasedWhenTerminal` |
| `EndedJobsStay` | `GenerationJobProofs` | `TerminalStatusFinal` (synchronous plugin, one worker process) |
| `OneRunInFlight`, `OrderedOnce` | `GenerationJobProofs` | `SingleLiveRun`, `NoBlindResubmit` (asynchronous plugin, no manual retry) |
| `ResultKept`, `ResultNotOverruled`, `EndedRunsStay` | `GenerationJobProofs` | `SucceededHasMedia`, `SuccessNotOverruled`, `TerminalRunFinal` (besides: no lease ends under its holder) |
| `CapacityTyping`, `Semaphore` | `ModelCapacityProofs` | `TypeOK`, the refinement `ImplementsSemaphore` |
| `HandledBeforeSettled` | `EventDeliveryProofs` | the safety part of the refinement `ImplementsAtLeastOnce` |
| `InputsStayProtected` (inputs no completion may still reject), `ObjectsStayNamed` | `MediaUploadProofs` | `InputsProtected`, `NoForgottenObject` |
| `SetupStaysClosed`, `SettingsStayHonest`, `CredentialsStaySound`, `PluginStatusStaysHonest`, `LatestStaysNamed`, `TemplatesStayConsistent`, `MigrationsStayOrdered`, `InvitationsStayHonoured`, `CallsStaySound`, `EditsKept`, `EntriesStaySound` | `ServiceProofs` | `SetupClosed`, `SettingsHonest`, `CredentialSound`, `PluginStatusHonest`, `LatestNamesPlugin`, `TemplatesConsistent`, `MigrationsOrdered`, `InvitationsHonoured`, `CallsSound`, `NoEditLost`, `TemplateEntriesSound` |
| `TurnsStayConsistent`, `JobsStayWanted`, `EndedTurnsStay` | `WorkspaceProofs` | `TurnsConsistent`, `JobsWanted`, `TurnsStayOver` |
| `UploadsStayAccounted` (one click on a retry button at a time) | `WorkspaceProofs` | `UploadsAccounted` |
| `SelectionStaysInFilter` | `WorkspaceProofs` | `SelectionInFilter` |
| `SettingsAlwaysAgree`, `DraftsAreKept` | `WorkspaceProofs` | `SettingsAgree`, `DraftsKept` |
| `StoredStaysLegal` | `RequestProofs` | `StoredParametersLegal` |
| `RefusedOnlyForMissing` (no parameter under the name of another one, one slot for each role) | `RequestProofs` | `RefusedForWhatIsMissing` |
| `AcceptedPackagesLoad` | `RequestProofs` | `AcceptedLoads` |
| `OrdersAreHonoured` (the bundled declarations) | `ProviderRequestProofs` | `OrderHonoured` |

### One job

`GenerationJobProofs` begins with lemmas about one row, one per operator of
`ProviderRun`: each keeps a row in `SoundRow`, the typed rows that are not
reserved once terminal.
`ReleasedWhenTerminal` is not inductive together with `TypeOK` alone: a worker
writes to the run it remembers, and the run must be one that exists in the range
of attempts, with the answer it settles among those of its program counter. The
inductive invariant `Inv` therefore has the types of the variables with rows in
`SoundRow` and workers in `BoundWorker` (a worker past the claim is bound to a
run in `Attempts`). The actions are grouped (claim, submission, settling, import,
poll, cancel, time, users, maintenance), each group one lemma with one step per
action.

`EndedJobsStay` adds to it that a job between its claim and the read that follows
the preprocessing is running or canceled (`ClaimHeld`): the update of
`CancelClaimed` does not ask for the status, so it is this that keeps a failed job
from becoming a canceled one. With a second worker process it does not hold (section 4), and
with an asynchronous plugin the unclear answer revives a canceled job; hence the
hypothesis `OneSyncWorker`, which is the instance of `manual_retry`.

The second half of the module is about asynchronous plugins and adds what no single guard says. A job goes back to the queue only
by the hand of the worker that claimed it, before anything is known of a remote
task (`BeforeRemote`); a worker that did not claim it ends it or leaves it alone;
so one worker at a time has a claim (`OneClaim`), and a new run is opened only when
there never was one (`OneRun`). This needs `~ Synchronous` and `"retry" \notin
Allowed`. Both are needed: the synchronous plugin is retried by design, and the
run `resubmit_after_success` shows a resubmission there; the owner's retry opens a
second run by design.

From there it follows the result: who claimed the job is alone as long as the
run has no remote id, and who did not holds the lease of the run, so a worker that
follows the remote task has read a revision that is still the run's (`Following`),
its compare-and-swap succeeds, and nobody ends the job or removes an object behind
its back. This needs besides that no lease ends under its holder
(`"expiry" \notin Allowed`): with it the properties are false, as section 4 says of
imports that overlap. Crashes, redeliveries, failures of the surroundings,
cancellations and deletions are all in scope.

### Many jobs of one model

At `Acquire` the code compares two numbers it read earlier, so the invariant says
what is still known of them. `Informed(w)`: a transaction between lock and commit
is the holder of the lock (so it is the only one), the limit it read is the limit
in force (the administrator waits for the lock), and its count is at least the
number of runs that count now. The last holds because only `Acquire` makes a run
count and every other write can only take one away, which in turn needs
`SoundRow`: a late write that moves an ended run to a live state brings no
reservation back. From there a step of the code is a `Grant`, a `Release`, a
`SetLimit` or a stutter.

### Events

An event is settled when its row is dispatched and none of its messages is unread
or pending. `Added` says that a row is marked only after a message of it is in the
stream, `Acknowledged` that a message leaves the pending entries only after its event was
handled, `Promised` that rows, messages and selections all come from a committed
event, and `Running` what a consume loop may hold while its job runs. From these
each step is one of `AtLeastOnce` or a stutter. That every event is handled in the
end is a liveness property and stays with `delivery`.

### Uploads

The two tables are written by separate statements, so neither row may be believed
alone. `Swept` says that what a sweep selected or purged cannot be posted any
more; `Unhurt` that while the account is active and a row is neither deleted nor
expired, nothing that would remove its object is under way in either table;
`Calls` ties every completion and deletion under way to the rows it may meet, since
completions overlap and each writes by what it read; `Transactions` says that the locks keep the
inputs of two creations apart; `Inputs` what a committed job's whole inputs stay like: object
there, attached in both tables, in no sweep, and with no completion that may still reject it.
The last begins with the job, by the definition of `live`, and lasts because a completion
begins at a pending row only. Without it the theorem would be false (section 4); with it the
theorem holds for any number of repeated POSTs and overlapping completions.

### Services

`ServiceProofs` has one section for each service, each about that service's own
specification.

* Setup: before the setup is complete a session needs a consumed claim, and who
  sweeps has seen it complete.
* Settings: a load carries a revision read before the rows; it is the rows' unless
  a save has written them and not yet moved the revision (`Fresh`, `AllMarked`).
* Credentials: the open request is the last one made; when none is open the last
  one made is the last one settled. This is what makes the answer a poll finds no
  older than the own request.
* Plugins: a worker that read the row as it still is (`stamp`) knows its status.
* Models: while nobody disturbed another, who is past the row's update is alone and
  brings the plugin of the row to the revision (`Undisturbed`).
* Templates: a transaction that forks holds the swap lock alone, and the version it
  locked stays the active one.
* Migrations: the holder of the lock knows the history but for what it recorded itself;
  a file that was executed and not recorded is the last one executed, runs outside
  a transaction, and every file below it is recorded. Without the second the order
  is not inductive: a crash leaves such a file behind for a runner of another release.
* Accounts: a redemption under way holds its live invitation alone.
* Calls: of all submissions of a run's attempts at most one may still be accepted or has
  been (`Possible`), and none while the next is about to be made.
* Canvas: a tab that shows the document's revision shows its scene.
* Entries of the templates (`EntriesInv`): each door's check implies the import's, so every
  version is usable (`UsableSets`), and the export of a usable version is accepted again
  (`ExportReturns`, where the place of an entry in the list is counted against
  `MaxSortOrder`). `PageSound` orders what the page shows, has got and was told by `swaps`: a
  fetch given up and begun anew after an edit has read nothing older than it. `AttemptsSound`
  says that an attempt which still has to choose has found no snapshot, so none replaces one.

### The agent of a canvas

Every write of the loop asks for the token of the session, so the argument follows
the token. `Slot`: as long as the slot holds a token it names a turn, that turn and no
other is running, and a turn is completed exactly when its last message is there.
`UnderWay` ties the requests to their turns: a request past its start has one, and
waits in its place while the order it makes is under way. `EndedTurnsStay` is an action
property over the same invariant: an ended turn is not the session's, so no token
fits it.

What is ordered was wanted needs the history of a proposal. `Numbered` and `Counted`
say which tool calls a turn has made and that no proposal carries a later number, so a
retry or a takeover proposes nothing twice; `Orders` says where the order of a
submitter comes from, whose claim on the proposal may have lapsed and been taken by another
one; `Woken` says that an end of a job is one event, one turn and one count of the
session; `Budgeted` that a turn has at most `MaxJobs` proposals, which holds because
`ProposeJob` counts them under the lease and, by `Counted`, always adds a new one.
Proposals advance in few ways (`Advances`), and one lemma, `Works`, carries the
invariant through every step that only moves a run, a claim or a proposal.

### The staged images

Every await continues on a list that may have changed, so the invariant says what an
await under way means for its image. An image on the list has at most one task
(`OneTask`), and the task tells how far the image is (`Fitting`): an image that is
ready has none, so nothing deletes an upload that a request names. A deletion whose
image is still on the list is the one a retry makes first. `Accounted` says that an
upload the browser knows is an image's, a deletion's, waits in the rest of a clearing, or
is left to the sweep; every lemma of an action shows who takes it over. `Requested`
keeps the inputs of a request equal to the list, which nobody touches while it is
under way. The hypothesis, one click on a retry button at a time, is needed:
with two the property fails (see the end of section 4).

### The library

Pages arrive after the filter has moved on, so the invariant speaks of keys and not of
the filter: whatever is loaded or being fetched under a key matches that key and is one
list from new to old (`Loads`, `Fetches`); a page that is appended begins below its
cursor. What is selected matches the key in force because the code drops the
selection with every change of the applied filter.

### The settings page

`SettingsAlwaysAgree` is `CapsAlwaysAgree` and `RevisionsAlwaysTell`. That the caps agree is not inductive for the row alone: a page submits what it was loaded
with where the draft is blank, so every copy has to agree, the panel's, the query's,
the caches' and that of a request under way (`CapsRow`, `CapsPage`). `Copies` says that no
copy has a revision above the row's, and that one with the row's revision has its settings: a
save moves the revision and replaces the row in one statement, so all copies fall behind at
once. `Writes` says it of what a plain section answers with. `CarriesDraft` ties the request of a page to
its draft, which the disabled fieldset leaves alone until the answer.

### The way of a request

Both theorems hold for every set of contracts, well formed or not. The first half of
`RequestProofs` is about the operators of `ParameterContract`: a declaration without
findings has one descriptor for a name, defaults that are legal unless nobody looked at them,
and couplings of known types between declared parameters (`ParametersSound`, `ContractSound`);
a value that is given, visible and not refused is legal and is kept (`GivenLegal`,
`NormalizedKeeps`); a coupling looks at its two parameters only (`SamePair`). From these
what the API accepts is `Stored` (`CheckedIsStored`), the runtime ceiling changes inputs
only (`SameUnderCeiling`), what the console lets through is `Right` (`ConsoleRight`), and its
plan of images is never laxer than the slots (`ConsoleFit`).

`RequestInv` ties a request to the revision it was checked against, and a job to its own.
`Gates` adds what a gate may rely on when it reads the same revision as the one before it:
what was sent is `Right` and its images fit under the console's revision (`SentRequest`),
what is stored fits under the checked one (`KeptJob`). An issue of the next gate is then
about something that is not given, hidden, or a default (`CheckExpected`, `PluginExcused`).

`RefusedOnlyForMissing` has two hypotheses about the contracts. `NoAliases`: no parameter
goes by the name that the console uses for another one (`duration` for
`durationSeconds`), or the console would show a default of one for the other. `PlainSlots`:
a role has one slot, and a slot takes at least one image; the console takes the first slot
of a role, the API looks at each. The bundled declarations and those of the run satisfy both.

### The order on the wire

`OrdersAreHonoured` is about four adapters that each read a request in their own way. Of an
order that waits, `Fine` says what the API's check leaves: parameters legal under the declaration
of its model (`Kept`), images that fit its slots (`Carried`), a drawn mask with the geometry of
its picture (`Drawn`). `Row` is a model's declaration as a table, for each of the bundled ones. From
there one lemma for each adapter says what it may still refuse (`OpenAiTakes` and its like), where
each parameter goes (`OpenAiReaches`, ...) and where each image (`OpenAiPartition`, ...); that the
images of one place keep their order is `RankGrows`, by counting. `CutsCover` is about the corners of a
drawn rectangle, halved and rounded. `WireInv` then says that what was sent or refused is this function
of the order and of the credential's extras. The catalogue is fixed; requests, images,
drawings, answers and extras are any sets.

### The way of a package

`AcceptedPackagesLoad` is about what two programs compute of the same manifest. The API validates
what was uploaded, normalizes it and stores it as JSON; the worker validates what the bundle exports,
validates and normalizes the stored one again and compares the two through JSON. So it rests on
three lemmas for every manifest: a valid one is valid when it is normalized, and normalized again it
stays as it is (`ManifestKept`, field by field: `HostsKept`, `CredentialKept`, `ModelKept`, whose
contract loses its nested defaults only, `ContractKept`); JSON keeps what was normalized, if no
number is beyond its range (`JsonKeeps`). A list without its repeats is the list at the first place of
each element, in order; `RankOnto`, `PlacesTaken` and `RepeatsGone` say that this loses no element
and is idempotent, by counting places instead of by induction. A package's bundle is within the limit
of the worker because the inventory looked at the same entry (`BundleInLimit`). The invariant
`PackageInv` says which steps of the inspection an upload has passed, and that the row is its own.

### Assumptions

All are named and evaluated by TLC on a run: `NoWorker` is not a worker
(`NoWorkerAssumption`); the constants have their types (`ConstantsAssumption` and
one of the kind in each service); tokens are finitely many, `NoToken` is none of
them, and limits are positive (`CapacityAssumption`; `Number(limit || 1)` in the
code and the validation of the administrator's input); markers such as `"none"` and
`"unset"` are not among the values (`ModelAssumption`, `SettingsAssumption`); a lease
token belongs to one request and a message id to one kind of message
(`NamesAssumption`: tokens are fresh UUIDs); a gallery is a sequence of assets and a page
has a size (`LibraryAssumption`); an asset's id is not the number of a file and the bounds
are numbers (`ReferenceAssumption`); a batch has a size (`BatchAssumption`); the
places of a list are sort orders (`EntriesAssumption`: 100 entries, orders up to 1000000); the environment's
fallbacks are values of their fields (`ConsoleAssumption`); a declaration is a record of the fields of a contract whose parameters are a list
(`DeclarationAssumption`: what the route's schema lets in); the lists of an uploaded manifest are
lists and its credential has the fields of one (`UploadAssumption`: what is no list is read as none, what lacks a field is
refused); files outside a transaction are among the baseline
(`MigrationAssumption`: those of the repository are); what requests, drawings and answers are made of
has its types (`WireAssumption`), the words for the lengths of a clip are numerals
(`NumeralsAssumption`), and the bundled declarations pass the validation of declarations
(`BundledDeclarationsValid`, which TLC evaluates).

### Only model-checked

* Liveness (`JobEnds`, `CancelEnds`, `EveryJobServed`, `UnusedObjectsGo`, the second
  half of `ImplementsAtLeastOnce`): fairness and ENABLED are out of the prover's
  reach.
* `PackageContained` is about sums and about files written one after another, folds over the
  entries, for which the prover has no induction.
* `TypeOK` of the services, which is about bounds the runs need and the theorems do
  not: each inductive invariant has the types it uses.

## 6. Not modelled

* Deployment and scripts (except the re-encryption of secrets), build files.
* The lists of the API other than the library's: reads.
* The web client beyond the console's form, the staged images and the library: pages, dialogs, and lists that
  render what the API answers.
* `prompt_optimizations` and `output_ingestions` as rows of their own: a call that
  takes time and may fail, and an effect on the import.
* The legacy plugins (1.0.0), image codecs, wire formats, SQL and schema details
  beyond the columns named here, rendering, rate limits, cookies and the OAuth
  protocol.
