----------------------------- MODULE ProviderCalls -----------------------------
(***************************************************************************)
(* One run's calls to its provider: the SafeHttp request with its timer, its   *)
(* abort signal and its response body, what the built-in plugins make of each   *)
(* way a request can end, and what the worker makes of the plugin's result.      *)
(* The provider is external: it may accept a submission whose answer is lost.     *)
(***************************************************************************)
EXTENDS Naturals

CONSTANTS
    MaxHops,      \* MAX_REDIRECTS
    MaxTries      \* MAX_SYNC_SUBMIT_ATTEMPTS

ASSUME CallAssumption == MaxHops \in Nat /\ MaxTries \in Nat \ {0}

VARIABLES
    adapter,      \* the plugin the run's revision names
    call,         \* the plugin call under way; minting: it is still getting a token
    http,         \* its HTTP request
    submission,   \* the run, as the worker stored it
    remoteTask    \* at the provider: unanswered submissions, accepted ones, the task

callVars == <<adapter, call, http, submission, remoteTask>>

SyncAdapters == {"openai", "openai_legacy"}   \* seedream_image and its legacy are alike
AsyncAdapters == {"veo", "seedance"}
Calls == {"submit", "poll", "cancel"}
Answers == {"ok", "404", "4xx", "429", "5xx"}
Aborts == {"timeout", "canceled"}
Endings == Aborts \cup {"transport", "unsafe", "too_large", "broken", "complete"}
Codes == {"PROVIDER_TEMPORARY_ERROR", "PROVIDER_TIMEOUT", "OUTPUT_READ_FAILED", "UNSAFE_URL",
          "PROVIDER_REJECTED", "PROVIDER_EMPTY_RESULT", "INVALID_CREDENTIAL", "GENERATION_FAILED"}
Http == [ at : {"idle", "fetching", "headers", "reading", "settled"},
          body : {"none", "open", "gone"}, timer : BOOLEAN, abort : Aborts \cup {"none"},
          ending : Endings \cup {"none"}, status : Answers \cup {"none"}, hops : 0 .. MaxHops ]

CallTypeOK ==
    /\ adapter \in SyncAdapters \cup AsyncAdapters
    /\ call \in [want : Calls \cup {"none"}, minting : BOOLEAN]
    /\ http \in Http
    /\ submission \in
         [ state : {"submitting", "retry", "submission_unknown", "waiting", "failed", "succeeded",
                    "canceled"},
           code : Codes \cup {"none"}, tries : 1 .. MaxTries, remote : BOOLEAN ]
    /\ remoteTask \in [ sent : 0 .. MaxTries, accepted : 0 .. MaxTries,
                        state : {"none", "running", "ended"} ]

NoHttp == [at |-> "idle", body |-> "none", timer |-> FALSE, abort |-> "none",
              ending |-> "none", status |-> "none", hops |-> 0]
NoPluginCall == [want |-> "none", minting |-> FALSE]

CallInit ==
    /\ adapter \in SyncAdapters \cup AsyncAdapters
    /\ call = NoPluginCall
    /\ http = NoHttp
    /\ submission = [state |-> "submitting", code |-> "none", tries |-> 1, remote |-> FALSE]
    /\ remoteTask = [sent |-> 0, accepted |-> 0, state |-> "none"]
-----------------------------------------------------------------------------
(* DefaultSafeHttpClient                                                       *)
\* Mutant: the cleanup that runs when the headers are in stops the timer of the body.
ReturnsWithoutTimer(status) ==
    [http EXCEPT !.at = "headers", !.body = "open", !.status = status, !.timer = FALSE]

\* wrapResponse: the body is still to be read, under the same timer.
Returns(status) == [http EXCEPT !.at = "headers", !.body = "open", !.status = status]

\* cleanup, and an abort outranks the error it caused (checkAbort).
Settled(ending) ==
    [http EXCEPT !.at = "settled", !.timer = FALSE, !.body = IF @ = "open" THEN "gone" ELSE @,
                 !.ending = IF http.abort = "none" THEN ending ELSE http.abort]

Sends(want, minting) ==
    /\ call' = [want |-> want, minting |-> minting]
    /\ http' = [NoHttp EXCEPT !.at = "fetching", !.timer = TRUE]
    /\ remoteTask' = IF want = "submit" /\ ~ minting
                       THEN [remoteTask EXCEPT !.sent = @ + 1] ELSE remoteTask

\* controller.abort() by the timer: onAbort cancels the body and cleans up.
TimerFires ==
    /\ http.timer
    /\ http' = [http EXCEPT !.timer = FALSE, !.abort = "timeout",
                            !.body = IF @ = "open" THEN "gone" ELSE @]
    /\ UNCHANGED <<adapter, call, submission, remoteTask>>

\* The provider's answer to a submission tells whether it was accepted, a 5xx nothing.
AnswerFits(status) ==
    call.want = "submit" /\ ~ call.minting =>
        /\ status = "ok" => remoteTask.sent = 0
        /\ status \in {"404", "4xx", "429"} => remoteTask.sent > 0

\* The loop of request: a redirect, final headers, or a failure of fetch.
FetchSettles ==
    /\ http.at = "fetching"
    /\ \/ /\ http.abort = "none" /\ http.hops < MaxHops
          /\ http' = [http EXCEPT !.hops = @ + 1]
          /\ UNCHANGED remoteTask
       \/ /\ \E ending \in {"transport", "timeout", "unsafe"} : http' = Settled(ending)
          /\ UNCHANGED remoteTask
       \/ /\ http.abort = "none"
          /\ \E status \in Answers :
                /\ AnswerFits(status)
                /\ http' = Returns(status)
                /\ remoteTask' =
                     IF call.want = "submit" /\ ~ call.minting /\ status \in {"404", "4xx", "429"}
                       THEN [remoteTask EXCEPT !.sent = @ - 1] ELSE remoteTask
    /\ UNCHANGED <<adapter, call, submission>>

\* cancel of veo leaves the body of an ok answer unread, cancel of seedance that of a 404.
LeavesBody ==
    /\ call.want = "cancel" /\ ~ call.minting
    /\ \/ adapter = "veo" /\ http.status \in {"ok", "404"}
       \/ adapter = "seedance" /\ http.status = "404"

\* openReader: aborted, longer than maxBytes by its header, or opened.
OpenReader ==
    /\ http.at = "headers" /\ ~ LeavesBody
    /\ \/ http.abort = "none" /\ http' = [http EXCEPT !.at = "reading"]
       \/ http' = Settled("too_large")
    /\ UNCHANGED <<adapter, call, submission, remoteTask>>

\* readBoundedBuffer: to the end, too long, or broken: the transport's raw error, or a body
\* that is no JSON.
ReadSettles ==
    /\ http.at = "reading"
    /\ \E ending \in {"complete", "too_large", "broken"} : http' = Settled(ending)
    /\ UNCHANGED <<adapter, call, submission, remoteTask>>
-----------------------------------------------------------------------------
(* Plugins and worker: how a call ends                                         *)
\* error.message of what the request threw; a body that breaks throws a raw error.
ThrownCode ==
    CASE http.ending = "timeout"   -> "PROVIDER_TIMEOUT"
      [] http.ending = "transport" -> "PROVIDER_TEMPORARY_ERROR"
      [] http.ending = "too_large" -> "OUTPUT_READ_FAILED"
      [] http.ending = "unsafe"    -> "UNSAFE_URL"
      [] OTHER                     -> "GENERATION_FAILED"

fromHttp == IF http.status \in {"429", "5xx"} THEN "PROVIDER_TEMPORARY_ERROR" ELSE "PROVIDER_REJECTED"

Ends(state, code, remote) ==
    /\ submission' = [submission EXCEPT !.state = state, !.code = code, !.remote = remote]
    /\ call' = NoPluginCall
    /\ UNCHANGED <<adapter, http, remoteTask>>

Keeps(state) == Ends(state, submission.code, submission.remote)
Fails(code) == Ends("failed", code, submission.remote)

\* Mutant: every temporary error may be submitted again, not the 429 alone.
RetriesTemporary(code, status) == code = "PROVIDER_TEMPORARY_ERROR"

\* isSyncRetryableSubmitCode: only an answer that says nothing was accepted.
SyncRetryable(code, status) == code = "PROVIDER_TEMPORARY_ERROR" /\ status = "429"

\* classifySubmitError(...).retryable
RetryableCodes == {"PROVIDER_TEMPORARY_ERROR", "PROVIDER_TIMEOUT", "OUTPUT_READ_FAILED"}

\* Mutant: the attempt at the limit may be followed by one more.
AttemptsLeftInclusive == submission.tries <= MaxTries

\* shouldRetrySyncSubmit
AttemptsLeft == submission.tries < MaxTries

\* The plugin fails a synchronous submission, by throwing or by its result.
SyncFails(code, status) ==
    IF SyncRetryable(code, status) /\ AttemptsLeft
      THEN Keeps("retry") ELSE Fails(code)

\* What the worker does with an error the plugin throws.
Throws(code, status) ==
    \/ call.want = "submit" /\ adapter \in SyncAdapters /\ SyncFails(code, status)
    \/ call.want = "submit" /\ adapter \in AsyncAdapters
       /\ IF code \in RetryableCodes THEN Ends("submission_unknown", code, FALSE) ELSE Fails(code)
    \/ call.want = "poll" /\ IF code \in RetryableCodes THEN Keeps("waiting") ELSE Fails(code)
    \/ call.want = "cancel" /\ Keeps("canceled")

Finished(want) == call.want = want /\ ~ call.minting /\ http.at = "settled"
BodyRead == http.ending = "complete"
BeforeHeaders == http.status = "none"

\* mintServiceAccountToken: whatever goes wrong is an invalid credential.
TokenSettles ==
    /\ call.minting /\ http.at = "settled"
    /\ \/ BodyRead /\ http.status = "ok" /\ Sends(call.want, FALSE) /\ UNCHANGED <<adapter, submission>>
       \/ Throws("INVALID_CREDENTIAL", "none")

submitImage ==
    /\ Finished("submit") /\ adapter \in SyncAdapters
    /\ \/ ~ BodyRead /\ (BeforeHeaders \/ http.status # "ok" \/ adapter = "openai_legacy")
          /\ Throws(ThrownCode, "none")
       \/ ~ BodyRead /\ http.status = "ok" /\ adapter = "openai"
          /\ IF http.ending = "broken" THEN Fails("PROVIDER_EMPTY_RESULT")
                                       ELSE Throws(ThrownCode, "none")
       \/ BodyRead /\ http.status # "ok" /\ SyncFails(fromHttp, http.status)
       \/ BodyRead /\ http.status = "ok" /\ (Keeps("succeeded") \/ Fails("PROVIDER_EMPTY_RESULT"))

submitVideo ==
    /\ Finished("submit") /\ adapter \in AsyncAdapters
    /\ \/ ~ BodyRead /\ adapter = "veo" /\ BeforeHeaders /\ Fails("PROVIDER_TEMPORARY_ERROR")
       \/ ~ BodyRead /\ (adapter = "seedance" \/ ~ BeforeHeaders) /\ Throws(ThrownCode, "none")
       \/ BodyRead /\ http.status = "ok" /\ Ends("waiting", "none", TRUE)
       \/ BodyRead /\ http.status = "ok"     \* no name, or no id
          /\ IF adapter = "veo" THEN Fails("PROVIDER_EMPTY_RESULT")
                                ELSE Ends("submission_unknown", "PROVIDER_EMPTY_RESULT", FALSE)
       \/ BodyRead /\ http.status # "ok"
          /\ IF adapter = "seedance" /\ fromHttp \in RetryableCodes
               THEN Ends("submission_unknown", fromHttp, FALSE) ELSE Fails(fromHttp)

pollVideo ==
    /\ Finished("poll")
    /\ \/ ~ BodyRead /\ adapter = "veo" /\ BeforeHeaders /\ Keeps("waiting")
       \/ ~ BodyRead /\ (adapter = "seedance" \/ ~ BeforeHeaders) /\ Throws(ThrownCode, "none")
       \/ BodyRead /\ http.status # "ok"
          /\ IF adapter = "veo" \/ fromHttp \in RetryableCodes THEN Keeps("waiting") ELSE Fails(fromHttp)
       \/ BodyRead /\ http.status = "ok" /\ Keeps("waiting")
       \/ BodyRead /\ http.status = "ok" /\ remoteTask.state = "ended"
          /\ \/ Keeps("succeeded") \/ Keeps("canceled")
             \/ \E code \in {"PROVIDER_REJECTED", "PROVIDER_EMPTY_RESULT", "UNSAFE_URL"} : Fails(code)

\* requestRemoteCancel: the run ends canceled whatever the plugin says or throws.
cancelVideo ==
    /\ \/ Finished("cancel")
       \/ http.at = "headers" /\ LeavesBody
    /\ Keeps("canceled")
-----------------------------------------------------------------------------
(* The worker's calls, and the provider                                        *)
Submits ==
    /\ call.want = "none" /\ submission.state = "submitting"
    /\ \E minting \in {adapter = "veo", FALSE} : Sends("submit", minting)
    /\ UNCHANGED <<adapter, submission>>

\* The job's next attempt, with a new run.
SubmitsAgain ==
    /\ submission.state = "retry"
    /\ submission' = [submission EXCEPT !.state = "submitting", !.tries = @ + 1]
    /\ UNCHANGED <<adapter, call, http, remoteTask>>

PollsOrCancels ==
    /\ call.want = "none" /\ submission.state = "waiting"
    /\ \E want \in {"poll", "cancel"}, minting \in {adapter = "veo", FALSE} : Sends(want, minting)
    /\ UNCHANGED <<adapter, submission>>

\* A request that was sent may arrive, even after its caller gave up.
ProviderAccepts ==
    /\ remoteTask.sent > 0
    /\ remoteTask' = [sent |-> remoteTask.sent - 1, accepted |-> remoteTask.accepted + 1,
                      state |-> "running"]
    /\ UNCHANGED <<adapter, call, http, submission>>

TaskEnds ==
    /\ remoteTask.state = "running"
    /\ remoteTask' = [remoteTask EXCEPT !.state = "ended"]
    /\ UNCHANGED <<adapter, call, http, submission>>

CallNext ==
    \/ TimerFires \/ FetchSettles \/ OpenReader \/ ReadSettles
    \/ TokenSettles \/ submitImage \/ submitVideo \/ pollVideo \/ cancelVideo
    \/ Submits \/ SubmitsAgain \/ PollsOrCancels \/ ProviderAccepts \/ TaskEnds

CallSpec == CallInit /\ [][CallNext]_callVars
-----------------------------------------------------------------------------
\* provider-state.ts: "an automatic resubmit is only safe for explicit HTTP 429": however the
\* answers of the attempts are lost or late, the provider never accepts two of them.
AcceptedOnce == remoteTask.accepted <= 1

\* A poll that times out, is throttled, fails on the way or is answered at too great a length
\* says nothing of the task: the run of a task that still runs is not failed for it.  Only what
\* arrives under one of these codes is promised.  The code does fail the run for a connection
\* that is reset, or JSON that does not parse, while the body is read (GENERATION_FAILED), and
\* for a token request that times out (INVALID_CREDENTIAL).
KnownTaskKept ==
    submission.remote /\ submission.state = "failed" /\ remoteTask.state = "running"
        => submission.code \notin {"PROVIDER_TEMPORARY_ERROR", "PROVIDER_TIMEOUT", "OUTPUT_READ_FAILED"}

\* A provider's task is ordered once and, but for those two, not given up: both of the above.
TasksKept == AcceptedOnce /\ KnownTaskKept

\* http.ts: a response body that nobody reads, or whose reader hangs, is still under the timer
\* that cancels it: no connection is held for good.
BodiesBounded == http.body = "open" => http.timer

\* A run's task and the calls about it: neither is forgotten.
CallsSound == TasksKept /\ BodiesBounded
=============================================================================
