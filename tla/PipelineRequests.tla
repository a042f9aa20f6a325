-------------------------- MODULE PipelineRequests --------------------------
(***************************************************************************)
(* Requests about pipelines, from the handler to the three providers and   *)
(* back: what a status filter becomes in a provider's language, what a     *)
(* pipeline's status there becomes in ours, and what a failure becomes on  *)
(* its way to the client.  The pipelines of a project move on meanwhile.   *)
(*                                                                         *)
(* A list is kept by the filter it was asked with; the rest of its key is  *)
(* the same here, and so is the page.  A pipeline is listed or not for     *)
(* itself.  Requests are followed one at a time, with ListReads for what   *)
(* several do to one cache, and those for jobs and traces to where         *)
(* PipelineTraces begins.                                                  *)
(***************************************************************************)
EXTENDS Naturals

CONSTANTS None,      \* no status, no list, no settings, no answer yet
          Pipelines, \* pipelines that exist or can be triggered
          MaxRetries \* bound: how often GitLab's client asks again (RetryMax, 5)

VARIABLES provider, \* spec.gitProvider of the git server
          wanted,   \* the status this client filters by
          settings, \* settingsCache
          raw,      \* at the provider: the status of each pipeline, or None
          cache,    \* the pipelines cache, by filter
          op,       \* the request
          filter,   \* its status parameter, or "all"
          pc,       \* "idle", "settings", "dispatch", "call" or "done"
          retried,  \* how often the provider has been asked again
          answer,   \* the code the client is answered with
          reply,    \* history: what Kubernetes or the provider said last
          stale,    \* history: pipelines that moved on since a list was read
          made      \* history: how many pipelines the request has made

where   == <<provider, wanted>>
known   == <<settings, raw, cache, stale>>
request == <<op, filter, pc, retried, answer, reply, made>>
vars    == <<where, known, request>>

Operations == {"ListPipelines", "TriggerPipeline", "ListPipelineJobs", "GetPipelineJobTrace"}
Statuses   == {"pending", "running", "success", "failed", "cancelled", "skipped", "manual"}
Filters    == {"all", wanted}
Codes      == {"200", "201", "400", "401", "404", "500"}

ASSUME RequestsAssumption == MaxRetries \in Nat /\ None \notin Statuses \cup Codes

-----------------------------------------------------------------------------
(* Statuses.  A GitHub or Bitbucket pipeline that is completed has the name *)
(* of its conclusion here, another that of its status.                      *)

\* What the providers call them, and one that the code does not know.
RawStatuses ==
    CASE provider = "gitlab" ->
           {"created", "waiting_for_resource", "preparing", "pending", "running", "success",
            "failed", "canceled", "skipped", "manual", "scheduled", "unknown"}
      [] provider = "github" ->
           {"queued", "pending", "waiting", "requested", "in_progress", "success", "neutral",
            "failure", "timed_out", "startup_failure", "cancelled", "skipped",
            "action_required", "stale", "unknown", "unknown conclusion"}
      [] provider = "bitbucket" ->
           {"PENDING", "IN_PROGRESS", "SUCCESSFUL", "FAILED", "ERROR", "STOPPED", "EXPIRED",
            "HALTED", "PAUSED", "unknown", "unknown result"}
      [] OTHER -> {"unknown"}

\* Mutant of normalizeGitLabPipelineStatus: what is not known is handed on.
HandsOn(status) == IF status = "canceled" THEN "cancelled" ELSE status

normalizeGitLabPipelineStatus(status) ==
    CASE status \in {"pending", "created", "waiting_for_resource", "preparing"} -> "pending"
      [] status \in {"running", "success", "failed", "skipped"}                 -> status
      [] status = "canceled"                                                    -> "cancelled"
      [] status \in {"manual", "scheduled"}                                     -> "manual"
      [] OTHER                                                                  -> "pending"

normalizeGitHubWorkflowRunStatus(status) ==
    CASE status \in {"queued", "pending", "waiting", "requested"}    -> "pending"
      [] status = "in_progress"                                      -> "running"
      [] status \in {"success", "neutral"}                           -> "success"
      [] status \in {"failure", "timed_out", "startup_failure"}      -> "failed"
      [] status \in {"cancelled", "stale"}                           -> "cancelled"
      [] status = "skipped"                                          -> "skipped"
      [] status = "action_required"                                  -> "manual"
      [] status = "unknown conclusion"                               -> "failed"
      [] OTHER                                                       -> "pending"

normalizeBitbucketPipelineStatus(status) ==
    CASE status = "PENDING"                              -> "pending"
      [] status = "IN_PROGRESS"                          -> "running"
      [] status = "SUCCESSFUL"                           -> "success"
      [] status \in {"FAILED", "ERROR"}                  -> "failed"
      [] status \in {"STOPPED", "EXPIRED"}               -> "cancelled"
      [] status = "unknown result"                       -> "failed"
      [] status \in {"HALTED", "PAUSED"}                 -> "manual"
      [] OTHER                                           -> "pending"

Normalized(status) ==
    CASE provider = "gitlab"    -> normalizeGitLabPipelineStatus(status)
      [] provider = "github"    -> normalizeGitHubWorkflowRunStatus(status)
      [] provider = "bitbucket" -> normalizeBitbucketPipelineStatus(status)

\* Mutant of mapPipelineStatusToGitLab: GitLab writes cancelled like we do.
OneSpelling ==
    [pending |-> "pending", running |-> "running", success |-> "success", failed |-> "failed",
     cancelled |-> "cancelled", skipped |-> "skipped", manual |-> "manual"]

\* The one status a provider is asked for; no entry is no filter.
mapPipelineStatusToGitLab ==
    [pending |-> "pending", running |-> "running", success |-> "success", failed |-> "failed",
     cancelled |-> "canceled", skipped |-> "skipped", manual |-> "manual"]
mapPipelineStatusToGitHub ==
    [pending |-> "queued", running |-> "in_progress", success |-> "success",
     failed |-> "failure", cancelled |-> "cancelled", skipped |-> "skipped",
     manual |-> "action_required"]
mapPipelineStatusToBitbucketQuery ==
    [pending |-> "PENDING", running |-> "IN_PROGRESS", success |-> "SUCCESSFUL",
     failed |-> "FAILED", cancelled |-> "STOPPED", manual |-> "HALTED"]

StatusQuery ==
    CASE provider = "gitlab"    -> mapPipelineStatusToGitLab
      [] provider = "github"    -> mapPipelineStatusToGitHub
      [] provider = "bitbucket" -> mapPipelineStatusToBitbucketQuery

\* Bitbucket has no skipped pipelines, and is not asked for any.
NoneSkipped(f) == provider = "bitbucket" /\ f = "skipped"

\* What the provider lists for a filter, as we show it.
Listing(f) ==
    LET asked == IF f \in DOMAIN StatusQuery THEN {StatusQuery[f]} ELSE RawStatuses IN
    [p \in Pipelines |-> IF raw[p] \in asked /\ ~NoneSkipped(f) THEN Normalized(raw[p]) ELSE None]

-----------------------------------------------------------------------------
(* Failures.                                                               *)

\* What a provider answers instead: an HTTP status that is an error, a list
\* that cannot be parsed, or nothing.
Failures == {"401", "403", "404", "500", "unparsable", "nothing"}

\* Mutant of mapGitLabJobsError: only what is not found is told apart.
NotFoundOnly(failure) == IF failure = "404" THEN "ErrNotFound" ELSE "other"

\* The sentinel error that a failure of GitLab is wrapped around.
mapGitLabJobsError(failure) ==
    CASE failure = "404"            -> "ErrNotFound"
      [] failure \in {"401", "403"} -> "ErrUnauthorized"
      [] OTHER                      -> "other"

classifyGitHubError(failure) ==
    CASE failure = "404" -> "ErrNotFound"
      [] failure = "401" -> "ErrUnauthorized"
      [] OTHER           -> "other"

\* Bitbucket's failures are told apart like GitHub's.
ErrorOf(failure) ==
    IF provider = "gitlab" THEN mapGitLabJobsError(failure) ELSE classifyGitHubError(failure)

\* listErrResponse, triggerErrResponse, jobsErrResponse and traceErrResponse.
CodeOf(error) ==
    CASE error = "ErrUnauthorized" -> "401"
      [] error = "ErrBadRequest"   -> "400"
      [] error = "ErrNotFound"     -> "404"
      [] OTHER                     -> "500"

Answered(code) == answer' = code /\ pc' = "done"
Refused(error) == Answered(CodeOf(error))

-----------------------------------------------------------------------------
Init ==
    /\ provider \in {"gitlab", "github", "bitbucket", "another"}
    /\ wanted \in Statuses \cup {"unknown"}
    /\ settings = None
    /\ raw \in [Pipelines -> RawStatuses \cup {None}]
    /\ cache = [f \in Filters |-> None]
    /\ stale = [f \in Filters |-> {}]
    /\ op = "ListPipelines" /\ filter = "all" /\ pc = "idle"
    /\ retried = 0 /\ answer = None
    /\ reply = "nothing" /\ made = 0

-----------------------------------------------------------------------------
(* The environment.                                                        *)

\* A pipeline moves on, or somebody starts one: lists read before are stale.
Progress(p, status) ==
    /\ raw[p] # status
    /\ raw' = [raw EXCEPT ![p] = status]
    /\ stale' = [f \in Filters |-> stale[f] \cup {p}]
    /\ UNCHANGED <<where, settings, cache, request>>

\* The cached settings, or a cached list, expire.
DropSettings ==
    /\ settings # None
    /\ settings' = None
    /\ UNCHANGED <<where, raw, cache, stale, request>>

DropList(f) ==
    /\ cache[f] # None
    /\ cache' = [cache EXCEPT ![f] = None]
    /\ stale' = [stale EXCEPT ![f] = {}]
    /\ UNCHANGED <<where, settings, raw, request>>

\* A list in the cache is read anew in the background.
Refresh(f) ==
    /\ cache[f] # None
    /\ cache' = [cache EXCEPT ![f] = Listing(f)]
    /\ stale' = [stale EXCEPT ![f] = {}]
    /\ UNCHANGED <<where, settings, raw, request>>

-----------------------------------------------------------------------------
(* A request.                                                              *)

\* The router or the handler refuses the parameters: one that is empty or given twice,
\* or an id or a page that is not a number.
Malformed == Refused("ErrBadRequest")

\* A client asks.
Request(o, f) ==
    /\ pc = "idle"
    /\ o # "ListPipelines" => f = "all"
    /\ op' = o /\ filter' = f
    /\ \/ pc' = "settings" /\ UNCHANGED answer
       \/ Malformed
    /\ UNCHANGED <<where, known, retried, reply, made>>

\* The client has its answer.
Answer ==
    /\ pc = "done"
    /\ op' = "ListPipelines" /\ filter' = "all" /\ pc' = "idle"
    /\ retried' = 0 /\ answer' = None
    /\ reply' = "nothing" /\ made' = 0
    /\ UNCHANGED <<where, known>>

\* GetGitProviderSettings, from the cache or from Kubernetes.  There, anybody
\* may have created, changed or deleted the GitServer and its secret since.
GetSettings ==
    /\ pc = "settings"
    /\ settings' \in IF settings # None THEN {settings} ELSE {"undecodable", "good"}
    /\ pc' = "dispatch"
    /\ UNCHANGED <<where, raw, cache, stale, op, filter, retried, answer, reply, made>>

\* Its errors are passed on as they are, and not cached.
NoSettings(said) ==
    /\ pc = "settings" /\ settings = None
    /\ reply' = said
    /\ Refused("other")
    /\ UNCHANGED <<where, known, op, filter, retried, made>>

\* The provider is not one of ours, or cannot do it: jobs and traces are GitLab's
\* capability, and only GitLab triggers.
Ours      == provider \in {"gitlab", "github", "bitbucket"}
Supported == provider = "gitlab" \/ (Ours /\ op = "ListPipelines")

Unsupported ==
    /\ pc = "dispatch" /\ ~Supported
    /\ Refused(IF Ours /\ op = "TriggerPipeline" THEN "other" ELSE "ErrBadRequest")
    /\ UNCHANGED <<where, known, op, filter, retried, reply, made>>

\* The answer is in a cache: of a list, or of those of PipelineTraces.
Cached ==
    /\ pc = "dispatch" /\ Supported
    /\ op # "TriggerPipeline"
    /\ op = "ListPipelines" => cache[filter] # None
    /\ Answered("200")
    /\ UNCHANGED <<where, known, op, filter, retried, reply, made>>

\* It is not, or is to be read anew before it expires.
Dispatch ==
    /\ pc = "dispatch" /\ Supported
    /\ pc' = "call"
    /\ UNCHANGED <<where, known, op, filter, retried, answer, reply, made>>

\* GitHub and Bitbucket want an owner and a repository, and no list of anything
\* else is in the cache; before that, Bitbucket wants a token that is a user and
\* a password.
Undecodable == provider = "bitbucket" /\ settings = "undecodable"

Rejected ==
    /\ pc \in {"dispatch", "call"} /\ Supported
    /\ provider \in {"github", "bitbucket"}
    /\ \/ Undecodable /\ Refused("other")
       \/ pc = "dispatch" /\ ~Undecodable /\ Refused("ErrBadRequest")
    /\ UNCHANGED <<where, known, op, filter, retried, reply, made>>

\* The provider lists the pipelines, and the list is cached.
ListPipelines ==
    /\ pc = "call" /\ op = "ListPipelines" /\ ~Undecodable
    /\ reply' = IF NoneSkipped(filter) THEN "nothing" ELSE "200"
    /\ cache' = [cache EXCEPT ![filter] = Listing(filter)]
    /\ stale' = [stale EXCEPT ![filter] = {}]
    /\ Answered("200")
    /\ UNCHANGED <<where, settings, raw, op, filter, retried, made>>

\* GitLab creates a pipeline, one of those we look at or another; the lists in
\* the cache do not have it.
Create ==
    /\ made' = made + 1
    /\ \/ \E p \in Pipelines :
             /\ raw[p] = None
             /\ raw' = [raw EXCEPT ![p] = "created"]
             /\ stale' = [f \in Filters |-> stale[f] \cup {p}]
       \/ UNCHANGED <<raw, stale>>

Triggering == pc = "call" /\ op = "TriggerPipeline"

TriggerPipeline ==
    /\ Triggering
    /\ Create
    /\ reply' = "200"
    /\ Answered("201")
    /\ UNCHANGED <<where, settings, cache, op, filter, retried>>

\* Mutant of AfterLoss: the request is made again.
AsksAgain == UNCHANGED <<pc, answer>>

\* Nobody asks again after no answer.
AfterLoss == Refused("other")

\* GitLab creates a pipeline, but its answer is lost.
TriggerLost ==
    /\ Triggering
    /\ Create
    /\ reply' = "nothing"
    /\ AfterLoss
    /\ UNCHANGED <<where, settings, cache, op, filter, retried>>

\* GitLab, or something before it, answers with a server error, whether or not
\* the pipeline was created, and GitLab's client does ask again.
TriggerRetried ==
    /\ Triggering
    /\ retried < MaxRetries
    /\ Create \/ UNCHANGED <<raw, stale, made>>
    /\ retried' = retried + 1
    /\ reply' = "500"
    /\ UNCHANGED <<where, settings, cache, op, filter, pc, answer>>

\* The jobs or the trace are read, and go on in PipelineTraces.
ReadJobs ==
    /\ pc = "call" /\ op \in {"ListPipelineJobs", "GetPipelineJobTrace"}
    /\ reply' = "200"
    /\ Answered("200")
    /\ UNCHANGED <<where, known, op, filter, retried, made>>

\* The provider fails; nothing is cached.
CallFails(failure) ==
    /\ pc = "call"
    /\ ~Undecodable /\ ~NoneSkipped(filter)
    /\ reply' = failure
    /\ Refused(ErrorOf(failure))
    /\ UNCHANGED <<where, known, op, filter, retried, made>>

Next ==
    \/ \E p \in Pipelines, status \in RawStatuses : Progress(p, status)
    \/ DropSettings
    \/ \E f \in Filters : DropList(f) \/ Refresh(f)
    \/ \E o \in Operations, f \in Filters : Request(o, f)
    \/ Answer
    \/ GetSettings
    \/ \E said \in {"missing", "no token", "nothing"} : NoSettings(said)
    \/ Unsupported
    \/ Cached
    \/ Dispatch
    \/ Rejected
    \/ ListPipelines
    \/ TriggerPipeline
    \/ TriggerLost
    \/ TriggerRetried
    \/ ReadJobs
    \/ \E failure \in Failures : CallFails(failure)

Spec == Init /\ [][Next]_vars

-----------------------------------------------------------------------------
(* Properties.                                                             *)

\* Every variable keeps its type; what a client sees are our seven statuses.
TypeOK ==
    /\ provider \in {"gitlab", "github", "bitbucket", "another"}
    /\ wanted \in Statuses \cup {"unknown"}
    /\ settings \in {None, "undecodable", "good"}
    /\ raw \in [Pipelines -> RawStatuses \cup {None}]
    /\ cache \in [Filters -> [Pipelines -> Statuses \cup {None}] \cup {None}]
    /\ stale \in [Filters -> SUBSET Pipelines]
    /\ op \in Operations /\ filter \in Filters
    /\ pc \in {"idle", "settings", "dispatch", "call", "done"}
    /\ retried \in 0..MaxRetries /\ made \in Nat
    /\ answer \in Codes \cup {None}
    /\ reply \in Failures \cup {"200", "missing", "no token"}

\* Statuses that a provider has several names for, of which it can be asked for
\* one only, so that the list of that status is not all of them.
Approximated ==
    CASE provider = "gitlab"    -> {"pending", "manual"}
      [] provider = "github"    -> {"pending", "success", "failed", "cancelled"}
      [] provider = "bitbucket" -> {"pending", "failed", "cancelled", "manual"}

\* The two directions of the translation fit together: a pipeline that has not
\* moved on since the unfiltered list and the list of a status were read is in
\* the second only if the first shows it with that status, and, but for the
\* approximations, also if.
ListsAgree ==
    wanted \in Statuses /\ cache["all"] # None /\ cache[wanted] # None
        => \A p \in Pipelines \ (stale["all"] \cup stale[wanted]) :
               /\ cache[wanted][p] = None \/ cache["all"][p] = wanted
               /\ cache["all"][p] = wanted /\ wanted \notin Approximated
                      => cache[wanted][p] = wanted

\* What the client is told is what happened: that something is missing, or that its
\* credentials are bad, if the provider said so last, and only if it did (GitHub and
\* Bitbucket may say forbidden for other reasons) or the git server is missing, which
\* the description of the API has a 404 for and the code a 500 (DocumentedCodes of
\* ResourceRequests); that the request was bad only if nobody was asked; and a failure
\* is never a list or a new pipeline.
CodeTells ==
    /\ pc = "done" /\ reply = "404" => answer = "404"
    /\ answer = "404" => reply \in {"404", "missing"}
    /\ pc = "done" /\ reply = "401" => answer = "401"
    /\ answer = "401" => reply \in {"401", "403"}
    /\ answer = "400" => reply = "nothing"
    /\ answer = "200" => reply \in {"200", "nothing"}
    /\ answer = "201" => reply = "200"

\* A request to trigger makes a pipeline if the client is told so, and one more
\* at most for each time that GitLab answered with a server error: when its
\* answer is lost, the client cannot know, but nobody asks again behind its back.
TriggersOnce ==
    /\ answer = "201" => made >= 1
    /\ made <= retried + 1
    /\ answer \in {"401", "404"} => made <= retried
    /\ answer \in {"200", "400"} => made = 0
=============================================================================
