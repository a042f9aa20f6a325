# TLA+ models of GitFusion

GitFusion is a REST service in front of GitHub, GitLab and Bitbucket. It keeps no data of its own: what it
has is caches, and what it does is read listings and logs of a provider, with a token that it looks up in
Kubernetes. What is hard about it is what several requests do to the same caches at the same time, what a
listing does while its pages are being read, what happens to those who wait for somebody else's request
when that one fails, and what three providers' different languages become on the way to a client. These modules
model that, TLC checks it on small instances, and TLAPS proves the safety properties for any number of
jobs, keys, servers and requests, and for listings and pages of any size.

Contents: [the system](#the-system) · [plan](#plan) · [modules](#modules) · [runs](#runs) ·
[proofs](#proofs) · [what the code gets wrong](#what-the-code-does-that-its-texts-do-not-say) ·
[not modelled](#not-modelled)

## The system

A request passes through the generated router (`internal/api/server_gen.go`), a handler
(`internal/api/*_handler.go`), a service (`internal/services/<x>/<x>_service.go`), which gets the settings of
the git server, and a multi-provider service (`<x>_provider.go`), which looks into a cache and on a miss calls
the provider (`internal/services/{github,gitlab,bitbucket}`). All of it runs on the goroutine of the request,
except the shared and background fetches of the caches.

| Component | State | Operations | Interacts with | Hard because | Correct means |
|---|---|---|---|---|---|
| Job traces and jobs (`services/pipelines/pipelines_provider.go`, `cache/terminal_aware_cache.go`, `pipeline_job_trace_cache.go`, `pipeline_jobs_cache.go`) | done and live tier, `terminalJobs` markers, jobs cache, singleflight group | `GetJobTrace`, `ListPipelineJobs`, `markTerminalJobs`, tier `Get`/`Set`/`Invalidate` | GitLab, cache manager, settings | four stores and two kinds of flight, none under a lock that spans two of them; the job goes on while its log is read | tiers exclude each other; reads do not go back; one fetch per job; marked only when ended, and before anybody is told; an answer for everybody |
| Cached lists (`cache/*.go`, `services/*/*_provider.go`) | five sturdyc caches with early refreshes | `GetOrFetch` | providers, settings, cache manager | entries are refreshed behind the answer's back by closures over old settings | rotated tokens die out; invalidation is not undone; an answer for everybody |
| Git server settings (`services/krci/gitserver.go`) | cache of settings by git server, 60 s | `GetGitProviderSettings`, `GetGitProviderSettingsList` | Kubernetes | holds the token; errors are not cached; one bad server spoils the list | a rotated token is used no longer than the cache keeps it |
| Cache manager (`cache/manager.go`, `api/cache_handler.go`) | none, refers to seven caches | `InvalidateCache` | all caches | scans, then deletes key by key, while others store | what was there before is gone |
| Listings read to the end (`pkg/github`, `pkg/bitbucket`, `pkg/xiter`, `gitlab.Scan2`) | loop: page, collected items | one turn per page | providers | the listing changes between two pages | nothing lost or doubled but by such a change; the loop ends |
| Pages of pull requests (`services/github/github.go`, `api/pagination.go`) | loop: skip, collected, page of GitHub, pages queried | `ListPullRequests` | GitHub | the client's pages and GitHub's have different sizes and different contents; totals are estimates | pages tile; the total never hides that there is more |
| Pipelines and triggers (GitLab, GitHub workflow runs, Bitbucket) | cached lists | `ListPipelines`, `TriggerPipeline` | providers, settings | status vocabularies differ; triggering is not idempotent | the filter asked for agrees with the statuses returned |
| Repositories, branches, pull requests, organizations (`services/*`, the three providers) | the list caches, by key | `GetRepository`, `ListRepositories`, `ListBranches`, `ListPullRequests`, `ListUserOrganizations` | providers, settings | keys are joined from what clients send; states and errors differ by provider and by operation | an answer is the answer to the request; states and codes tell the truth |
| Organizations (`services/organizations`, `github.go`) | cache above; warm-up goroutines; errgroup | warm-up at start, `ListUserOrganizations` | settings list, providers | two concurrent reads into one result; one bad git server stops the warm-up; a warm-up has no deadline | all or nothing |
| Handlers and errors (`api/*_handler.go`, `errors`) | none | error to HTTP status | all | wrapped and foreign errors; each handler knows other ones | a code says what happened |
| Server (`cmd/gitfusion-api/main.go`, `api/server.go`) | server context, grace period, signal channel | start, signals, shutdown | all | three goroutines end the process in an order nobody fixes; the grace period is shorter than a request's time limit | a clean exit leaves no request unanswered; a shutdown that is in time is not ended by force before the last is; a signal ends the process |
| Generated code and models (`api/server_gen.go`, `models`) | none | binding of parameters, codes of answers | handlers | | |
| Helpers, Helm chart | none | | | | |

The hazards, each at its line and with the properties that would catch it, are listed under `hazards` in
`PROJECT.json`.

## Plan

In this order, the part of the system with the most shared state first.

1. **`TraceReads`** – abstract specification: what somebody who reads traces may rely on. *Done.*
2. **`PipelineTraces`** – the trace service step by step; refines `TraceReads`. *Done, with proofs:*
   `PipelineTracesProofs` (invariants and refinement).
3. **`ProviderPages`**, **`Filtering`**, **`PageScan`** – reading a listing that changes. *Done, with proofs:*
   `PageScanProofs`, from `ListingLemmas`.
4. **`PullRequestPages`** – GitHub's post-filter loop. *Done, with proofs:* `PullRequestPagesProofs`, from
   `ListingLemmas`.
5. **`CachedReads`** – abstract specification: what somebody who reads a cached list may rely on; **`ListReads`** –
   list caches over the settings cache, which refine it. *Done, with proofs:* `ListReadsProofs` (invariants and
   refinement).
6. **`PipelineRequests`** – a request about pipelines from the handler to each of the three providers and back:
   status filters against the statuses shown, failures against HTTP statuses, triggering. *Done, with proofs:*
   `PipelineRequestsProofs`.
7. **`Organizations`** – errgroup of `ListUserOrganizations`, their cache, and the warm-up over the list of all
   settings. *Done.*
8. **`Server`** – the process, composed with `Organizations`: start, signals, the grace period, requests in
   flight, exit. *Done, with proofs of both:* `ServerProofs`.
9. **`ResourceRequests`** – every other request, from the router to the providers and back: the keys of the
   caches as sequences of characters, states, failures against HTTP statuses, the unsupported endpoint.
   *Done, with proofs:* `ResourceRequestsProofs`.

Left: what the answers of successive requests for the same list have to do with each other. A background refresh
that is slower than a synchronous one can put an older list over a newer one, so they may go back; no property says
how far.

## Modules

| Module | What it is |
|---|---|
| `TraceReads` | A caller asks for a job's trace and is answered with a failure, or with a snapshot no older than what was known when it asked. |
| `PipelineTraces` | Callers (`GetJobTrace`), listers (`ListPipelineJobs`) and an invalidator (`InvalidateCache("pipelines")`) over the stores they share. |
| `MCPipelineTraces` | Values of its constants, and the symmetry of callers and listers. |
| `PipelineTracesProofs` | Theorems about it, and that it implements `TraceReads`. |
| `ProviderPages` | One page of a provider's listing (external). |
| `Filtering` | The items of a listing that are in a set, and a listing sorted. |
| `ListingLemmas` | What these three return, for any sequence. |
| `PageScan`, `MCPageScan` | The page loops. |
| `PageScanProofs` | Theorems about them. |
| `PullRequestPages`, `MCPullRequestPages` | GitHub's pull requests, page by page. |
| `PullRequestPagesProofs` | Theorems about them. |
| `CachedReads` | A client asks for a list and is answered with a failure, or with a version no older than a clearing promised. |
| `ListReads` | A cached list over the cached settings. |
| `ListReadsProofs` | Theorems about it, and that it implements `CachedReads`. |
| `PipelineRequests` | Requests about pipelines, from handler to provider and back. |
| `PipelineRequestsProofs` | Theorems about it. |
| `ResourceRequests`, `MCResourceRequests` | The other requests, from router to provider and back. |
| `ResourceRequestsProofs` | Theorems about it. |
| `Organizations` | The organizations of each git server: reading them, their cache, the warm-up. |
| `Server`, `MCServer` | The process, from start to exit; it extends `Organizations`. |
| `ServerProofs` | Theorems about both. |

### PipelineTraces

A trace only grows, so a snapshot of it is the number of bytes read: `Snapshot` is `io.ReadAll` over a
`LimitReader` of one byte more than `maxTraceBytes`, and a truncated trace is the snapshot of that length.
`doneTier` and `liveTier` are the caches inside `TerminalAwareCache`, `marker` is `terminalJobs`, `jobsCache`
the list of jobs, `traceGroup` singleflight's map from key to call.

| Code (`GetJobTrace`) | `pc` / action |
|---|---|
| `m.traceCache.Get(key)`: done tier, then live tier | `getDone`, `getLive` / `GetDone`, `GetLive` |
| `traceGroup.Do`: lead or wait | `do` / `Do` |
| second `Get` in the flight | `recheckDone`, `recheckLive` / `RecheckDone`, `RecheckLive` |
| `jobsProvider.GetJobTrace` | `fetch` / `Fetch`, `FetchFails` |
| `terminalJobs.Get` | `classify` / `Classify` |
| `traceCache.Set` | `store` / `Store` |
| the flight returns to leader and waiters | `finish` / `Finish` |

Each access to a store is a step of its own, because each takes and releases that store's lock. A lister
misses (`ListMiss`), fetches or waits (`ListDo`), reads the jobs (`ListFetch`), marks (`markTerminalJobs`, one
job per step), and stores (`ListStore`). The invalidator scans and deletes key by key: jobs, done, live, in
the order of the code. `DropDone`, `DropLive`, `DropMarker` and `DropJobs` are expiry and eviction, possible
at any time. A job starts, logs and ends for good: `pipeline_jobs_cache.go:11-13` says traces "key on an
immutable job ID", and a retried job has a new one.

### PageScan

`listing` is the provider's listing; others create and delete items between two turns of the loop
(`Create`, `Delete`), and `FetchPage` is one turn, cut from the listing as it is then. The loops differ in
`NextPage` (GitHub and GitLab go where the answer says, Bitbucket one on from where it was), `Wanted` (GitHub's
repositories are filtered by name here), `Capped` and `Arranged` (the jobs of a pipeline). `NextPage` also
holds GitLab's `ListRepositories`, which asks for page 1 every time. Bitbucket's workspaces are read with one
request and no loop (`bitbucket.go:163`), so those after the first page are missing from the answer; they are in
`Organizations`. `Only` and `Sorted` of `Filtering` are the loops that filter and `sort.SliceStable`, as functions
of the number of items taken so far. The library's `SelectSeq` and `SortSeq` do the same (`FilteringAssumption` of
`MCPageScan`, over all sequences of up to four items), but take an operator as their parameter, with which nothing
can be proved here.

### PullRequestPages

`opts` is the clamped request, `ListDirect` the listing GitHub can filter, `QueryPage` one turn of
`listPullRequestsWithPostFilter` with its three exits (filled, exhausted, go on) and `GiveUp` the cap.
`Int64` wraps around at `MaxInt`, which is
assumed to have room for a repository and one page more. `Change` is somebody who closes, merges or reopens a pull request between
two pages; `before` and `arrived` remember what the properties compare with.

### ListReads

A request is `settings` → (`unresolved` → `resolving`) → `list` → (`missed` → `waiting`) → `done`. The first
half is `GetGitProviderSettings`, the second the `GetOrFetch` of any list cache. An entry ages from `new` to
`refresh` (a reader starts a background refresh) to `old` (a reader waits for a new list); sturdyc's times are
abstracted to these ages, since the properties do not depend on them. A fetch carries the token of the settings
its closure holds. `need` records, when a request comes, what it may count on.

`Reads` maps it to `CachedReads`: `done` is answered, all between is open; a clearing is at work while `scanned` is
there, has what `clearing` saw when it began, and what `cleared` holds is promised. So `ScanKeys` is where a clearing
begins and `Invalidated` where it ends, promising for the keys that nobody was reading when it began; `Delete`,
everything that happens to entries and settings, and every read is a stutter.

### PipelineRequests

One request at a time: the handler (`Request`), the settings (`GetSettings`, `NoSettings`), the dispatch to a
provider (`Unsupported`, `Cached`, `Dispatch`), what the provider's code wants before it calls (`Rejected`), the
call (`ListPipelines`, `TriggerPipeline`, `ReadJobs`, `CallFails`) and the code of the answer (`CodeOf`, the four
`...ErrResponse`). `raw` is the status of each pipeline at the provider, in its own words; `cache` the list of
each filter as it was when it was read. The tables are those of the code, entry by entry. A pipeline that has
come to an end at GitHub or Bitbucket is named by its conclusion, which is what the code looks at then; "unknown"
stands for what the code does not list. What Kubernetes holds may change at any time, so it is a choice at each
read. Triggering makes pipelines at GitLab: its answer may be lost (`TriggerLost`), and go-gitlab's client, which
`newGitlabClient` leaves at its defaults, repeats a request that was answered with a server error
(`TriggerRetried`), whether or not the pipeline was created. A git server that is missing is answered 500 here, where
`oapi.yaml` says 404: `CodeTells` allows for either, and [`DocumentedCodes`](#what-the-code-does-that-its-texts-do-not-say)
of `ResourceRequests` says which it should be. `reply`, `stale` and `made` remember what the
properties compare with.

### ResourceRequests

One request at a time again: the router (`Request`, which refuses what it cannot bind), the settings
(`GetSettings`, `NoSettings`), the cache or the provider (`Unsupported`, `Cached`, `Dispatch`), Bitbucket's token
(`Rejected`), GitHub's question whether the owner is an organization (`ReadOrganization`), the call (`Succeeds`,
`Fails`) and the answer (`CodeOf`, the `errResponse` of each handler). `InvalidateCache` is the request that
clears a cache. A request about pipelines is here until it has its settings or does not (`GoesOn`), so that what is
said of a missing git server is said of it, too; the rest of its way is in `PipelineRequests`.

Names and states are sequences of characters, of which only the separator of keys and the four words of a state
(`Words`, `Word`) matter: nobody checks a state against its enum, so that it can be anything (`States`). `KeyOf` joins
them as each service does: `strings.Join` of owner and filter, of owner, repository and filter, or of owner,
repository, state and page. Two requests can have the same key, since nothing escapes the separator. What there is
at a provider has none in its name, and whoever asks for that gets what was read for this very request
(`OwnAnswer`); whoever asks for what there is not can be answered with another's list
([`DocumentedCodes`](#what-the-code-does-that-its-texts-do-not-say)). An entry remembers the request it was read for
(`source`), what it shows, and whether the pull request has moved on since (`fresh`). `raw` is the state of the one
pull request, in its provider's words.

### Organizations and Server

| Code | Action |
|---|---|
| `ListUserOrganizations` of GitHub: `eg.Go` twice, `eg.Wait` | `Begun`; `ReadUser`, `ReadPage`, `ReadFails`; `FetchDone` |
| `OrganizationsService.ListUserOrganizations`, then `GetOrFetch` | `Request`, `GetSettings`, `Get`, `Fetch`, `Unsupported` |
| the goroutine of `NewMultiProviderOrganizationsService` | `ListServers`, `ReadSecret`, `SecretMissing`, `Spawn` |
| one goroutine for each git server | `Get`, `Fetch` and so on, with the git server as its name |
| `GetConfigOrDie`, `initk8sClient`, `BuildHandler` | `StartFails`, `Build` |
| `signal.Notify`, `ListenAndServe` and any error of it but `ErrServerClosed` | `Notify`, `Listen`, `ListenFails` |
| the goroutine that waits for a signal | `TakeSignal`, `Shutdown`, `Drained`, `Stop` |
| the one that watches `shutdownCtx`, and `Shutdown` when it returns the error of that | `ShutdownTimesOut` |
| any other error of `Shutdown`, as of closing the listener | `ShutdownFails` |
| `main` from `ErrServerClosed` to its end | `ServerClosed`, `Return` |
| the environment | `Signal`, `Deadline`, `Serve`, `Drop` |

An organizations list is what it is made of: the user (at GitHub) and so many pages. What ages and what is
rotated is in `ListReads`. Signals may come at any moment: before `signal.Notify` they kill, and a second one waits
in the channel, which nobody reads again. `Return` needs `shut = "stopped"`, the `<-serverCtx.Done()` at the end
of `main`, since `ListenAndServe` returns as soon as `Shutdown` is called, not when it is done. `log.Fatal` can come
at any time while the server listens (`ListenFails`), and after `Shutdown` has waited for all requests
(`ShutdownFails`): it closes the listeners first, but returns the error of that last. `ForcedForCause` says what
remains true of a forced exit.

## Runs

| Run | Instance | Shows |
|---|---|---|
| `traces_tiers` | 1 job, 2 callers, 1 lister, 1 invalidation; log up to 3 bytes, 1 cacheable, 2 readable | `TypeOK`, `OneTier`, `ReadsNeverGoBack`, `OneFetchPerJob`, `FinishedOnly`, `ListedIsMarked`, `InvalidateClears` |
| `traces_reads` | 1 job, 2 callers, 1 lister, fair | `ReadsSpec`: the service implements `TraceReads`; `RequestAnswered` |
| `traces_done_final` | 1 job, 1 caller, 1 lister | violated: `DoneTierIsFinal` |
| `scan_pages` | 5 kinds of scan, pages of 2, up to 5 items, cap 3, fair | `TypeOK`, `NothingMissed`, `NothingTwice`, `Exact`, `ScanEnds` |
| `scan_gitlab_repositories` | GitLab's `ListRepositories`, fair | violated: `ScanEnds` |
| `pulls_pages` | up to 5 pull requests, client pages of 1 to 3, GitHub's of 2, cap of 2 pages, a `MaxInt` of 127 and a page beyond it | `TypeOK`, `WindowExact`, `TotalTellsMore`, `OnceEach` |
| `lists_reads` | 1 key, 2 requests, 1 change of the list or 1 rotation, fair | `TypeOK`, `QuietInvalidation`, `RotatedTokenGoes`; `ReadsSpec`: the caches implement `CachedReads`; `Answered` |
| `lists_inflight` | 1 key, 1 request | violated: `Invalidation` |
| `requests_pipelines` | 1 pipeline, 1 retry, all providers, filters and statuses | `TypeOK`, `ListsAgree`, `CodeTells`, `TriggersOnce` |
| `resources` | 3 pairs of owner and name, of which two make the same key; 6 states, the four words, another and one with a separator, with which the plain pair makes the key that the others make with "open"; 2 entries; all providers, operations and failures | `TypeOK`, `OwnAnswer`, `StatesAgree`, `CodeTells` |
| `resources_documented` | the same with 1 entry | violated: `DocumentedCodes` |
| `server` | 1 client, a git server of GitHub and one of a provider there is not, 2 pages, fair | `TypeOK`, `WholeLists`, `CleanExit`, `ForcedForCause`, `ShutdownEnds`, `Answered` |

**Why the bounds are enough.** Two callers are needed for a leader and one that joins, misses late or asks
anew; more add only further waiters, who all do the same. A log of three bytes passes every size class: empty,
cacheable, readable but not cacheable, truncated. Jobs share no state but the jobs cache and the invalidator's
scan, and list keys none but the settings, so that one of each is enough for what is said of each; the theorems
are about any number of jobs, keys, listers and invalidations. In `lists_reads` the list changes once or the token
does (`MaxChanges`): no guard of the code looks at a version or a token, so a change is there only to tell what
was read before it from what was read after it, and no property compares a version with a token. A pipeline or
a pull request is listed for itself, so that one is enough for what filters do, and one retry for what triggering
does. Three pages of two items have a first, a middle and a last page, and a cap of three falls inside the second
page. Five pull requests against a cap of four put one out of reach; client pages of one, two and three against
GitHub's two fall before, on and after its boundaries. Two entries (`MaxCached`) are needed for one that shadows
another. In `server` the warm-up of GitHub's git server and the client's request for it are the two that share a
fetch, and the other git server is the one that can spoil the warm-up; two pages let a read fail between them. A
third git server or a second client does what these do. The bounds (`MaxLog`, `MaxInvs`,
`MaxItems`, `MaxKept`, `MaxPulls`, `MaxVersion`, `MaxToken`, `MaxChanges`, `MaxRetries`, `MaxCached`, `Pages`) limit
what the environment does, or the size of the caches, never the control of the code; `MaxKept` cuts the memory of a
result only while a scan goes on, which in the passing runs is never reached. Deadlock is not checked where the
system stops: bounds used up, requests answered, the process ended.

**Fairness.** Weak fairness of every step a goroutine takes by itself, as the Go scheduler runs it, and of the
end of a fetch, one way or the other: a trace request has a time limit of 30 s (`gitlab.go:32`), every request a
context of 60 s (`main.go:40`), which all clients take but go-bitbucket, of which `ListReads` has to assume that
it is answered. In `Server` only the reads that a request began, or that the failure of the other goroutine
cancels, are fair (`Bounded`): the warm-up's context has no deadline, so that whoever waits for a read of its may
wait for as long as it takes, and `Answered` says so. `Deadline` is fair, since the grace period does pass.
Nothing is assumed of clients, of the jobs, of signals, of expiry, of invalidations and of background refreshes,
which have no deadline. `ScanEnds` assumes that a page that is asked for is answered, and, by `MaxItems`, that
others stop adding items: a listing that grows a page per turn is read for ever. All theorems are of `Spec`, without
fairness.

## Proofs

All for any values of the constants that the named assumptions of the modules allow: that sizes are natural
numbers, that markers such as "none" and "failed" are different from what they are not, that names are sequences of
characters, that an int has room for a repository's pull requests and that the model remembers a result as long as
any listing (`MaxItems <= MaxKept`). TLC evaluates these assumptions on every run.

`PipelineTracesProofs`:

- `TypeCorrect`: `TypeOK`.
- `ReadInvariant`: the inductive invariant behind `OneTier`, `OneFetchPerJob` and `ReadsNeverGoBack`. None of the
  three is inductive. Tiers exclude each other only because the leader of a flight has looked at both after
  it became leader and nobody else can store for that job: so `ReadInv` says that only the leader of
  `traceGroup[j]` is between `recheckDone` and `finish` for `j`; that past `recheckDone` it finds the done tier
  empty, and past `recheckLive` both; that what a tier or a leader holds is the newest snapshot that has been read;
  and that this is no less than what had been read when anybody now asking arrived.
- `TiersExclude`, `FetchesCollapse`, `ReadsAreMonotonic` follow from it.
- `MarkInvariant`: a lister that marks holds statuses that were read, so ended jobs in its list have ended;
  and has marked those it has passed. `OnlyFinished` and `MarkedBeforeListed` follow.
- `InvalidationClears`: by an invariant on the phases of the invalidator: what is still from before the
  invalidation is among the keys still to be scanned or deleted.

- `Implementation`, `Spec => ReadsSpec`: a request maps to a request, each of the steps that answer (a hit in either
  tier, the end of a flight, for all who waited at once) to the answers it gives, a fetch to the snapshot that
  becomes known, and every other step to a stutter.

`ListingLemmas` holds what both modules about listings need of their operators, for any sequence: that what is kept of
two sequences one after the other is what is kept of each (`OnlyConcat`), that nothing wanted gets lost
(`OnlyMembers`) and the order stays (`OnlyInOrder`), that sorting loses nothing and of a descending sequence makes its
reverse, and what one page more adds to the pages read before it. Induction over sequences is put as induction over a
set of lengths (`NatSetInduction`, `SeqSetInduction`), which follows from the library's theorem that a set of natural
numbers has a least element; the library's own rules of induction take the formula as an operator, which the provers
cannot instantiate. For the same reason `Only` and `Sorted` are recursive functions: the lemmas `KeptExists` and
`SortedExists` show that there are such functions before anything is said of them.

`PageScanProofs`, for any of the scans, listings, pages of any size, any cap and keyword:

- `TypeCorrect`: the page asked for is bounded only because a page after it had an item when it was named, so that the
  invariant (`Typed`) bounds it by the items ever created.
- `MissesNothing` (`NothingMissed`) from `Missing`: each wanted item of the start is collected, or is in the listing
  behind the pages that were read, where an insertion can move it only further back. A loop that asks for page 1
  again has them all still to come.
- `ReadsExactly` (`Exact`) from `Exactly`, that the result is what is wanted of the first `(page - 1) * PageSize`
  items, and `Sized`, that the cap has not been passed, without which the jobs cut off would be other ones.
- `TwiceNothing` (`NothingTwice`) from `Older`: while nothing is created, the listing and the result are in descending
  order and what is still to come is older than all that was collected, wherever something is deleted. Its hypothesis
  leaves out GitLab's `ListRepositories`, of which it is false: see
  [below](#what-the-code-does-that-its-texts-do-not-say). The other three hold of it as well.

`PullRequestPagesProofs`, for any repository, pages of any sizes, any cap, and any sequence of changes:

- `TypeCorrect`, with it that an answer has no more than `perPage` pull requests and that no more pages of GitHub are
  read than the cap.
- `WindowIsExact` (`WindowExact`) and `TotalIsTelling` (`TotalTellsMore`). The invariant behind them is `Reading`: with
  `First(n)` what matches of the first `n` pull requests GitHub lists, `skip` is what `First` of the pages read leaves
  of `(page - 1) * perPage`, and the result is `First` without so many (`Rest`). One page more of GitHub keeps it,
  wherever the client's page begins and ends in it (`RestJoined`, `WindowFilled`, `WindowLast`). Both need that the
  products do not wrap around, which is `Countable` in the properties and, for the total of a filled page, which may be
  up to a page larger, the assumption `MaxPulls + MaxPerPage <= MaxInt`; of an int of 64 bits no repository comes near it.
- `ComesOnce` (`OnceEach`) from `Ordered`: what is still to be read is behind what was collected, as long as nothing
  is closed or merged. Reopening only takes away from GitHub's list of closed ones, which moves the others forward:
  one may be missed then, but none comes twice.

`PipelineRequestsProofs`, from `MaxRetries \in Nat` and that the marker for "none" is no status and no code:

- `ListInvariant`: a cached list shows each pipeline that has not moved on since as a list read now would, and
  nobody is called for what it cannot do. `TypeCorrect` and `TablesAgree` follow, with the lemmas `AskedIsShown`
  and `ShownIsAsked`: the two directions of each provider's translation are inverse to each other, but for the
  statuses in `Approximated`, of which a provider can be asked for one name only.
- `AnswerInvariant`: what has been said to a request and made by it at each point of its way. `AnswersTell` and
  `TriggersCounted` are part of it.

`ListReadsProofs`, for any number of keys, requests, changes and rotations:

- `TypeCorrect`: with it, that whoever waits waits for a fetch that is at work.
- `ClearedStaysCleared` (`QuietInvalidation`). Not inductive: an answer may come from an entry, from a fetch or from
  a refresh, begun by others before or after the clearing. So `Promised` says that nothing cached or already read
  for a key is older than what the last finished clearing promises, `Promising` the same of the one at work, for the
  keys it has passed, and `Counted` that no request counts on more than was promised when it came.
- `OldTokensGo` (`RotatedTokenGoes`), an action property, from `Rotated`: no token below the floor is in the
  cached settings or being read, and the floor of a request is no higher than the token it was given.
- `Implementation` (`ReadsSpec`), step by step, from the invariant of `ClearedStaysCleared` and `NotAhead`: nothing
  cached or read is newer than the provider's list. The first says that an answer is no older than promised, the
  second that the provider has had it; that nobody is answered twice, or without having asked, is in the steps.

`ServerProofs`, for any git servers, clients and pages: `Invariance` and from it `TypeCorrect`, `OrganizationsWhole`,
`NobodyCutOff` and `ForcedWithCause`. The inductive invariant adds to these `Counted`, how many pages a read has while
it goes on and when it is over, which makes a list that did not fail a whole one; `Unserved`: nobody is served, and
no shutdown begins, before `main` is there; and `Quiet`: from `Drained` on no request is at work and none comes, so
that `Return`, which waits for `Stop`, finds none.

`ResourceRequestsProofs`, for any owners, names and states, of any characters, and any size of the caches: `Invariance` and from it `TypeCorrect`,
`AnswersOwn`, `StatesRight` and `AnswersTell`. The invariant says of every entry that it was made by a request that
a provider can answer, whose owner and repository hence have no separator in them, and shows what that request asked
for (`Kept`). That this is enough for a second request with the same key, when what it asks for exists as well, is the
lemma `SameKey`, about sequences: when two joined keys are equal and neither first part has a separator in it, the
first parts are equal, and so is what is behind them (`FirstParts`, once for the owner and once for the repository). The
state, which is behind both, may have separators. `AskedRight` is about the tables of states of the three providers.

Only model-checked: liveness (`RequestAnswered`, `ScanEnds`, `ShutdownEnds` and both `Answered`), which TLAPS cannot
do. Every invariant and action property of the runs that pass is proved.

## What the code does that its texts do not say

- **A part of a log is kept as finished** (`traces_done_final`). `GetJobTrace` looks at the marker after the
  fetch; a job that ends and is listed in between has its partial trace stored in the done tier, for 12 hours.
- **GitLab's `ListRepositories` does not hand the page on** (`scan_gitlab_repositories`), so a group with more
  than one page of projects is read for ever, until the context ends.
- **An invalidation can be undone** (`lists_inflight`) by a fetch or refresh that was at work when it began.
- **Codes other than those described** (`resources_documented`). The run ends at the first of four, but each part of
  `DocumentedCodes` is violated on its own:
  - `InvalidateCache` of an endpoint that is not supported is a 500 where the comment and `oapi.yaml` say 400, since
    the handler compares the error with a text it never has.
  - A git server that does not exist is a 400 (`GetRepository`) or a 500 (`ListPullRequests` and all four operations on
    pipelines) where `oapi.yaml` says 404: nobody makes the error of Kubernetes an `ErrGitServerNotFound`.
  - A repository that does not exist, with a separator in its name, is answered 200 with another repository's pull
    requests where `oapi.yaml` says 404, when those were asked for in a "state" that makes the keys equal: repository
    `b` in state `c|open`, then repository `b|c` in state `open`.
  - Credentials that a provider does not accept are a 400 for repositories, organizations and branches where it says
    401.
- **A warm-up that is not for all.** One git server without a token keeps all others from being warmed up, since the
  list of all settings fails with it (`SecretMissing`), though `organizations_provider.go:44` says "for all configured
  providers". No property says this; the entries are then read when they are asked for.

Others that no text of the repository denies: a page number is not bounded, so that its product with `perPage`
can overflow (`Countable` excludes it from `WindowExact`); a trigger that GitLab answered with a server error
is repeated (`TriggersOnce` counts it); GitHub's private repositories are missing from an answer, and from the
cache, when the organization could not be read for any reason at all (`CodeTells`); Bitbucket's workspaces after the
first page are missing (`WholeLists`); an error of the listener cuts off whoever is being served (`ListenFails`); a
client can wait for the warm-up longer than its own 60 s (`Answered` of `Server`).

## Not modelled

Routing, encoding, logging, metrics and the Helm chart, which have no state of their own; of the generated code
only that it refuses what it cannot bind, and the codes it can answer with. The tables of sources of pipelines
(push, schedule and so on), which have no inverse to agree with, and all fields of an element but its state or
status. Times: expiry and ageing can happen whenever an entry is there, which includes every order that real times
allow. sturdyc, singleflight and go-gitlab are modelled as the code relies on them: misses of a key share a fetch, a follower
gets the leader's result or error, a refresh stores whatever it read. At most one background refresh of a key is
at work at a time; a second one, which a refresh slower than its retry delay allows, adds nothing that the first
cannot do. In `PipelineTraces` the jobs of a pipeline are read at once (the pages are in `PageScan`), all jobs
belong to one project of one git server, and there is one invalidator at a time. Keys are model values but in
`ResourceRequests`, which is about what makes two of them the same. What is left to do is listed under
[plan](#plan).
