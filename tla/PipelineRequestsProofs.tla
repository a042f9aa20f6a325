----------------------- MODULE PipelineRequestsProofs -----------------------
(***************************************************************************)
(* Theorems about PipelineRequests, for any set of pipelines and any number *)
(* of times that GitLab's client asks again.                               *)
(***************************************************************************)
EXTENDS PipelineRequests, TLAPS

-----------------------------------------------------------------------------
(* The tables.                                                             *)

\* Whatever a provider of ours calls a status, it becomes one of our seven.
LEMMA NormalizedType ==
    ASSUME Ours, NEW status
    PROVE  Normalized(status) \in Statuses
  <1>1. CASE provider = "gitlab"
    BY <1>1 DEF Normalized, normalizeGitLabPipelineStatus, Statuses
  <1>2. CASE provider = "github"
    BY <1>2 DEF Normalized, normalizeGitHubWorkflowRunStatus, Statuses
  <1>3. CASE provider = "bitbucket"
    BY <1>3 DEF Normalized, normalizeBitbucketPipelineStatus, Statuses
  <1> QED
    BY <1>1, <1>2, <1>3 DEF Ours

LEMMA ListingType ==
    ASSUME Ours, NEW f
    PROVE  Listing(f) \in [Pipelines -> Statuses \cup {None}]
  BY NormalizedType DEF Listing

\* What a provider is asked for exists, and is shown as what was asked for.
LEMMA AskedIsShown ==
    ASSUME Ours, NEW f \in DOMAIN StatusQuery
    PROVE  StatusQuery[f] \in RawStatuses /\ Normalized(StatusQuery[f]) = f
  <1>1. CASE provider = "gitlab"
    <2>1. /\ StatusQuery = mapPipelineStatusToGitLab
          /\ \A s : Normalized(s) = normalizeGitLabPipelineStatus(s)
      BY <1>1 DEF StatusQuery, Normalized
    <2>2. f \in Statuses
      BY <2>1 DEF mapPipelineStatusToGitLab, Statuses
    <2>3. StatusQuery[f] \in RawStatuses
      BY <1>1, <2>1, <2>2 DEF mapPipelineStatusToGitLab, Statuses, RawStatuses
    <2>4. normalizeGitLabPipelineStatus(mapPipelineStatusToGitLab[f]) = f
      BY <2>2 DEF normalizeGitLabPipelineStatus, mapPipelineStatusToGitLab, Statuses
    <2> QED
      BY <2>1, <2>3, <2>4
  <1>2. CASE provider = "github"
    <2>1. /\ StatusQuery = mapPipelineStatusToGitHub
          /\ \A s : Normalized(s) = normalizeGitHubWorkflowRunStatus(s)
      BY <1>2 DEF StatusQuery, Normalized
    <2>2. f \in Statuses
      BY <2>1 DEF mapPipelineStatusToGitHub, Statuses
    <2>3. /\ mapPipelineStatusToGitHub["pending"] = "queued"
          /\ mapPipelineStatusToGitHub["running"] = "in_progress"
          /\ mapPipelineStatusToGitHub["success"] = "success"
          /\ mapPipelineStatusToGitHub["failed"] = "failure"
          /\ mapPipelineStatusToGitHub["cancelled"] = "cancelled"
          /\ mapPipelineStatusToGitHub["skipped"] = "skipped"
          /\ mapPipelineStatusToGitHub["manual"] = "action_required"
      BY DEF mapPipelineStatusToGitHub
    <2>4. {"queued", "in_progress", "success", "failure",
           "cancelled", "skipped", "action_required"} \subseteq RawStatuses
      BY <1>2 DEF RawStatuses
    <2>5. /\ normalizeGitHubWorkflowRunStatus("queued") = "pending"
          /\ normalizeGitHubWorkflowRunStatus("in_progress") = "running"
          /\ normalizeGitHubWorkflowRunStatus("success") = "success"
          /\ normalizeGitHubWorkflowRunStatus("failure") = "failed"
          /\ normalizeGitHubWorkflowRunStatus("cancelled") = "cancelled"
          /\ normalizeGitHubWorkflowRunStatus("skipped") = "skipped"
          /\ normalizeGitHubWorkflowRunStatus("action_required") = "manual"
      BY DEF normalizeGitHubWorkflowRunStatus
    <2> QED
      BY <2>1, <2>2, <2>3, <2>4, <2>5 DEF Statuses
  <1>3. CASE provider = "bitbucket"
    <2>1. /\ StatusQuery = mapPipelineStatusToBitbucketQuery
          /\ \A s : Normalized(s) = normalizeBitbucketPipelineStatus(s)
      BY <1>3 DEF StatusQuery, Normalized
    <2>2. f \in Statuses \ {"skipped"}
      BY <2>1 DEF mapPipelineStatusToBitbucketQuery, Statuses
    <2>3. /\ mapPipelineStatusToBitbucketQuery["pending"] = "PENDING"
          /\ mapPipelineStatusToBitbucketQuery["running"] = "IN_PROGRESS"
          /\ mapPipelineStatusToBitbucketQuery["success"] = "SUCCESSFUL"
          /\ mapPipelineStatusToBitbucketQuery["failed"] = "FAILED"
          /\ mapPipelineStatusToBitbucketQuery["cancelled"] = "STOPPED"
          /\ mapPipelineStatusToBitbucketQuery["manual"] = "HALTED"
      BY DEF mapPipelineStatusToBitbucketQuery
    <2>4. {"PENDING", "IN_PROGRESS", "SUCCESSFUL", "FAILED",
           "STOPPED", "HALTED"} \subseteq RawStatuses
      BY <1>3 DEF RawStatuses
    <2>5. /\ normalizeBitbucketPipelineStatus("PENDING") = "pending"
          /\ normalizeBitbucketPipelineStatus("IN_PROGRESS") = "running"
          /\ normalizeBitbucketPipelineStatus("SUCCESSFUL") = "success"
          /\ normalizeBitbucketPipelineStatus("FAILED") = "failed"
          /\ normalizeBitbucketPipelineStatus("STOPPED") = "cancelled"
          /\ normalizeBitbucketPipelineStatus("HALTED") = "manual"
      BY DEF normalizeBitbucketPipelineStatus
    <2> QED
      BY <2>1, <2>2, <2>3, <2>4, <2>5 DEF Statuses
  <1> QED
    BY <1>1, <1>2, <1>3 DEF Ours

\* What is shown with a status that is not approximated is what was asked for.
LEMMA ShownIsAsked ==
    ASSUME Ours, NEW status \in RawStatuses, Normalized(status) \notin Approximated
    PROVE  /\ Normalized(status) \in DOMAIN StatusQuery
           /\ status = StatusQuery[Normalized(status)]
           /\ ~NoneSkipped(Normalized(status))
  <1>1. CASE provider = "gitlab"
    BY <1>1 DEF Normalized, normalizeGitLabPipelineStatus, StatusQuery, NoneSkipped,
                mapPipelineStatusToGitLab, RawStatuses, Approximated
  <1>2. CASE provider = "github"
    BY <1>2 DEF Normalized, normalizeGitHubWorkflowRunStatus, StatusQuery, NoneSkipped,
                mapPipelineStatusToGitHub, RawStatuses, Approximated
  <1>3. CASE provider = "bitbucket"
    BY <1>3 DEF Normalized, normalizeBitbucketPipelineStatus, StatusQuery, NoneSkipped,
                mapPipelineStatusToBitbucketQuery, RawStatuses, Approximated
  <1> QED
    BY <1>1, <1>2, <1>3 DEF Ours
-----------------------------------------------------------------------------
(* Types and lists.                                                        *)

\* A provider is called only for what it can do, and has lists in the cache only
\* if it is one of ours.
OnlyOurs ==
    /\ pc = "call" => Supported
    /\ \A f \in Filters : cache[f] # None => Ours

\* A cached list shows each pipeline that has not moved on since as a list read
\* now would.
ListsFresh ==
    \A f \in Filters : cache[f] # None
        => \A p \in Pipelines \ stale[f] : cache[f][p] = Listing(f)[p]

\* The inductive invariant of the lists.
ListInv == TypeOK /\ OnlyOurs /\ ListsFresh

LEMMA ListInvInit == Init => ListInv
  BY RequestsAssumption DEF Init, ListInv, TypeOK, OnlyOurs, ListsFresh, Operations, Filters,
                            Failures

\* A listing depends on nothing but the provider and its pipelines.
LEMMA ListingStable ==
    ASSUME UNCHANGED provider, NEW f, NEW p \in Pipelines, raw'[p] = raw[p]
    PROVE  Listing(f)'[p] = Listing(f)[p]
  <1>1. RawStatuses' = RawStatuses
    BY DEF RawStatuses
  <1>2. StatusQuery' = StatusQuery
    BY DEF StatusQuery, mapPipelineStatusToGitLab, mapPipelineStatusToGitHub,
           mapPipelineStatusToBitbucketQuery
  <1>3. Normalized(raw[p])' = Normalized(raw[p])
    BY DEF Normalized
  <1>4. NoneSkipped(f)' <=> NoneSkipped(f)
    BY DEF NoneSkipped
  <1> QED
    BY <1>1, <1>2, <1>3, <1>4 DEF Listing

\* Steps that touch neither the provider's pipelines nor a list.
LEMMA ListInvSame ==
    ASSUME ListInv, TypeOK', UNCHANGED <<where, raw, cache, stale>>, pc' = "call" => Supported'
    PROVE  ListInv'
  <1>1. OnlyOurs'
    BY DEF ListInv, OnlyOurs, where, Ours, Supported, Filters
  <1>2. \A f : \A p \in Pipelines : Listing(f)'[p] = Listing(f)[p]
    BY ListingStable DEF where
  <1>3. ListsFresh'
    BY <1>2 DEF ListInv, ListsFresh, where, Filters
  <1> QED
    BY <1>1, <1>3 DEF ListInv

\* A list that is read now.
LEMMA ListInvRead ==
    ASSUME ListInv, TypeOK', Ours, NEW f \in Filters, UNCHANGED <<where, raw>>,
           cache' = [cache EXCEPT ![f] = Listing(f)], stale' = [stale EXCEPT ![f] = {}],
           pc' = "call" => Supported'
    PROVE  ListInv'
  <1>1. OnlyOurs'
    BY DEF ListInv, OnlyOurs, where, Ours, Supported, Filters
  <1>2. \A g : \A p \in Pipelines : Listing(g)'[p] = Listing(g)[p]
    BY ListingStable DEF where
  <1>3. ASSUME NEW g \in Filters, cache'[g] # None, NEW p \in Pipelines \ stale'[g]
        PROVE  cache'[g][p] = Listing(g)[p]
    <2>1. CASE g = f
      BY <1>3, <2>1 DEF ListInv, TypeOK
    <2>2. CASE g # f
      BY <1>3, <2>2 DEF ListInv, TypeOK, ListsFresh
    <2> QED
      BY <2>1, <2>2
  <1>4. ListsFresh'
    BY <1>2, <1>3 DEF ListsFresh, where, Filters
  <1> QED
    BY <1>1, <1>4 DEF ListInv

\* A pipeline that moves on, or is created, is stale in every list.
LEMMA ListInvMoved ==
    ASSUME ListInv, TypeOK', NEW q \in Pipelines, NEW status, UNCHANGED <<where, cache>>,
           raw' = [raw EXCEPT ![q] = status], stale' = [f \in Filters |-> stale[f] \cup {q}],
           pc' = "call" => Supported'
    PROVE  ListInv'
  <1>1. OnlyOurs'
    BY DEF ListInv, OnlyOurs, where, Ours, Supported, Filters
  <1>2. \A f : \A p \in Pipelines \ {q} : Listing(f)'[p] = Listing(f)[p]
    BY ListingStable DEF where, ListInv, TypeOK
  <1>3. ListsFresh'
    BY <1>2 DEF ListInv, ListsFresh, where, Filters
  <1> QED
    BY <1>1, <1>3 DEF ListInv
\* The handler knows the code of every error.
LEMMA CodeType == ASSUME NEW error PROVE CodeOf(error) \in Codes
  BY DEF CodeOf, Codes

\* Every step keeps the types.
LEMMA TypeStep == ListInv /\ [Next]_vars => TypeOK'
  <1> SUFFICES ASSUME ListInv, [Next]_vars
               PROVE  TypeOK'
    OBVIOUS
  <1> USE RequestsAssumption DEF TypeOK, where, known, request
  <1>1. TypeOK /\ OnlyOurs
    BY DEF ListInv
  <1>2. provider' = provider /\ wanted' = wanted /\ Filters' = Filters /\ RawStatuses' = RawStatuses
    BY DEF Next, vars, Progress, DropSettings, DropList, Refresh, Request, Malformed, Answer, GetSettings,
           NoSettings, Unsupported, Cached, Dispatch, Rejected, ListPipelines, TriggerPipeline,
           TriggerLost, TriggerRetried, ReadJobs, CallFails, RawStatuses, Filters
  <1>3. ASSUME NEW p \in Pipelines, NEW status \in RawStatuses, Progress(p, status)
        PROVE  TypeOK'
    BY <1>1, <1>2, <1>3 DEF Progress
  <1>4. CASE DropSettings
    BY <1>1, <1>2, <1>4 DEF DropSettings
  <1>5. ASSUME NEW f \in Filters, DropList(f)
        PROVE  TypeOK'
    BY <1>1, <1>2, <1>5 DEF DropList
  <1>6. ASSUME NEW f \in Filters, Refresh(f)
        PROVE  TypeOK'
    BY <1>1, <1>2, <1>6, ListingType DEF Refresh, OnlyOurs
  <1>7. ASSUME NEW o \in Operations, NEW f \in Filters, Request(o, f)
        PROVE  TypeOK'
    BY <1>1, <1>2, <1>7, CodeType DEF Request, Malformed, Refused, Answered
  <1>8. CASE Answer
    <2>1. 0 \in 0..MaxRetries
      OBVIOUS
    <2> QED
      BY <1>1, <1>2, <1>8, <2>1 DEF Answer, Operations, Filters, Failures
  <1>9. CASE GetSettings
    BY <1>1, <1>2, <1>9 DEF GetSettings
  <1>10. ASSUME NEW said \in {"missing", "no token", "nothing"}, NoSettings(said)
         PROVE  TypeOK'
    BY <1>1, <1>2, <1>10, CodeType DEF NoSettings, Refused, Answered, Failures
  <1>11. CASE Unsupported
    BY <1>1, <1>2, <1>11, CodeType DEF Unsupported, Refused, Answered
  <1>12. CASE Cached
    BY <1>1, <1>2, <1>12 DEF Cached, Answered, Codes
  <1>13. CASE Dispatch
    BY <1>1, <1>2, <1>13 DEF Dispatch
  <1>14. CASE Rejected
    BY <1>1, <1>2, <1>14, CodeType DEF Rejected, Refused, Answered
  <1>15. CASE ListPipelines
    <2>1. Ours /\ filter \in Filters
      BY <1>1, <1>15 DEF ListPipelines, OnlyOurs, Supported, Ours
    <2>2. Listing(filter) \in [Pipelines -> Statuses \cup {None}]
      BY <2>1, ListingType
    <2> QED
      BY <1>1, <1>2, <1>15, <2>1, <2>2 DEF ListPipelines, Answered, Codes, Failures
  <1>16. ASSUME Triggering, Create
         PROVE  /\ raw' \in [Pipelines -> RawStatuses' \cup {None}]
                /\ stale' \in [Filters' -> SUBSET Pipelines]
                /\ made' \in Nat
    <2>1. "created" \in RawStatuses
      BY <1>1, <1>16 DEF OnlyOurs, Triggering, Supported, RawStatuses
    <2>2. made \in Nat /\ stale \in [Filters -> SUBSET Pipelines]
      BY <1>1
    <2>3. raw' \in [Pipelines -> RawStatuses' \cup {None}]
      BY <1>1, <1>2, <1>16, <2>1 DEF Create
    <2>4. stale' \in [Filters' -> SUBSET Pipelines]
      BY <1>2, <1>16, <2>2 DEF Create
    <2>5. made' = made + 1
      BY <1>16 DEF Create
    <2> QED
      BY <2>2, <2>3, <2>4, <2>5
  <1>17. CASE TriggerPipeline
    BY <1>1, <1>2, <1>16, <1>17 DEF TriggerPipeline, Answered, Codes
  <1>18. CASE TriggerLost
    BY <1>1, <1>2, <1>16, <1>18, CodeType DEF TriggerLost, AfterLoss, Refused, Answered, Failures
  <1>22. CASE TriggerRetried
    <2>1. /\ raw' \in [Pipelines -> RawStatuses' \cup {None}]
          /\ stale' \in [Filters' -> SUBSET Pipelines]
          /\ made' \in Nat
      BY <1>1, <1>2, <1>16, <1>22 DEF TriggerRetried
    <2>2. retried \in 0..MaxRetries /\ retried < MaxRetries /\ retried' = retried + 1
      BY <1>1, <1>22 DEF TriggerRetried
    <2>3. retried' \in 0..MaxRetries
      BY <2>2
    <2> QED
      BY <1>1, <1>2, <1>22, <2>1, <2>3 DEF TriggerRetried, Failures
  <1>19. CASE ReadJobs
    BY <1>1, <1>2, <1>19 DEF ReadJobs, Answered, Codes
  <1>20. ASSUME NEW failure \in Failures, CallFails(failure)
         PROVE  TypeOK'
    BY <1>1, <1>2, <1>20, CodeType DEF CallFails, Refused, Answered
  <1>21. CASE UNCHANGED vars
    BY <1>1, <1>2, <1>21 DEF vars
  <1> QED
    BY <1>3, <1>4, <1>5, <1>6, <1>7, <1>8, <1>9, <1>10, <1>11, <1>12, <1>13, <1>14, <1>15,
       <1>17, <1>18, <1>19, <1>20, <1>21, <1>22 DEF Next

\* Every step keeps the lists.
LEMMA ListInvStep == ListInv /\ [Next]_vars => ListInv'
  <1> SUFFICES ASSUME ListInv, [Next]_vars
               PROVE  ListInv'
    OBVIOUS
  <1> USE DEF where, known, request
  <1>1. TypeOK'
    BY TypeStep
  <1>2. OnlyOurs /\ stale \in [Filters -> SUBSET Pipelines]
    BY DEF ListInv, TypeOK
  <1>3. ASSUME UNCHANGED <<where, raw, cache, stale>>, pc' = "call" => Supported'
        PROVE  ListInv'
    BY <1>1, <1>3, ListInvSame
  <1>4. ASSUME NEW p \in Pipelines, NEW status \in RawStatuses, Progress(p, status)
        PROVE  ListInv'
    BY <1>1, <1>2, <1>4, ListInvMoved DEF Progress, OnlyOurs, Supported, Ours
  <1>5. ASSUME NEW f \in Filters, DropList(f)
        PROVE  ListInv'
    <2>1. OnlyOurs'
      BY <1>2, <1>5 DEF DropList, OnlyOurs, Ours, Supported, Filters, ListInv, TypeOK
    <2>2. \A g : \A p \in Pipelines : Listing(g)'[p] = Listing(g)[p]
      BY <1>5, ListingStable DEF DropList
    <2>3. ASSUME NEW g \in Filters, cache'[g] # None, NEW p \in Pipelines \ stale'[g]
          PROVE  cache'[g][p] = Listing(g)[p]
      <3>1. g # f
        BY <1>5, <2>3 DEF DropList, ListInv, TypeOK
      <3> QED
        BY <1>5, <2>3, <3>1 DEF DropList, ListInv, TypeOK, ListsFresh
    <2>4. ListsFresh'
      BY <1>5, <2>2, <2>3 DEF DropList, ListsFresh, Filters
    <2> QED
      BY <1>1, <2>1, <2>4 DEF ListInv
  <1>6. ASSUME NEW f \in Filters, Refresh(f)
        PROVE  ListInv'
    BY <1>1, <1>2, <1>6, ListInvRead DEF Refresh, OnlyOurs, Supported, Ours
  <1>7. CASE ListPipelines
    BY <1>1, <1>2, <1>7, ListInvRead DEF ListPipelines, Answered, OnlyOurs, Supported, Ours,
                                         ListInv, TypeOK
  <1>8. ASSUME pc = "call", UNCHANGED <<where, cache, op>>, Create
        PROVE  ListInv'
    <2>1. pc' = "call" => Supported'
      BY <1>2, <1>8 DEF OnlyOurs, Supported, Ours
    <2>2. CASE UNCHANGED <<raw, stale>>
      BY <1>3, <1>8, <2>1, <2>2
    <2>3. ASSUME NEW p \in Pipelines, raw' = [raw EXCEPT ![p] = "created"],
                 stale' = [f \in Filters |-> stale[f] \cup {p}]
          PROVE  ListInv'
      BY <1>1, <1>8, <2>1, <2>3, ListInvMoved
    <2> QED
      BY <1>8, <2>2, <2>3 DEF Create
  <1>9. CASE TriggerPipeline \/ TriggerLost
    BY <1>8, <1>9 DEF TriggerPipeline, TriggerLost, Triggering
  <1>10. CASE TriggerRetried
    <2>1. pc' = "call" => Supported'
      BY <1>2, <1>10 DEF OnlyOurs, TriggerRetried, Triggering, Supported, Ours
    <2>2. CASE Create
      BY <1>8, <1>10, <2>2 DEF TriggerRetried, Triggering
    <2>3. CASE UNCHANGED <<raw, stale, made>>
      BY <1>3, <1>10, <2>1, <2>3 DEF TriggerRetried
    <2> QED
      BY <1>10, <2>2, <2>3 DEF TriggerRetried
  <1>11. CASE DropSettings \/ Answer \/ GetSettings \/ UNCHANGED vars
    BY <1>2, <1>3, <1>11 DEF DropSettings, Answer, GetSettings, vars, OnlyOurs, Supported, Ours
  <1>12. CASE Unsupported \/ Cached \/ Rejected \/ ReadJobs
    BY <1>3, <1>12 DEF Unsupported, Cached, Rejected, ReadJobs, Refused, Answered
  <1>13. CASE Dispatch
    BY <1>3, <1>13 DEF Dispatch, Supported, Ours
  <1>14. ASSUME NEW o \in Operations, NEW f \in Filters, Request(o, f)
         PROVE  ListInv'
    BY <1>3, <1>14 DEF Request, Malformed, Refused, Answered
  <1>15. ASSUME NEW said, NoSettings(said)
         PROVE  ListInv'
    BY <1>3, <1>15 DEF NoSettings, Refused, Answered
  <1>16. ASSUME NEW failure, CallFails(failure)
         PROVE  ListInv'
    BY <1>3, <1>16 DEF CallFails, Refused, Answered
  <1> QED
    BY <1>4, <1>5, <1>6, <1>7, <1>9, <1>10, <1>11, <1>12, <1>13, <1>14, <1>15, <1>16 DEF Next

\* The invariant that the next two follow from: in the words of the code, that a
\* list is what its provider said when it was read.
THEOREM ListInvariant == Spec => []ListInv
  BY ListInvInit, ListInvStep, PTL DEF Spec

\* TypeOK: whatever the three providers say, clients are shown our statuses.
THEOREM TypeCorrect == Spec => []TypeOK
  <1>1. ListInv => TypeOK
    BY DEF ListInv
  <1> QED
    BY <1>1, ListInvariant, PTL

\* ListsAgree: what mapPipelineStatusTo... asks for is what normalize... shows.
THEOREM TablesAgree == Spec => []ListsAgree
  <1>1. ListInv => ListsAgree
    <2> SUFFICES ASSUME ListInv, wanted \in Statuses, cache["all"] # None, cache[wanted] # None,
                        NEW p \in Pipelines \ (stale["all"] \cup stale[wanted])
                 PROVE  /\ cache[wanted][p] = None \/ cache["all"][p] = wanted
                        /\ cache["all"][p] = wanted /\ wanted \notin Approximated
                               => cache[wanted][p] = wanted
      BY DEF ListsAgree
    <2>1. /\ Ours
          /\ cache["all"][p] = Listing("all")[p]
          /\ cache[wanted][p] = Listing(wanted)[p]
      BY DEF ListInv, OnlyOurs, ListsFresh, Filters
    <2>2. "all" \notin DOMAIN StatusQuery /\ ~NoneSkipped("all")
      BY <2>1 DEF StatusQuery, mapPipelineStatusToGitLab, mapPipelineStatusToGitHub,
                  mapPipelineStatusToBitbucketQuery, NoneSkipped, Ours
    <2>3. Listing("all")[p] = IF raw[p] \in RawStatuses THEN Normalized(raw[p]) ELSE None
      BY <2>2 DEF Listing
    <2>4. wanted \in DOMAIN StatusQuery \/ NoneSkipped(wanted)
      BY <2>1 DEF StatusQuery, mapPipelineStatusToGitLab, mapPipelineStatusToGitHub,
                  mapPipelineStatusToBitbucketQuery, NoneSkipped, Ours, Statuses
    <2>5. Listing(wanted)[p] = IF /\ wanted \in DOMAIN StatusQuery
                                  /\ raw[p] = StatusQuery[wanted] /\ ~NoneSkipped(wanted)
                               THEN Normalized(raw[p]) ELSE None
      BY <2>4 DEF Listing
    <2>6. cache[wanted][p] = None \/ cache["all"][p] = wanted
      BY <2>1, <2>3, <2>5, AskedIsShown
    <2>7. ASSUME cache["all"][p] = wanted, wanted \notin Approximated
          PROVE  cache[wanted][p] = wanted
      <3>1. raw[p] \in RawStatuses /\ Normalized(raw[p]) = wanted
        BY <2>1, <2>3, <2>7, RequestsAssumption
      <3> QED
        BY <2>1, <2>5, <2>7, <3>1, ShownIsAsked
    <2> QED
      BY <2>6, <2>7
  <1> QED
    BY <1>1, ListInvariant, PTL
-----------------------------------------------------------------------------
(* Answers.                                                                *)

\* How far a request can have got: before the call nobody has answered and nothing
\* is made; while the provider is asked, only what was made before a server error.
Progressed ==
    /\ answer = None <=> pc # "done"
    /\ pc \in {"idle", "settings", "dispatch"} => reply = "nothing" /\ made = 0 /\ retried = 0
    /\ pc = "call" => reply \in {"nothing", "500"} /\ made <= retried
    /\ op # "TriggerPipeline" => made = 0

\* The inductive invariant of the answers.
AnswerInv == Progressed /\ CodeTells /\ TriggersOnce

\* What becomes of a failure of a provider.
LEMMA FailureCodes ==
    ASSUME NEW failure \in Failures
    PROVE  /\ CodeOf(ErrorOf(failure)) \in {"401", "404", "500"}
           /\ CodeOf(ErrorOf(failure)) = "404" <=> failure = "404"
           /\ failure = "401" => CodeOf(ErrorOf(failure)) = "401"
           /\ CodeOf(ErrorOf(failure)) = "401" => failure \in {"401", "403"}
  BY DEF CodeOf, ErrorOf, mapGitLabJobsError, classifyGitHubError, Failures

LEMMA ErrorCodes == CodeOf("other") = "500" /\ CodeOf("ErrBadRequest") = "400"
  BY DEF CodeOf

LEMMA AnswerInvInit == Init => AnswerInv
  <1> SUFFICES ASSUME Init PROVE AnswerInv
    OBVIOUS
  <1>1. Progressed
    BY DEF Init, Progressed
  <1>2. answer \notin Codes /\ made = 0 /\ retried = 0
    BY RequestsAssumption DEF Init
  <1>3. CodeTells /\ TriggersOnce
    BY <1>2 DEF Init, CodeTells, TriggersOnce, Codes
  <1> QED
    BY <1>1, <1>3 DEF AnswerInv

\* Every step keeps what is said of answers.
LEMMA AnswerInvStep == TypeOK /\ AnswerInv /\ [Next]_vars => AnswerInv'
  <1> SUFFICES ASSUME TypeOK, AnswerInv, [Next]_vars
               PROVE  AnswerInv'
    OBVIOUS
  <1> USE DEF known, request
  <1>1. Progressed /\ CodeTells /\ TriggersOnce
    BY DEF AnswerInv
  <1>2. None \notin Codes /\ retried \in Nat /\ made \in Nat
    <2>1. retried \in 0..MaxRetries /\ made \in Nat
      BY DEF TypeOK
    <2> QED
      BY <2>1, RequestsAssumption
  <1>3. ASSUME UNCHANGED request
        PROVE  AnswerInv'
    BY <1>1, <1>3 DEF AnswerInv, Progressed, CodeTells, TriggersOnce
  \* The request goes on, with nothing said or made.
  <1>4. ASSUME pc' \in {"idle", "settings", "dispatch", "call"}, answer' = None,
               reply' = "nothing", made' = 0, retried' = 0
        PROVE  AnswerInv'
    BY <1>2, <1>4 DEF AnswerInv, Progressed, CodeTells, TriggersOnce, Codes
  \* It is refused before the provider is called.
  <1>5. ASSUME pc \in {"idle", "settings", "dispatch"}, UNCHANGED <<retried, made>>,
               NEW error \in {"other", "ErrBadRequest"}, Refused(error),
               \/ reply' = reply
               \/ error = "other" /\ reply' \in {"missing", "no token", "nothing"}
        PROVE  AnswerInv'
    BY <1>1, <1>2, <1>5, ErrorCodes
       DEF AnswerInv, Progressed, CodeTells, TriggersOnce, Refused, Answered, Codes
  <1>6. CASE Answer
    BY <1>4, <1>6 DEF Answer
  <1>7. ASSUME NEW o, NEW f, Request(o, f)
        PROVE  AnswerInv'
    <2>1. pc = "idle" /\ UNCHANGED <<retried, reply, made>>
      BY <1>7 DEF Request, Malformed
    <2>2. CASE pc' = "settings" /\ UNCHANGED answer
      BY <1>1, <1>4, <2>1, <2>2 DEF Progressed
    <2>3. CASE Refused("ErrBadRequest")
      BY <1>5, <2>1, <2>3
    <2> QED
      BY <1>7, <2>2, <2>3 DEF Request, Malformed
  <1>8. CASE GetSettings \/ Dispatch
    BY <1>1, <1>4, <1>8 DEF GetSettings, Dispatch, Progressed
  <1>9. ASSUME NEW said \in {"missing", "no token", "nothing"}, NoSettings(said)
        PROVE  AnswerInv'
    BY <1>5, <1>9 DEF NoSettings
  <1>10. CASE Unsupported
    BY <1>5, <1>10 DEF Unsupported
  <1>11. CASE Rejected
    <2>1. CASE pc = "dispatch"
      BY <1>5, <1>11, <2>1 DEF Rejected
    <2>2. CASE pc = "call"
      <3>1. answer' = "500" /\ pc' = "done" /\ reply' \in {"nothing", "500"} /\ op' = op
            /\ made' = made /\ retried' = retried /\ made <= retried
        BY <1>1, <1>11, <2>2, ErrorCodes DEF Rejected, Refused, Answered, Progressed
      <3> QED
        BY <1>1, <1>2, <3>1 DEF AnswerInv, Progressed, CodeTells, TriggersOnce, Codes
    <2> QED
      BY <1>11, <2>1, <2>2 DEF Rejected
  <1>12. CASE Cached
    BY <1>1, <1>2, <1>12
       DEF Cached, Answered, AnswerInv, Progressed, CodeTells, TriggersOnce, Codes
  <1>13. CASE ListPipelines \/ ReadJobs
    <2>1. /\ pc = "call" /\ op' = op /\ op # "TriggerPipeline" /\ UNCHANGED <<retried, made>>
          /\ pc' = "done" /\ answer' = "200" /\ reply' \in {"200", "nothing"}
      BY <1>13 DEF ListPipelines, ReadJobs, Answered
    <2> QED
      BY <1>1, <1>2, <2>1 DEF AnswerInv, Progressed, CodeTells, TriggersOnce, Codes
  <1>14. ASSUME Triggering, Create
         PROVE  made' = made + 1 /\ made <= retried
    BY <1>1, <1>14 DEF Create, Triggering, Progressed
  <1>15. CASE TriggerPipeline
    <2>1. /\ made' = made + 1 /\ made <= retried /\ retried' = retried /\ op' = op
          /\ op = "TriggerPipeline" /\ pc' = "done" /\ answer' = "201" /\ reply' = "200"
      BY <1>14, <1>15 DEF TriggerPipeline, Triggering, Answered
    <2> QED
      BY <1>2, <2>1 DEF AnswerInv, Progressed, CodeTells, TriggersOnce, Codes
  <1>16. CASE TriggerLost
    <2>1. /\ made' = made + 1 /\ made <= retried /\ retried' = retried /\ op' = op
          /\ op = "TriggerPipeline" /\ pc' = "done" /\ answer' = "500" /\ reply' = "nothing"
      BY <1>14, <1>16, ErrorCodes DEF TriggerLost, Triggering, AfterLoss, Refused, Answered
    <2> QED
      BY <1>2, <2>1 DEF AnswerInv, Progressed, CodeTells, TriggersOnce, Codes
  <1>17. CASE TriggerRetried
    <2>1. /\ made' \in {made, made + 1} /\ made <= retried /\ retried' = retried + 1 /\ op' = op
          /\ op = "TriggerPipeline" /\ pc = "call" /\ pc' = pc /\ answer' = answer /\ reply' = "500"
      BY <1>1, <1>17 DEF TriggerRetried, Triggering, Create, Progressed
    <2> QED
      BY <1>1, <1>2, <2>1 DEF AnswerInv, Progressed, CodeTells, TriggersOnce, Codes
  <1>18. ASSUME NEW failure \in Failures, CallFails(failure)
         PROVE  AnswerInv'
    <2>1. /\ pc = "call" /\ pc' = "done" /\ op' = op /\ UNCHANGED <<retried, made>>
          /\ answer' = CodeOf(ErrorOf(failure)) /\ reply' = failure
      BY <1>18 DEF CallFails, Refused, Answered
    <2> QED
      BY <1>1, <1>2, <2>1, FailureCodes
         DEF AnswerInv, Progressed, CodeTells, TriggersOnce, Codes
  <1>19. ASSUME NEW p, NEW status, Progress(p, status)
         PROVE  AnswerInv'
    BY <1>3, <1>19 DEF Progress
  <1>20. ASSUME NEW f, DropList(f) \/ Refresh(f)
         PROVE  AnswerInv'
    BY <1>3, <1>20 DEF DropList, Refresh
  <1>21. CASE DropSettings \/ UNCHANGED vars
    BY <1>3, <1>21 DEF DropSettings, vars
  <1> QED
    BY <1>6, <1>7, <1>8, <1>9, <1>10, <1>11, <1>12, <1>13, <1>15, <1>16, <1>17, <1>18, <1>19,
       <1>20, <1>21 DEF Next

\* The invariant that the next two are part of: what a request has been told and
\* has made, at each point of its way.
THEOREM AnswerInvariant == Spec => []AnswerInv
  BY AnswerInvInit, AnswerInvStep, TypeCorrect, PTL DEF Spec

\* CodeTells: the client's code is what happened.
THEOREM AnswersTell == Spec => []CodeTells
  <1>1. AnswerInv => CodeTells
    BY DEF AnswerInv
  <1> QED
    BY <1>1, AnswerInvariant, PTL

\* TriggersOnce: no more pipelines than one, and one for each server error.
THEOREM TriggersCounted == Spec => []TriggersOnce
  <1>1. AnswerInv => TriggersOnce
    BY DEF AnswerInv
  <1> QED
    BY <1>1, AnswerInvariant, PTL
=============================================================================
