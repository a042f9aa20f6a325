-------------------------- MODULE ResourceRequests --------------------------
(***************************************************************************)
(* Requests about repositories, branches, pull requests and organizations, *)
(* and those that clear a cache: from the generated router through the     *)
(* handler, the settings and the cache to the three providers and back.    *)
(* What a request is kept under, what the state it asks for becomes in a   *)
(* provider's language, and what a failure becomes on its way to the       *)
(* client.                                                                 *)
(*                                                                         *)
(* There is one git server, whose name is the same in all keys and has no  *)
(* separator, and one pull request, which is listed or not for itself.     *)
(* Pages are in PullRequestPages; they are numbers, and the last parts of  *)
(* their keys.  Requests are followed one at a time: what several do to    *)
(* one cache is in ListReads.  Those about pipelines are followed until    *)
(* they have their settings, where PipelineRequests goes on.               *)
(***************************************************************************)
EXTENDS Sequences, FiniteSets, Naturals

CONSTANTS Characters, \* what the parameters of a request are made of
          Paths,      \* pairs of what clients send as owner and repoName
          States,     \* what they send as state
          MaxCached   \* bound: entries of all caches together

Bar        == <<"|">>   \* the separator of the parts of a key
Plain(s)   == \A i \in DOMAIN s : s[i] # "|"
Operations == {"GetRepository", "ListRepositories", "ListBranches", "ListPullRequests",
               "ListUserOrganizations"}
Endpoints  == {"repositories", "organizations", "branches", "pullrequests", "pipelines", "another", ""}

PipelineOperations == {"TriggerPipeline", "ListPipelines", "ListPipelineJobs",
                       "GetPipelineJobTrace"}

\* A parameter is a sequence of characters, the words of the enum of states among them;
\* nobody checks that a state is one of these.
Words == {"open", "closed", "merged", "all"}

ASSUME ResourcesAssumption ==
    /\ Paths \subseteq Seq(Characters) \X Seq(Characters)
    /\ States \subseteq Seq(Characters)
    /\ MaxCached \in Nat \ {0}

VARIABLES provider, \* spec.gitProvider of the git server
          raw,      \* the state of the pull request, as the provider has it
          cache,    \* the entries of the caches
          request,  \* what is asked: [op, owner, repo, state]
          pc,       \* "idle", "settings", "dispatch", "call", "list" or "done"
          token,    \* the token in the settings: "good", or one that Bitbucket cannot decode
          owned,    \* GitHub: the owner is an organization, as far as could be read
          code,     \* the code of the answer
          shown,    \* what a list in the answer shows
          said,     \* history: what Kubernetes or the provider said instead of a result
          source    \* history: the request the answer was read for

world  == <<provider, raw>>
way    == <<request, token, owned>>
result == <<code, shown, said, source>>
vars   == <<world, cache, pc, way, result>>

Sent     == States \cup {<<>>}
Requests == {[op |-> o, owner |-> path[1], repo |-> path[2], state |-> s] :
               o \in Operations, path \in Paths, s \in Sent}
Shows    == SUBSET {"open", "closed", "merged", "public", "private"}

\* Only pull requests are asked for by state.
Asks(o, path, s) == [op    |-> o,
                     owner |-> path[1],
                     repo  |-> path[2],
                     state |-> IF o = "ListPullRequests" THEN s ELSE <<>>]

\* The project and what else a request about pipelines has play no part here.
AsksForPipelines(o) == [op |-> o, owner |-> <<>>, repo |-> <<>>, state |-> <<>>]

-----------------------------------------------------------------------------
(* The keys of the caches.                                                 *)

\* Mutant of KeyOf: the state is left out of the key.
KeyWithoutState(r) == r.owner \o Bar \o r.repo

\* Repositories: owner and name filter; branches: owner, repository and a filter
\* nobody sets; pull requests: owner, repository, state and page; organizations: the
\* git server only.
KeyOf(r) ==
    CASE r.op = "ListRepositories"      -> r.owner \o Bar \o r.repo
      [] r.op = "ListBranches"          -> r.owner \o Bar \o r.repo \o Bar
      [] r.op = "ListPullRequests"      -> r.owner \o Bar \o (r.repo \o Bar \o r.state)
      [] r.op = "ListUserOrganizations" -> <<>>

\* The entry that answers a request, or none: each operation has its cache.
Found(r) == {e \in cache : e.source.op = r.op /\ KeyOf(e.source) = KeyOf(r)}

\* The cache that clearing an endpoint empties.
CacheOf ==
    [repositories |-> "ListRepositories", organizations |-> "ListUserOrganizations",
     branches |-> "ListBranches", pullrequests |-> "ListPullRequests", pipelines |-> "another"]

-----------------------------------------------------------------------------
(* The states of a pull request.                                           *)

RawStates ==
    [github    |-> {"open", "closed", "merged"},
     gitlab    |-> {"opened", "closed", "locked", "merged"},
     bitbucket |-> {"OPEN", "MERGED", "DECLINED", "SUPERSEDED"},
     another   |-> {"open"}]

\* Which word a state is, if any.
Word(state) == IF Len(state) = 1 THEN state[1] ELSE "none"

\* What is asked for is closed, and then picked by whether it was merged.
AskedOfGitHub(word) ==
    CASE word \in {"open", "closed", "merged"} -> {word}
      [] OTHER                                 -> RawStates.github

\* Mutant of mapPullRequestStateToGitLab: what is closed or merged is asked for at once.
ClosedOrMerged(word) ==
    CASE word \in {"closed", "merged"} -> {"closed", "merged"}
      [] word = "all"                  -> RawStates.gitlab
      [] OTHER                         -> {"opened"}

mapPullRequestStateToGitLab(word) ==
    CASE word \in {"closed", "merged"} -> {word}
      [] word = "all"                  -> RawStates.gitlab
      [] OTHER                         -> {"opened"}

AskedOfBitbucket(word) ==
    CASE word = "closed" -> {"DECLINED"}
      [] word = "merged" -> {"MERGED"}
      [] word = "all"    -> RawStates.bitbucket
      [] OTHER           -> {"OPEN"}

Asked(word) ==
    CASE provider = "github"    -> AskedOfGitHub(word)
      [] provider = "gitlab"    -> mapPullRequestStateToGitLab(word)
      [] provider = "bitbucket" -> AskedOfBitbucket(word)

\* convertGitHubPullRequest, normalizeGitLabMRState and convertBitbucketPRState.
Normalized ==
    CASE raw \in {"merged", "MERGED"}                   -> "merged"
      [] raw \in {"closed", "DECLINED", "SUPERSEDED"}   -> "closed"
      [] OTHER                                          -> "open"

-----------------------------------------------------------------------------
(* Failures.                                                               *)

\* What a provider answers instead: an HTTP status that is an error, something
\* that cannot be parsed, or nothing.
Failures == {"401", "403", "404", "500", "unparsable", "nothing"}

classifyGitHubError(failure) ==
    CASE failure = "404" -> "ErrNotFound"
      [] failure = "401" -> "ErrUnauthorized"
      [] OTHER           -> "other"

\* GitLab and Bitbucket: pull requests tell credentials apart, the other lists do not.
NotFoundOnly(failure) == IF failure = "404" THEN "ErrNotFound" ELSE "other"

CredentialsToo(failure) ==
    IF failure \in {"401", "403"} THEN "ErrUnauthorized" ELSE NotFoundOnly(failure)

\* Only Bitbucket's organizations have an error of their own.
OrganizationsError(failure) ==
    IF provider = "bitbucket" /\ failure \in {"401", "403"} THEN "ErrUnauthorized" ELSE "other"

ErrorOf(failure) ==
    CASE request.op = "ListPullRequests" /\ provider # "github" -> CredentialsToo(failure)
      [] request.op = "ListUserOrganizations"                    -> OrganizationsError(failure)
      [] provider = "github"                                     -> classifyGitHubError(failure)
      [] OTHER                                                   -> NotFoundOnly(failure)

\* Mutant of CodeOf: what is not found at the provider is a bad request everywhere.
CodeOfLists(error) ==
    CASE request.op = "ListPullRequests" /\ error = "ErrUnauthorized" -> "401"
      [] request.op = "ListPullRequests" /\ error # "ErrUnauthorized" -> "500"
      [] OTHER                                                        -> "400"

\* The errResponse of the handlers; those of the lists know one code.
CodeOf(error) ==
    CASE request.op \in {"GetRepository", "ListPullRequests"} /\ error = "ErrNotFound" -> "404"
      [] request.op = "ListPullRequests" /\ error = "ErrUnauthorized"                  -> "401"
      [] request.op = "ListPullRequests" /\ error = "other"                            -> "500"
      [] request.op \in PipelineOperations                                             -> "500"
      [] OTHER                                                                         -> "400"

Answered(c)    == code' = c /\ pc' = "done"
Refused(error) == Answered(CodeOf(error)) /\ UNCHANGED <<shown, source>>

-----------------------------------------------------------------------------
Nobody == [op |-> "GetRepository", owner |-> <<>>, repo |-> <<>>, state |-> <<>>]

Init ==
    /\ provider \in DOMAIN RawStates
    /\ raw \in RawStates[provider]
    /\ cache = {}
    /\ request = Nobody /\ pc = "idle" /\ token = "good" /\ owned = FALSE
    /\ code = "none" /\ shown = {} /\ said = "ok" /\ source = Nobody

-----------------------------------------------------------------------------
(* The environment.                                                        *)

\* Somebody merges, closes or reopens the pull request: lists read before are stale.
Progress(state) ==
    /\ raw' = state /\ state # raw
    /\ cache' = {[e EXCEPT !.fresh = FALSE] : e \in cache}
    /\ UNCHANGED <<provider, pc, way, result>>

\* An entry expires.
Drop(e) ==
    /\ cache' = cache \ {e}
    /\ UNCHANGED <<world, pc, way, result>>

-----------------------------------------------------------------------------
(* A request.                                                              *)

\* The router binds the parameters: a required one that is empty or given twice, or
\* a page that is no number, goes no further.
Request(r) ==
    /\ pc = "idle"
    /\ request' = r
    /\ \/ pc' = "settings" /\ UNCHANGED code
       \/ Answered("400")
    /\ UNCHANGED <<world, cache, token, owned, shown, said, source>>

\* The client has its answer.
Answer ==
    /\ pc = "done"
    /\ pc' = "idle" /\ request' = Nobody /\ token' = "good" /\ owned' = FALSE
    /\ code' = "none" /\ shown' = {} /\ said' = "ok" /\ source' = Nobody
    /\ UNCHANGED <<world, cache>>

\* GetGitProviderSettings.
GetSettings(t) ==
    /\ pc = "settings" /\ request.op \in Operations
    /\ token' = t
    /\ pc' = "dispatch"
    /\ UNCHANGED <<world, cache, request, owned, result>>

\* A request about pipelines leaves for PipelineRequests.
GoesOn ==
    /\ pc = "settings" /\ request.op \in PipelineOperations
    /\ pc' = "idle" /\ request' = Nobody
    /\ UNCHANGED <<world, cache, token, owned, result>>

\* There is no such git server, or no secret, or no token in it: the error is
\* passed on as it is.
NoSettings(why) ==
    /\ pc = "settings"
    /\ said' = why
    /\ Refused("other")
    /\ UNCHANGED <<world, cache, way>>

\* There is no provider of that name.
Unsupported ==
    /\ pc = "dispatch" /\ provider = "another"
    /\ Refused("other")
    /\ UNCHANGED <<world, cache, way, said>>

\* A list is in its cache.
Cached ==
    /\ pc = "dispatch" /\ provider # "another"
    /\ request.op # "GetRepository"
    /\ \E e \in Found(request) : shown' = e.shows /\ source' = e.source
    /\ Answered("200")
    /\ UNCHANGED <<world, cache, way, said>>

\* It is not, or is to be read anew before it expires.
Dispatch ==
    /\ pc = "dispatch" /\ provider # "another"
    /\ pc' = "call"
    /\ UNCHANGED <<world, cache, way, result>>

\* Bitbucket wants a user name and a password in the token, base64-encoded, with
\* just one colon.
Rejected ==
    /\ pc = "call" /\ provider = "bitbucket" /\ token = "undecodable"
    /\ Refused("other")
    /\ UNCHANGED <<world, cache, way, said>>

Connected == provider # "bitbucket" \/ token # "undecodable"

\* GitHub's listRepositories asks whether the owner is an organization.  Any error
\* is a no.
ReadOrganization(found) ==
    /\ pc = "call" /\ provider = "github" /\ request.op = "ListRepositories"
    /\ owned' = found
    /\ pc' = "list"
    /\ UNCHANGED <<world, cache, request, token, result>>

Called ==
    IF provider = "github" /\ request.op = "ListRepositories" THEN pc = "list"
                                                              ELSE pc = "call" /\ Connected

\* At a provider no owner and no repository has the separator in its name; what
\* repositories are filtered by may have it.
Exists(r) ==
    /\ Plain(r.owner)
    /\ r.op \in {"ListBranches", "ListPullRequests", "GetRepository"} => Plain(r.repo)

\* What the provider's list shows.  The owners are organizations: asked as a user,
\* GitHub tells of the public repositories of one.
Listing ==
    CASE request.op = "ListPullRequests" -> IF raw \in Asked(Word(request.state)) THEN {Normalized} ELSE {}
      [] request.op = "ListRepositories" -> IF provider = "github" /\ ~owned THEN {"public"}
                                            ELSE {"public", "private"}
      [] OTHER                           -> {}

\* Mutant of Stored: what is read anew is put beside what was there.
StoredBeside(e) ==
    \E kept \in SUBSET cache :
        /\ Cardinality(kept) < MaxCached
        /\ cache' = kept \cup {e}

\* A full cache evicts before it takes another entry.
Stored(e) ==
    \E kept \in SUBSET (cache \ Found(request)) :
        /\ Cardinality(kept) < MaxCached
        /\ cache' = kept \cup {e}

\* The provider has what is asked for, and a list is cached.
Succeeds ==
    /\ Called /\ (Exists(request) \/ request.op = "ListUserOrganizations")
    /\ shown' = Listing /\ source' = request
    /\ IF request.op = "GetRepository" THEN UNCHANGED cache
       ELSE Stored([source |-> request, shows |-> Listing, fresh |-> TRUE])
    /\ Answered("200")
    /\ UNCHANGED <<world, way, said>>

\* It says no, or nothing.  Nothing is cached.
Fails(failure) ==
    /\ Called
    /\ said' = failure
    /\ Refused(ErrorOf(failure))
    /\ UNCHANGED <<world, cache, way>>

\* CacheHandler.InvalidateCache, unless the router finds no endpoint to bind.  The
\* handler compares the error of an unsupported endpoint with a text it never is: the
\* error names the endpoint.
InvalidateCache(endpoint) ==
    /\ pc = "idle"
    /\ \/ /\ endpoint = ""
          /\ Answered("400") /\ UNCHANGED <<cache, said>>
       \/ /\ endpoint \in DOMAIN CacheOf
          /\ cache' = {e \in cache : e.source.op # CacheOf[endpoint]}
          /\ Answered("200") /\ UNCHANGED said
       \/ /\ endpoint \notin DOMAIN CacheOf \cup {""}
          /\ Answered("500") /\ said' = "no such endpoint" /\ UNCHANGED cache
    /\ UNCHANGED <<world, way, shown, source>>

Next ==
    \/ \E state \in RawStates[provider] : Progress(state)
    \/ \E e \in cache : Drop(e)
    \/ \E o \in Operations, path \in Paths, s \in States : Request(Asks(o, path, s))
    \/ \E o \in PipelineOperations : Request(AsksForPipelines(o))
    \/ GoesOn
    \/ \E t \in {"good", "undecodable"} : GetSettings(t)
    \/ \E why \in {"no git server", "no token"} : NoSettings(why)
    \/ Unsupported \/ Cached \/ Dispatch \/ Rejected
    \/ \E found \in BOOLEAN : ReadOrganization(found)
    \/ Succeeds
    \/ \E failure \in Failures : Fails(failure)
    \/ \E endpoint \in Endpoints : InvalidateCache(endpoint)
    \/ Answer

Spec == Init /\ [][Next]_vars

-----------------------------------------------------------------------------
(* Properties.                                                             *)

Entries == [source : Requests, shows : Shows, fresh : BOOLEAN]

\* Every variable keeps its type, and no two entries have the same key.
TypeOK ==
    /\ provider \in DOMAIN RawStates /\ raw \in RawStates[provider]
    /\ cache \subseteq Entries
    /\ request \in Requests \cup {Nobody} \cup {AsksForPipelines(o) : o \in PipelineOperations}
    /\ source \in Requests \cup {Nobody}
    /\ pc \in {"idle", "settings", "dispatch", "call", "list", "done"}
    /\ token \in {"good", "undecodable"} /\ owned \in BOOLEAN
    /\ code \in {"none", "200", "400", "401", "404", "500"}
    /\ shown \in Shows
    /\ said \in Failures \cup {"ok", "no git server", "no token", "no such endpoint"}
    /\ \A e, f \in cache : e.source.op = f.source.op /\ KeyOf(e.source) = KeyOf(f.source) => e = f

\* Whoever asks for something that there can be at the provider is answered with what
\* was read for this very request, though its key may be that of others: that separators
\* move from a name to a state, or from a repository to its owner, can only put what
\* exists in the place of what does not, never in that of something else that exists.
OwnAnswer ==
    pc = "done" /\ code = "200" /\ source # Nobody /\ Exists(request) =>
        request.op = "ListUserOrganizations" \/ source = request

\* A list of pull requests shows those in the state asked for and no others, as
\* the answers tell the states: but a locked merge request and a superseded pull
\* request are shown as what they are not listed as, and GitHub lists all for a
\* state there is not, where the others list what is open.
StatesAgree ==
    pc = "done" /\ code = "200" /\ request.op = "ListPullRequests" /\ Exists(request) =>
        LET word == Word(request.state) IN
        /\ word \in {"open", "closed", "merged"} => shown \subseteq {word}
        /\ word \notin Words /\ provider # "github" => shown \subseteq {"open"}
        /\ \A e \in Found(request) :
              e.fresh /\ raw \notin {"locked", "SUPERSEDED"} /\ word \in {Normalized, "all"}
                  => e.shows = {Normalized}

\* The code of an answer tells what happened: what is not found, and whose credentials
\* are not accepted, at the provider only; and an organization's private repositories
\* are missing only when it could not be read.
CodeTells ==
    pc = "done" =>
        /\ code = "404" => said = "404"
        /\ code = "401" => said \in {"401", "403"}
        /\ code = "200" => said = "ok"
        /\ code = "200" /\ source = request /\ request.op = "ListRepositories"
              => "private" \in shown \/ (provider = "github" /\ ~owned)
        /\ said = "404" /\ request.op \in {"GetRepository", "ListPullRequests"} => code = "404"
        /\ said = "401" /\ request.op = "ListPullRequests" => code = "401"

\* A failure has the code that the description of the API gives it, and a repository that
\* the provider does not have is one, though another's list may have its key.
DocumentedCodes ==
    pc = "done" =>
        /\ said = "no git server"
              /\ request.op \in {"GetRepository", "ListPullRequests"} \cup PipelineOperations
              => code = "404"
        /\ request.op = "ListPullRequests" /\ ~Exists(request) => code # "200"
        /\ said = "401" /\ request.op \in {"ListRepositories", "ListUserOrganizations", "ListBranches"}
              => code = "401"
        /\ said = "no such endpoint" => code = "400"
=============================================================================
