----------------------- MODULE ResourceRequestsProofs -----------------------
(***************************************************************************)
(* Theorems about ResourceRequests, for any owners, names and states that   *)
(* clients may send and caches of any size.                                *)
(***************************************************************************)
EXTENDS ResourceRequests, SequenceTheorems, TLAPS

-----------------------------------------------------------------------------
(* Keys.                                                                   *)

\* key is a, a separator and b.
Joins(key, a, b) ==
    /\ Len(key) = Len(a) + 1 + Len(b)
    /\ \A i \in 1..Len(a) : key[i] = a[i]
    /\ key[Len(a) + 1] = "|"
    /\ \A i \in 1..Len(b) : key[Len(a) + 1 + i] = b[i]

LEMMA Joined ==
    ASSUME NEW S, "|" \in S, NEW a \in Seq(S), NEW b \in Seq(S)
    PROVE  a \o Bar \o b \in Seq(S) /\ Joins(a \o Bar \o b, a, b)
  <1>1. Bar \in Seq(S) /\ Len(Bar) = 1 /\ Bar[1] = "|"
    BY DEF Bar
  <1>2. /\ Len(a) \in Nat /\ Len(b) \in Nat
    BY LenProperties
  <1>3. /\ a \o Bar \in Seq(S) /\ Len(a \o Bar) = Len(a) + 1
        /\ \A i \in 1..(Len(a) + 1) :
              (a \o Bar)[i] = IF i <= Len(a) THEN a[i] ELSE Bar[i - Len(a)]
    <2>1. /\ a \o Bar \in Seq(S) /\ Len(a \o Bar) = Len(a) + Len(Bar)
          /\ \A i \in 1..(Len(a) + Len(Bar)) :
                (a \o Bar)[i] = IF i <= Len(a) THEN a[i] ELSE Bar[i - Len(a)]
      BY <1>1, ConcatProperties
    <2> QED
      BY <1>1, <2>1
  <1>4. /\ a \o Bar \o b \in Seq(S) /\ Len(a \o Bar \o b) = Len(a) + 1 + Len(b)
        /\ \A i \in 1..(Len(a) + 1 + Len(b)) :
              (a \o Bar \o b)[i] = IF i <= Len(a) + 1 THEN (a \o Bar)[i] ELSE b[i - (Len(a) + 1)]
    <2> DEFINE ab == a \o Bar
    <2>1. ab \in Seq(S) /\ Len(ab) = Len(a) + 1
      BY <1>3
    <2> HIDE DEF ab
    <2>2. /\ ab \o b \in Seq(S) /\ Len(ab \o b) = Len(ab) + Len(b)
          /\ \A i \in 1..(Len(ab) + Len(b)) :
                (ab \o b)[i] = IF i <= Len(ab) THEN ab[i] ELSE b[i - Len(ab)]
      BY <2>1, ConcatProperties
    <2> QED
      BY <2>1, <2>2 DEF ab
  <1>5. \A i \in 1..Len(a) : (a \o Bar \o b)[i] = a[i]
    BY <1>2, <1>3, <1>4
  <1>6. (a \o Bar \o b)[Len(a) + 1] = "|"
    <2>1. Len(a) + 1 \in 1..(Len(a) + 1) /\ (Len(a) + 1) - Len(a) = 1
      BY <1>2
    <2>2. (a \o Bar)[Len(a) + 1] = Bar[1]
      BY <1>2, <1>3, <2>1
    <2> QED
      BY <1>1, <1>2, <1>4, <2>2
  <1>7. ASSUME NEW i \in 1..Len(b)
        PROVE  (a \o Bar \o b)[Len(a) + 1 + i] = b[i]
    <2>1. /\ Len(a) + 1 + i \in 1..(Len(a) + 1 + Len(b))
          /\ ~(Len(a) + 1 + i <= Len(a) + 1)
          /\ (Len(a) + 1 + i) - (Len(a) + 1) = i
      BY <1>2
    <2> QED
      BY <1>4, <2>1
  <1> QED
    BY <1>4, <1>5, <1>6, <1>7 DEF Joins

\* Two keys that are the same have the same first part and the same rest, when
\* no first part has the separator in it.
LEMMA FirstParts ==
    ASSUME NEW S, NEW a \in Seq(S), NEW b \in Seq(S), Plain(a),
           NEW c \in Seq(S), NEW d \in Seq(S), Plain(c),
           NEW key, Joins(key, a, b), Joins(key, c, d)
    PROVE  a = c /\ b = d
  <1>1. /\ Len(a) \in Nat /\ Len(b) \in Nat /\ Len(c) \in Nat /\ Len(d) \in Nat
        /\ DOMAIN a = 1..Len(a) /\ DOMAIN c = 1..Len(c)
    BY LenProperties
  <1>2. /\ Len(key) = Len(a) + 1 + Len(b)
        /\ \A i \in 1..Len(a) : key[i] = a[i]
        /\ key[Len(a) + 1] = "|"
        /\ \A i \in 1..Len(b) : key[Len(a) + 1 + i] = b[i]
    BY DEF Joins
  <1>3. /\ Len(key) = Len(c) + 1 + Len(d)
        /\ \A i \in 1..Len(c) : key[i] = c[i]
        /\ key[Len(c) + 1] = "|"
        /\ \A i \in 1..Len(d) : key[Len(c) + 1 + i] = d[i]
    BY DEF Joins
  <1>4. /\ \A i \in 1..Len(a) : a[i] # "|"
        /\ \A i \in 1..Len(c) : c[i] # "|"
    BY <1>1 DEF Plain
  <1>5. ~(Len(c) < Len(a))
    <2> SUFFICES ASSUME Len(c) < Len(a) PROVE FALSE
      OBVIOUS
    <2>1. Len(c) + 1 \in 1..Len(a)
      BY <1>1
    <2> QED
      BY <1>2, <1>3, <1>4, <2>1
  <1>6. ~(Len(a) < Len(c))
    <2> SUFFICES ASSUME Len(a) < Len(c) PROVE FALSE
      OBVIOUS
    <2>1. Len(a) + 1 \in 1..Len(c)
      BY <1>1
    <2> QED
      BY <1>2, <1>3, <1>4, <2>1
  <1>7. Len(a) = Len(c)
    <2> DEFINE la == Len(a)
               lc == Len(c)
    <2>1. la \in Nat /\ lc \in Nat /\ ~(lc < la) /\ ~(la < lc)
      BY <1>1, <1>5, <1>6
    <2> HIDE DEF la, lc
    <2>2. la = lc
      BY <2>1
    <2> QED
      BY <2>2 DEF la, lc
  <1>8. Len(b) = Len(d)
    BY <1>1, <1>2, <1>3, <1>7
  <1>9. a = c
    BY <1>2, <1>3, <1>7, SeqEqual
  <1>10. b = d
    BY <1>2, <1>3, <1>7, <1>8, SeqEqual
  <1> QED
    BY <1>9, <1>10

\* The requests that clients make about repositories and the like, and about pipelines.
Made  == {r \in Requests : \E o \in Operations, path \in Paths, s \in States : r = Asks(o, path, s)}
Piped == {AsksForPipelines(o) : o \in PipelineOperations}

\* The ones a provider has an answer to.
Answerable(r) == r.op = "ListUserOrganizations" \/ Exists(r)

LEMMA MadeType ==
    ASSUME NEW o \in Operations, NEW path \in Paths, NEW s \in States
    PROVE  Asks(o, path, s) \in Made
  <1>1. PICK state \in Sent : state = IF o = "ListPullRequests" THEN s ELSE <<>>
    BY DEF Sent
  <1>2. Asks(o, path, s) = [op |-> o, owner |-> path[1], repo |-> path[2], state |-> state]
    BY <1>1 DEF Asks
  <1>3. Asks(o, path, s) \in Requests
    BY <1>2 DEF Requests
  <1> QED
    BY <1>3 DEF Made

LEMMA MadeParts ==
    ASSUME NEW r \in Made
    PROVE  /\ r = [op |-> r.op, owner |-> r.owner, repo |-> r.repo, state |-> r.state]
           /\ r.owner \in Seq(Characters) /\ r.repo \in Seq(Characters)
           /\ r.op \in Operations /\ r.state \in Seq(Characters)
           /\ r.op # "ListPullRequests" => r.state = <<>>
  <1>1. PICK o \in Operations, path \in Paths, s \in States : r = Asks(o, path, s)
    BY DEF Made
  <1>2. path[1] \in Seq(Characters) /\ path[2] \in Seq(Characters) /\ s \in Seq(Characters)
    BY ResourcesAssumption
  <1>3. <<>> \in Seq(Characters)
    OBVIOUS
  <1> QED
    BY <1>1, <1>2, <1>3 DEF Asks

\* Of two requests with the same key for what there is at the provider, one is the
\* other, but for organizations, whose key is the git server's.  Neither name has a
\* separator, whatever the state has.
LEMMA SameKey ==
    ASSUME NEW r \in Made, NEW q \in Made, r.op = q.op, KeyOf(r) = KeyOf(q),
           Exists(r), Exists(q), r.op \notin {"GetRepository", "ListUserOrganizations"}
    PROVE  r = q
  <1> DEFINE S == Characters \cup {"|"}
  <1>1. /\ "|" \in S
        /\ r.owner \in Seq(S) /\ r.repo \in Seq(S) /\ r.state \in Seq(S)
        /\ q.owner \in Seq(S) /\ q.repo \in Seq(S) /\ q.state \in Seq(S)
    BY MadeParts, SeqMonotonic
  <1>2. /\ Plain(r.owner) /\ Plain(q.owner)
        /\ r.op \in {"ListBranches", "ListPullRequests"} => Plain(r.repo) /\ Plain(q.repo)
    BY DEF Exists
  <1> DEFINE first  == r.owner \o Bar \o r.repo
             second == q.owner \o Bar \o q.repo
  <1> HIDE DEF S
  <1>3. /\ first \in Seq(S) /\ Joins(first, r.owner, r.repo)
        /\ second \in Seq(S) /\ Joins(second, q.owner, q.repo)
    BY <1>1, Joined
  <1>4. Bar \in Seq(S)
    BY <1>1 DEF Bar
  <1>5. CASE r.op = "ListRepositories"
    <2>1. first = second
      BY <1>5 DEF KeyOf
    <2>2. r.owner = q.owner /\ r.repo = q.repo
      BY <1>1, <1>2, <1>3, <2>1, FirstParts
    <2> QED
      BY <1>5, <2>2, MadeParts
  <1>6. CASE r.op = "ListBranches"
    <2>1. first \o Bar = second \o Bar
      BY <1>6 DEF KeyOf
    <2> HIDE DEF first, second
    <2>2. first = second
      BY <1>3, <1>4, <2>1, ConcatSimplifications
    <2>3. r.owner = q.owner /\ r.repo = q.repo
      BY <1>1, <1>2, <1>3, <2>2, FirstParts
    <2> QED
      BY <1>6, <2>3, MadeParts
  <1>7. CASE r.op = "ListPullRequests"
    <2> DEFINE rest1 == r.repo \o Bar \o r.state
               rest2 == q.repo \o Bar \o q.state
    <2>1. r.owner \o Bar \o rest1 = q.owner \o Bar \o rest2
      BY <1>7 DEF KeyOf
    <2>2. /\ rest1 \in Seq(S) /\ Joins(rest1, r.repo, r.state)
          /\ rest2 \in Seq(S) /\ Joins(rest2, q.repo, q.state)
      BY <1>1, Joined
    <2> HIDE DEF rest1, rest2
    <2>3. /\ Joins(r.owner \o Bar \o rest1, r.owner, rest1)
          /\ Joins(q.owner \o Bar \o rest2, q.owner, rest2)
      BY <1>1, <2>2, Joined
    <2>4. r.owner = q.owner /\ rest1 = rest2
      BY <1>1, <1>2, <2>1, <2>2, <2>3, FirstParts
    <2>5. r.repo = q.repo /\ r.state = q.state
      BY <1>1, <1>2, <1>7, <2>2, <2>4, FirstParts
    <2> QED
      BY <1>7, <2>4, <2>5, MadeParts
  <1>8. r.op \in {"ListRepositories", "ListBranches", "ListPullRequests"}
    BY MadeParts DEF Operations
  <1> QED
    BY <1>5, <1>6, <1>7, <1>8

-----------------------------------------------------------------------------
(* What the provider answers.                                              *)

\* A list of pull requests shows none that was not asked for.
Right(r, shows) ==
    r.op = "ListPullRequests" =>
        /\ Word(r.state) \in {"open", "closed", "merged"} => shows \subseteq {Word(r.state)}
        /\ Word(r.state) \notin Words /\ provider # "github" => shows \subseteq {"open"}

\* It shows the one there is when that was asked for.
Full(r, shows) ==
    r.op = "ListPullRequests" /\ raw \notin {"locked", "SUPERSEDED"}
    /\ Word(r.state) \in {Normalized, "all"}
        => shows = {Normalized}

\* Private repositories are listed by all but GitHub, which may not know the organization.
NonePrivate(r, shows) ==
    r.op = "ListRepositories" /\ provider # "github" => "private" \in shows

World == provider \in DOMAIN RawStates /\ raw \in RawStates[provider]

LEMMA NormalizedType == Normalized \in {"open", "closed", "merged"}
  BY DEF Normalized

\* The states asked for are those whose pull requests are shown with that state.
LEMMA AskedRight ==
    ASSUME World, provider # "another", NEW word
    PROVE  /\ word \in {"open", "closed", "merged"} /\ raw \in Asked(word) => Normalized = word
           /\ word \notin Words /\ provider # "github" /\ raw \in Asked(word) => Normalized = "open"
           /\ raw \notin {"locked", "SUPERSEDED"} /\ word \in {Normalized, "all"} => raw \in Asked(word)
  <1>1. provider \in {"github", "gitlab", "bitbucket"}
    BY DEF World, RawStates
  <1>2. CASE provider = "github"
    <2>1. raw \in {"open", "closed", "merged"}
      BY <1>2 DEF World, RawStates
    <2>2. /\ Asked(word) = AskedOfGitHub(word)
          /\ RawStates.github = {"open", "closed", "merged"}
      BY <1>2 DEF Asked, RawStates
    <2> QED
      BY <1>2, <2>1, <2>2 DEF AskedOfGitHub, Normalized, Words
  <1>3. CASE provider = "gitlab"
    <2>1. raw \in {"opened", "closed", "locked", "merged"}
      BY <1>3 DEF World, RawStates
    <2>2. /\ Asked(word) = mapPullRequestStateToGitLab(word)
          /\ RawStates.gitlab = {"opened", "closed", "locked", "merged"}
      BY <1>3 DEF Asked, RawStates
    <2> QED
      BY <1>3, <2>1, <2>2 DEF mapPullRequestStateToGitLab, Normalized, Words
  <1>4. CASE provider = "bitbucket"
    <2>1. raw \in {"OPEN", "MERGED", "DECLINED", "SUPERSEDED"}
      BY <1>4 DEF World, RawStates
    <2>2. /\ Asked(word) = AskedOfBitbucket(word)
          /\ RawStates.bitbucket = {"OPEN", "MERGED", "DECLINED", "SUPERSEDED"}
      BY <1>4 DEF Asked, RawStates
    <2> QED
      BY <1>4, <2>1, <2>2 DEF AskedOfBitbucket, Normalized, Words
  <1> QED
    BY <1>1, <1>2, <1>3, <1>4

LEMMA ListingRight ==
    ASSUME World, provider # "another"
    PROVE  /\ Listing \in Shows
           /\ Right(request, Listing) /\ Full(request, Listing) /\ NonePrivate(request, Listing)
           /\ request.op = "ListRepositories" => "private" \in Listing \/ (provider = "github" /\ ~owned)
  <1>1. Listing \in Shows
    BY NormalizedType DEF Listing, Shows
  <1>2. CASE request.op = "ListPullRequests"
    <2>1. Listing = IF raw \in Asked(Word(request.state)) THEN {Normalized} ELSE {}
      BY <1>2 DEF Listing
    <2> QED
      BY <1>1, <1>2, <2>1, AskedRight DEF Right, Full, NonePrivate
  <1>3. CASE request.op = "ListRepositories"
    BY <1>1, <1>3 DEF Listing, Right, Full, NonePrivate
  <1>4. CASE request.op \notin {"ListPullRequests", "ListRepositories"}
    BY <1>1, <1>4 DEF Right, Full, NonePrivate
  <1> QED
    BY <1>2, <1>3, <1>4

\* What becomes of a failure.
LEMMA FailureCodes ==
    ASSUME NEW failure \in Failures
    PROVE  LET c == CodeOf(ErrorOf(failure)) IN
           /\ c \in {"400", "401", "404", "500"}
           /\ c = "404" => failure = "404"
           /\ c = "401" => failure \in {"401", "403"}
           /\ failure = "404" /\ request.op \in {"GetRepository", "ListPullRequests"} => c = "404"
           /\ failure = "401" /\ request.op = "ListPullRequests" => c = "401"
  <1>1. CASE request.op = "ListPullRequests"
    <2>1. CASE provider = "github"
      BY <1>1, <2>1 DEF CodeOf, ErrorOf, classifyGitHubError, Failures, PipelineOperations
    <2>2. CASE provider # "github"
      BY <1>1, <2>2 DEF CodeOf, ErrorOf, CredentialsToo, NotFoundOnly, Failures, PipelineOperations
    <2> QED
      BY <2>1, <2>2
  <1>2. CASE request.op = "GetRepository"
    BY <1>2 DEF CodeOf, ErrorOf, classifyGitHubError, NotFoundOnly, Failures,
                PipelineOperations
  <1>3. CASE request.op \notin {"ListPullRequests", "GetRepository"}
    <2>1. CodeOf(ErrorOf(failure)) \in {"400", "500"}
      BY <1>3 DEF CodeOf
    <2> QED
      BY <1>3, <2>1
  <1> QED
    BY <1>1, <1>2, <1>3

LEMMA OtherCode == CodeOf("other") \in {"400", "500"}
  BY DEF CodeOf

-----------------------------------------------------------------------------
(* Invariants.                                                             *)

\* How far a request can have got.
Progressed ==
    /\ request \in Made \cup {Nobody} \cup Piped
    /\ pc = "settings" => request \in Made \cup Piped
    /\ pc \in {"dispatch", "call", "list"} => request \in Made
    /\ pc = "idle" => request = Nobody
    /\ pc # "done" => code = "none" /\ shown = {} /\ said = "ok" /\ source = Nobody
    /\ pc \in {"idle", "settings", "dispatch", "call"} => owned = FALSE
    /\ pc \in {"call", "list"} => provider # "another"
    /\ pc = "list" => provider = "github" /\ request.op = "ListRepositories"

\* What is in the caches was asked for by somebody, and is right.
Kept ==
    \A e \in cache :
        /\ e.source \in Made /\ Answerable(e.source) /\ e.source.op # "GetRepository"
        /\ Right(e.source, e.shows) /\ NonePrivate(e.source, e.shows)
        /\ e.fresh => Full(e.source, e.shows)

\* A list of pull requests of a repository that there is is right.
ShownRight == pc = "done" /\ code = "200" /\ Exists(request) => Right(request, shown)

\* The two halves of TypeOK.
CacheType ==
    /\ World /\ cache \subseteq Entries
    /\ \A e, f \in cache : e.source.op = f.source.op /\ KeyOf(e.source) = KeyOf(f.source) => e = f
WayType ==
    /\ request \in Requests \cup {Nobody} \cup Piped
    /\ source \in Requests \cup {Nobody}
    /\ pc \in {"idle", "settings", "dispatch", "call", "list", "done"}
    /\ token \in {"good", "undecodable"} /\ owned \in BOOLEAN
    /\ code \in {"none", "200", "400", "401", "404", "500"}
    /\ shown \in Shows
    /\ said \in Failures \cup {"ok", "no git server", "no token", "no such endpoint"}

\* The inductive invariant: of the caches, and of the request.
CacheInv == CacheType /\ Kept
WayInv   == WayType /\ Progressed /\ ShownRight /\ OwnAnswer /\ CodeTells
Inv      == CacheInv /\ WayInv

LEMMA InvInit == Init => Inv
  <1> SUFFICES ASSUME Init PROVE Inv
    OBVIOUS
  <1>1. CacheType /\ WayType
    BY DEF Init, CacheType, WayType, World, Entries, Shows
  <1>2. Progressed
    BY DEF Init, Progressed
  <1>3. Kept
    BY DEF Init, Kept
  <1>4. ShownRight /\ OwnAnswer /\ CodeTells
    BY DEF Init, ShownRight, OwnAnswer, CodeTells
  <1> QED
    BY <1>1, <1>2, <1>3, <1>4 DEF Inv, CacheInv, WayInv

-----------------------------------------------------------------------------
(* The caches.                                                             *)

LEMMA CacheStays ==
    ASSUME CacheInv, UNCHANGED <<world, cache>>
    PROVE  CacheInv'
  BY DEF CacheInv, CacheType, Kept, world, World, Right, NonePrivate, Full, Normalized

\* Nothing is added: what is left is as right as before.
LEMMA CacheShrinks ==
    ASSUME CacheInv, UNCHANGED world, cache' \subseteq cache
    PROVE  CacheInv'
  BY DEF CacheInv, CacheType, Kept, world, World, Right, NonePrivate, Full, Normalized

LEMMA ProgressKeeps ==
    ASSUME CacheInv, NEW state \in RawStates[provider], Progress(state)
    PROVE  CacheInv'
  <1>1. /\ raw' = state /\ provider' = provider
        /\ cache' = {[e EXCEPT !.fresh = FALSE] : e \in cache}
    BY DEF Progress
  <1>2. World'
    BY <1>1 DEF CacheInv, CacheType, World
  <1>3. ASSUME NEW g \in cache'
        PROVE  \E e \in cache : /\ g = [e EXCEPT !.fresh = FALSE]
                                /\ g \in Entries /\ ~g.fresh
                                /\ g.source = e.source /\ g.shows = e.shows
    <2>1. PICK e \in cache : g = [e EXCEPT !.fresh = FALSE]
      BY <1>1
    <2>2. e \in Entries
      BY DEF CacheInv, CacheType
    <2> QED
      BY <2>1, <2>2 DEF Entries
  <1>4. cache' \subseteq Entries
    BY <1>3
  <1>5. ASSUME NEW g \in cache', NEW h \in cache',
               g.source.op = h.source.op, KeyOf(g.source) = KeyOf(h.source)
        PROVE  g = h
    <2>1. PICK e \in cache : g = [e EXCEPT !.fresh = FALSE] /\ g.source = e.source
      BY <1>3
    <2>2. PICK f \in cache : h = [f EXCEPT !.fresh = FALSE] /\ h.source = f.source
      BY <1>3
    <2>3. e.source.op = f.source.op /\ KeyOf(e.source) = KeyOf(f.source)
      BY <1>5, <2>1, <2>2
    <2>4. e = f
      BY <2>3 DEF CacheInv, CacheType
    <2> QED
      BY <2>1, <2>2, <2>4
  <1>6. CacheType'
    BY <1>2, <1>4, <1>5 DEF CacheType
  <1>7. Kept'
    BY <1>1, <1>3 DEF CacheInv, Kept, Right, NonePrivate
  <1> QED
    BY <1>6, <1>7 DEF CacheInv

LEMMA CalledMade ==
    ASSUME Inv, Called
    PROVE  /\ World /\ provider # "another" /\ request \in Made
           /\ pc \in {"call", "list"}
  BY DEF Inv, CacheInv, CacheType, WayInv, Progressed, Called

LEMMA SucceedsKeeps ==
    ASSUME Inv, Succeeds
    PROVE  CacheInv'
  <1>1. CASE request.op = "GetRepository"
    <2>1. UNCHANGED <<world, cache>>
      BY <1>1 DEF Succeeds
    <2> QED
      BY <2>1, CacheStays DEF Inv
  <1>2. CASE request.op # "GetRepository"
    <2> DEFINE new == [source |-> request, shows |-> Listing, fresh |-> TRUE]
    <2>1. Called /\ Answerable(request) /\ Stored(new) /\ UNCHANGED world
      BY <1>2 DEF Succeeds, Answerable
    <2>2. /\ World /\ provider # "another" /\ request \in Made
      BY <2>1, CalledMade
    <2>3. /\ Listing \in Shows
          /\ Right(request, Listing) /\ Full(request, Listing) /\ NonePrivate(request, Listing)
      BY <2>2, ListingRight
    <2>4. PICK kept \in SUBSET (cache \ Found(request)) : cache' = kept \cup {new}
      BY <2>1 DEF Stored
    <2>5. new \in Entries
      BY <2>2, <2>3 DEF Entries, Made
    <2>6. /\ new.source = request /\ new.shows = Listing
      OBVIOUS
    <2> HIDE DEF new
    <2>7. \A e \in kept : ~(e.source.op = request.op /\ KeyOf(e.source) = KeyOf(request))
      BY <2>4 DEF Found
    <2>8. /\ cache' \subseteq Entries
          /\ \A e, f \in cache' :
                e.source.op = f.source.op /\ KeyOf(e.source) = KeyOf(f.source) => e = f
      BY <2>4, <2>5, <2>6, <2>7 DEF Inv, CacheInv, CacheType
    <2>9. CacheType'
      BY <2>1, <2>2, <2>8 DEF CacheType, World, world
    <2>10. Kept'
      <3> SUFFICES ASSUME NEW e \in cache'
                   PROVE  /\ e.source \in Made /\ Answerable(e.source) /\ e.source.op # "GetRepository"
                          /\ Right(e.source, e.shows) /\ NonePrivate(e.source, e.shows)
                          /\ e.fresh => Full(e.source, e.shows)
        BY <2>1 DEF Kept, Right, NonePrivate, Full, Normalized, world
      <3>1. CASE e = new
        BY <1>2, <2>1, <2>2, <2>3, <2>6, <3>1
      <3>2. CASE e \in cache
        BY <3>2 DEF Inv, CacheInv, Kept
      <3> QED
        BY <2>4, <3>1, <3>2
    <2> QED
      BY <2>9, <2>10 DEF CacheInv
  <1> QED
    BY <1>1, <1>2

\* Whatever happens, no two entries have the same key, and each is right.
LEMMA CacheStep == Inv /\ [Next]_vars => CacheInv'
  <1> SUFFICES ASSUME Inv, [Next]_vars PROVE CacheInv'
    OBVIOUS
  <1>1. CASE UNCHANGED <<world, cache>>
    BY <1>1, CacheStays DEF Inv
  <1>2. ASSUME NEW state \in RawStates[provider], Progress(state)
        PROVE  CacheInv'
    BY <1>2, ProgressKeeps DEF Inv
  <1>3. ASSUME NEW e \in cache, Drop(e)
        PROVE  CacheInv'
    BY <1>3, CacheShrinks DEF Inv, Drop
  <1>4. ASSUME NEW endpoint \in Endpoints, InvalidateCache(endpoint)
        PROVE  CacheInv'
    BY <1>4, CacheShrinks DEF Inv, InvalidateCache
  <1>5. CASE Succeeds
    BY <1>5, SucceedsKeeps
  <1>6. CASE UNCHANGED vars
    BY <1>1, <1>6 DEF vars
  <1>7. CASE \/ \E o \in Operations, path \in Paths, s \in States : Request(Asks(o, path, s))
             \/ \E o \in PipelineOperations : Request(AsksForPipelines(o))
             \/ GoesOn
             \/ \E t \in {"good", "undecodable"} : GetSettings(t)
             \/ \E why \in {"no git server", "no token"} : NoSettings(why)
             \/ Unsupported \/ Cached \/ Dispatch \/ Rejected
             \/ \E found \in BOOLEAN : ReadOrganization(found)
             \/ \E failure \in Failures : Fails(failure)
             \/ Answer
    BY <1>1, <1>7 DEF Request, GoesOn, GetSettings, NoSettings, Unsupported, Cached, Dispatch,
                      Rejected, ReadOrganization, Fails, Answer
  <1> QED
    BY <1>2, <1>3, <1>4, <1>5, <1>6, <1>7 DEF Next

-----------------------------------------------------------------------------
(* The way of a request.                                                   *)

\* Nothing is said to the client yet.
LEMMA GoingOn ==
    ASSUME WayInv, WayType', Progressed', pc' # "done"
    PROVE  WayInv'
  BY DEF WayInv, ShownRight, OwnAnswer, CodeTells

\* The request is refused before a provider is asked.
LEMMA Refusing ==
    ASSUME WayInv, Refused("other"), pc # "done",
           UNCHANGED way, UNCHANGED world,
           said' \in {"ok", "no git server", "no token"}
    PROVE  WayInv'
  <1>1. /\ code' \in {"400", "500"} /\ pc' = "done"
        /\ UNCHANGED <<shown, source, request, token, owned, provider>>
    BY OtherCode DEF Refused, Answered, way, world
  <1>2. WayType'
    BY <1>1 DEF WayInv, WayType
  <1>3. Progressed'
    BY <1>1 DEF WayInv, Progressed
  <1>4. ShownRight' /\ OwnAnswer' /\ CodeTells'
    BY <1>1 DEF ShownRight, OwnAnswer, CodeTells
  <1> QED
    BY <1>2, <1>3, <1>4 DEF WayInv

LEMMA FailsKeeps ==
    ASSUME Inv, NEW failure \in Failures, Fails(failure)
    PROVE  WayInv'
  <1>1. /\ code' = CodeOf(ErrorOf(failure)) /\ pc' = "done" /\ said' = failure
        /\ UNCHANGED <<shown, source, request, token, owned, provider>>
    BY DEF Fails, Refused, Answered, way, world
  <1>2. /\ World /\ provider # "another" /\ request \in Made /\ pc \in {"call", "list"}
    BY CalledMade DEF Fails
  <1>3. WayType'
    BY <1>1, FailureCodes DEF Inv, WayInv, WayType
  <1>4. Progressed'
    BY <1>1, <1>2 DEF Inv, WayInv, Progressed
  <1>5. code' \in {"400", "401", "404", "500"}
    BY <1>1, FailureCodes
  <1>6. ShownRight' /\ OwnAnswer'
    BY <1>5 DEF ShownRight, OwnAnswer
  <1>7. CodeTells'
    <2>1. said' # "ok"
      BY <1>1 DEF Failures
    <2> QED
      BY <1>1, <1>5, <2>1, FailureCodes DEF CodeTells
  <1> QED
    BY <1>3, <1>4, <1>6, <1>7 DEF WayInv

LEMMA SucceedsTells ==
    ASSUME Inv, Succeeds
    PROVE  WayInv'
  <1>1. /\ code' = "200" /\ pc' = "done" /\ shown' = Listing /\ source' = request
        /\ Called /\ UNCHANGED <<said, request, token, owned, provider>>
    BY DEF Succeeds, Answered, way, world
  <1>2. /\ World /\ provider # "another" /\ request \in Made /\ pc \in {"call", "list"}
    BY <1>1, CalledMade
  <1>3. /\ Listing \in Shows /\ Right(request, Listing)
        /\ request.op = "ListRepositories" => "private" \in Listing \/ (provider = "github" /\ ~owned)
    BY <1>2, ListingRight
  <1>4. said = "ok"
    BY <1>2 DEF Inv, WayInv, Progressed
  <1>5. WayType'
    BY <1>1, <1>2, <1>3 DEF Inv, WayInv, WayType, Made
  <1>6. Progressed'
    BY <1>1, <1>2 DEF Inv, WayInv, Progressed
  <1>7. ShownRight'
    BY <1>1, <1>3 DEF ShownRight, Right, Exists
  <1>8. OwnAnswer'
    BY <1>1 DEF OwnAnswer
  <1>9. CodeTells'
    BY <1>1, <1>3, <1>4 DEF CodeTells
  <1> QED
    BY <1>5, <1>6, <1>7, <1>8, <1>9 DEF WayInv

\* What is found in a cache was asked for by this request, or shares its key.
LEMMA CachedTells ==
    ASSUME Inv, Cached
    PROVE  WayInv'
  <1>1. PICK e \in Found(request) : shown' = e.shows /\ source' = e.source
    BY DEF Cached
  <1>2. /\ code' = "200" /\ pc' = "done" /\ pc = "dispatch"
        /\ provider # "another" /\ request.op # "GetRepository"
        /\ UNCHANGED <<said, request, token, owned, provider>>
    BY DEF Cached, Answered, way, world
  <1>3. /\ request \in Made /\ said = "ok" /\ ~owned
    BY <1>2 DEF Inv, WayInv, Progressed
  <1>4. /\ e \in cache /\ e.source.op = request.op /\ KeyOf(e.source) = KeyOf(request)
    BY DEF Found
  <1>5. /\ e.source \in Made /\ Answerable(e.source)
        /\ Right(e.source, e.shows) /\ NonePrivate(e.source, e.shows)
    BY <1>4 DEF Inv, CacheInv, Kept
  <1>6. e.source \in Requests /\ e.shows \in Shows
    BY <1>4 DEF Inv, CacheInv, CacheType, Entries
  <1>7. \/ request.op = "ListUserOrganizations"
        \/ e.source = request
        \/ ~Exists(request)
    BY <1>2, <1>3, <1>4, <1>5, SameKey DEF Answerable
  <1>8. WayType'
    BY <1>1, <1>2, <1>6 DEF Inv, WayInv, WayType
  <1>9. Progressed'
    BY <1>2, <1>3 DEF Inv, WayInv, Progressed
  <1>10. ShownRight'
    <2> SUFFICES ASSUME request.op = "ListPullRequests", Exists(request)
                 PROVE  Right(request, e.shows)
      BY <1>1, <1>2 DEF ShownRight, Right, Exists
    <2> QED
      BY <1>5, <1>7
  <1>11. OwnAnswer'
    BY <1>1, <1>2, <1>7 DEF OwnAnswer, Exists
  <1>12. CodeTells'
    BY <1>1, <1>2, <1>3, <1>4, <1>5 DEF CodeTells, NonePrivate
  <1> QED
    BY <1>8, <1>9, <1>10, <1>11, <1>12 DEF WayInv

LEMMA WayStep == Inv /\ [Next]_vars => WayInv'
  <1> SUFFICES ASSUME Inv, [Next]_vars PROVE WayInv'
    OBVIOUS
  <1>1. WayInv /\ WayType /\ Progressed
    BY DEF Inv, WayInv
  <1>2. ASSUME UNCHANGED <<provider, pc, way, result>>
        PROVE  WayInv'
    <2>1. UNCHANGED <<provider, pc, request, token, owned, code, shown, said, source>>
      BY <1>2 DEF way, result
    <2>2. WayType'
      <3>1. /\ request' \in Requests \cup {Nobody} \cup Piped
            /\ source' \in Requests \cup {Nobody}
        BY <1>1, <2>1 DEF WayType
      <3>2. /\ pc' \in {"idle", "settings", "dispatch", "call", "list", "done"}
            /\ token' \in {"good", "undecodable"} /\ owned' \in BOOLEAN
        BY <1>1, <2>1 DEF WayType
      <3>3. /\ code' \in {"none", "200", "400", "401", "404", "500"}
            /\ shown' \in Shows
            /\ said' \in Failures \cup {"ok", "no git server", "no token", "no such endpoint"}
        BY <1>1, <2>1 DEF WayType
      <3> QED
        BY <3>1, <3>2, <3>3 DEF WayType
    <2>3. Progressed'
      BY <1>1, <2>1 DEF Progressed
    <2>4. ShownRight' /\ OwnAnswer' /\ CodeTells'
      BY <1>1, <2>1 DEF WayInv, ShownRight, Right, OwnAnswer, CodeTells, Exists
    <2> QED
      BY <2>2, <2>3, <2>4 DEF WayInv
  <1>3. CASE UNCHANGED vars
    BY <1>2, <1>3 DEF vars, world
  <1>4. CASE \/ \E state \in RawStates[provider] : Progress(state)
             \/ \E e \in cache : Drop(e)
    BY <1>2, <1>4 DEF Progress, Drop, world
  <1>5. ASSUME NEW o \in Operations, NEW path \in Paths, NEW s \in States,
               Request(Asks(o, path, s))
        PROVE  WayInv'
    <2> DEFINE r == Asks(o, path, s)
    <2>1. r \in Made /\ r \in Requests
      BY MadeType DEF Made
    <2> HIDE DEF r
    <2>2. /\ pc = "idle" /\ request' = r
          /\ UNCHANGED <<provider, token, owned, shown, said, source>>
          /\ \/ pc' = "settings" /\ UNCHANGED code
             \/ pc' = "done" /\ code' = "400"
      BY <1>5 DEF Request, Answered, world, r
    <2>3. WayType' /\ Progressed'
      BY <1>1, <2>1, <2>2 DEF WayType, Progressed
    <2>4. ShownRight' /\ OwnAnswer' /\ CodeTells'
      BY <1>1, <2>2 DEF ShownRight, OwnAnswer, CodeTells, Progressed
    <2> QED
      BY <2>3, <2>4 DEF WayInv
  <1>16. ASSUME NEW o \in PipelineOperations, Request(AsksForPipelines(o))
         PROVE  WayInv'
    <2>1. AsksForPipelines(o) \in Piped
      BY DEF Piped
    <2>2. /\ pc = "idle" /\ request' = AsksForPipelines(o)
          /\ UNCHANGED <<provider, token, owned, shown, said, source>>
          /\ \/ pc' = "settings" /\ UNCHANGED code
             \/ pc' = "done" /\ code' = "400"
      BY <1>16 DEF Request, Answered, world
    <2>3. WayType' /\ Progressed'
      BY <1>1, <2>1, <2>2 DEF WayType, Progressed
    <2>4. ShownRight' /\ OwnAnswer' /\ CodeTells'
      BY <1>1, <2>2 DEF ShownRight, OwnAnswer, CodeTells, Progressed
    <2> QED
      BY <2>3, <2>4 DEF WayInv
  <1>17. CASE GoesOn
    <2>1. WayType' /\ Progressed'
      BY <1>1, <1>17 DEF GoesOn, WayType, Progressed, result, world
    <2> QED
      BY <1>1, <1>17, <2>1, GoingOn DEF GoesOn
  <1>6. CASE Answer
    <2>1. WayType' /\ Progressed'
      BY <1>1, <1>6 DEF Answer, WayType, Progressed, Shows, world
    <2> QED
      BY <1>1, <1>6, <2>1, GoingOn DEF Answer
  <1>7. ASSUME NEW t \in {"good", "undecodable"}, GetSettings(t)
        PROVE  WayInv'
    <2>1. request \in Made
      BY <1>1, <1>7 DEF GetSettings, Progressed, Piped, AsksForPipelines, Operations, PipelineOperations
    <2>2. WayType' /\ Progressed' /\ pc' # "done"
      BY <1>1, <1>7, <2>1 DEF GetSettings, WayType, Progressed, result, world
    <2> QED
      BY <1>1, <2>2, GoingOn
  <1>8. ASSUME NEW why \in {"no git server", "no token"}, NoSettings(why)
        PROVE  WayInv'
    <2>1. /\ Refused("other") /\ pc # "done"
          /\ UNCHANGED way /\ UNCHANGED world /\ said' \in {"ok", "no git server", "no token"}
      BY <1>1, <1>8 DEF NoSettings, Progressed
    <2> QED
      BY <1>1, <2>1, Refusing
  <1>9. CASE Unsupported \/ Rejected
    <2>1. /\ Refused("other") /\ pc # "done"
          /\ UNCHANGED way /\ UNCHANGED world /\ said' \in {"ok", "no git server", "no token"}
      BY <1>1, <1>9 DEF Unsupported, Rejected, Progressed
    <2> QED
      BY <1>1, <2>1, Refusing
  <1>10. CASE Cached
    BY <1>10, CachedTells
  <1>11. CASE Dispatch
    <2>1. WayType' /\ Progressed' /\ pc' # "done"
      BY <1>1, <1>11 DEF Dispatch, WayType, Progressed, way, result, world
    <2> QED
      BY <1>1, <2>1, GoingOn
  <1>12. ASSUME NEW found \in BOOLEAN, ReadOrganization(found)
         PROVE  WayInv'
    <2>1. WayType' /\ Progressed' /\ pc' # "done"
      BY <1>1, <1>12 DEF ReadOrganization, WayType, Progressed, result, world
    <2> QED
      BY <1>1, <2>1, GoingOn
  <1>13. CASE Succeeds
    BY <1>13, SucceedsTells
  <1>14. ASSUME NEW failure \in Failures, Fails(failure)
         PROVE  WayInv'
    BY <1>14, FailsKeeps
  <1>15. ASSUME NEW endpoint \in Endpoints, InvalidateCache(endpoint)
         PROVE  WayInv'
    <2>1. /\ pc = "idle" /\ pc' = "done" /\ code' \in {"200", "400", "500"}
          /\ said' = IF code' = "500" THEN "no such endpoint" ELSE said
          /\ UNCHANGED <<provider, request, token, owned, shown, source>>
      BY <1>15 DEF InvalidateCache, Answered, way, world
    <2>2. request = Nobody /\ source = Nobody /\ said = "ok" /\ shown = {}
      BY <1>1, <2>1 DEF Progressed
    <2>3. WayType' /\ Progressed'
      BY <1>1, <2>1, <2>2 DEF WayType, Progressed
    <2>4. ShownRight' /\ OwnAnswer' /\ CodeTells'
      BY <2>1, <2>2 DEF ShownRight, Right, OwnAnswer, CodeTells, Nobody
    <2> QED
      BY <2>3, <2>4 DEF WayInv
  <1> QED
    BY <1>3, <1>4, <1>5, <1>6, <1>7, <1>8, <1>9, <1>10, <1>11, <1>12, <1>13, <1>14, <1>15,
       <1>16, <1>17 DEF Next

-----------------------------------------------------------------------------
(* Theorems.                                                               *)

\* The invariant that the next four follow from: what is cached was asked for, and
\* is what the provider said to that.
THEOREM Invariance == Spec => []Inv
  <1>1. Inv /\ [Next]_vars => Inv'
    BY CacheStep, WayStep DEF Inv
  <1> QED
    BY <1>1, InvInit, PTL DEF Spec

\* TypeOK: whatever a client asks for and whatever goes wrong, the answer has one of
\* five codes, and no two entries of a cache have the same key.
THEOREM TypeCorrect == Spec => []TypeOK
  <1>1. Inv => TypeOK
    BY DEF Inv, CacheInv, WayInv, CacheType, WayType, World, TypeOK, Piped
  <1> QED
    BY <1>1, Invariance, PTL

\* OwnAnswer: whatever separators clients put into owners, names and states, what
\* there is at the provider is answered for with what was read for it, and never with
\* the list of something else that has its key.
THEOREM AnswersOwn == Spec => []OwnAnswer
  <1>1. Inv => OwnAnswer
    BY DEF Inv, WayInv
  <1> QED
    BY <1>1, Invariance, PTL

\* StatesAgree: what mapPullRequestStateToGitLab and its like ask for is what
\* normalizeGitLabMRState and its like show, in lists just read and in cached ones,
\* for any state that a client sends.
THEOREM StatesRight == Spec => []StatesAgree
  <1>1. Inv => StatesAgree
    <2> SUFFICES ASSUME Inv, pc = "done", code = "200", request.op = "ListPullRequests",
                        Exists(request)
                 PROVE  /\ Right(request, shown)
                        /\ \A e \in Found(request) : e.fresh => Full(request, e.shows)
      BY DEF StatesAgree, Right, Full
    <2>1. Right(request, shown)
      BY DEF Inv, WayInv, ShownRight
    <2>2. request \in Made
      BY DEF Inv, WayInv, Progressed, Nobody, Piped, AsksForPipelines, PipelineOperations
    <2>3. ASSUME NEW e \in Found(request), e.fresh
          PROVE  Full(request, e.shows)
      <3>1. /\ e \in cache /\ e.source.op = request.op /\ KeyOf(e.source) = KeyOf(request)
        BY DEF Found
      <3>2. e.source \in Made /\ Exists(e.source) /\ Full(e.source, e.shows)
        BY <2>3, <3>1 DEF Inv, CacheInv, Kept, Answerable
      <3>3. e.source = request
        BY <2>2, <3>1, <3>2, SameKey
      <3> QED
        BY <3>2, <3>3
    <2> QED
      BY <2>1, <2>3
  <1> QED
    BY <1>1, Invariance, PTL

\* CodeTells: the client's code says no more than Kubernetes and the provider did.
THEOREM AnswersTell == Spec => []CodeTells
  <1>1. Inv => CodeTells
    BY DEF Inv, WayInv
  <1> QED
    BY <1>1, Invariance, PTL
=============================================================================
