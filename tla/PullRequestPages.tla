-------------------------- MODULE PullRequestPages --------------------------
(***************************************************************************)
(* One page of a GitHub repository's pull requests, as ListPullRequests    *)
(* answers it.  GitHub tells open from closed; merged and closed but not   *)
(* merged are told apart here, by reading GitHub's closed pull requests    *)
(* page after page and counting what is skipped, while people go on        *)
(* closing, merging and reopening.                                         *)
(***************************************************************************)
EXTENDS Integers, Sequences, SequencesExt, ProviderPages, Filtering

CONSTANTS Absent,               \* a query parameter that is not there
          RawPages,             \* values of the query parameter page
          RawPerPages,          \* values of the query parameter perPage
          DefaultPerPage,       \* clampPagination: 20
          MaxPerPage,           \* clampPagination: 100
          ghPostFilterPageSize, \* 100
          ghPostFilterMaxPages, \* 50
          MaxInt,               \* math.MaxInt
          MaxPulls              \* bound: pull requests of the repository

ASSUME PagesAssumption ==
    /\ RawPages \ {Absent} \subseteq Int
    /\ RawPerPages \ {Absent} \subseteq Int
    /\ MaxPerPage \in Nat \ {0}
    /\ DefaultPerPage \in 1 .. MaxPerPage
    /\ ghPostFilterPageSize \in Nat \ {0}
    /\ ghPostFilterMaxPages \in Nat \ {0}
    /\ MaxInt \in Nat
    /\ MaxPulls \in Nat /\ MaxPulls + MaxPerPage <= MaxInt

VARIABLES pulls,        \* the state of each pull request, newest first
          opts,         \* the request: state, page, perPage
          skip,         \* matching pull requests still to be skipped
          result,       \* the pull requests for the answer
          ghPage,       \* the page of GitHub to ask for
          pagesQueried, \* pages of GitHub asked for
          total,        \* the total of the answer
          pc,           \* "read", "done" or "failed"
          before,       \* history: pulls when the request came
          arrived       \* history: one was closed, merged or reopened since

vars == <<pulls, opts, skip, result, ghPage, pagesQueried, total, pc, before, arrived>>

-----------------------------------------------------------------------------
\* Go's int wraps around.
Int64(n) == ((n + (MaxInt + 1)) % (2 * (MaxInt + 1))) - (MaxInt + 1)

\* clampPagination.
ClampPage(p) == IF p = Absent \/ p < 1 THEN 1 ELSE p
ClampPerPage(pp) ==
    IF pp = Absent \/ pp < 1 THEN DefaultPerPage
    ELSE IF pp > MaxPerPage THEN MaxPerPage ELSE pp

\* Is a pull request in the given state listed by GitHub for the state asked for?
mapPullRequestStateToGitHub(asked, state) ==
    CASE asked = "open"                -> state = "open"
      [] asked \in {"closed", "merged"} -> state # "open"
      [] OTHER                          -> TRUE

\* GitHub's listing: the numbers of the pull requests it has, newest first.
Listing(of, asked) ==
    Only([i \in 1 .. Len(of) |-> i],
         {i \in 1 .. Len(of) : mapPullRequestStateToGitHub(asked, of[i])})

\* Is a pull request of GitHub's listing one of those asked for?
matchesPullRequestStateFilter(asked, state) ==
    CASE asked = "merged" -> state = "merged"
      [] asked = "closed" -> state # "merged"
      [] OTHER            -> TRUE

\* The pull requests that are kept of a page of GitHub.
Matching(of) == {i \in 1 .. Len(of) : matchesPullRequestStateFilter(opts.state, of[i])}

\* States that GitHub cannot filter by.
PostFilter == opts.state \in {"closed", "merged"}

-----------------------------------------------------------------------------
Init ==
    /\ pulls \in UNION {[1 .. n -> {"open", "closed", "merged"}] : n \in 0 .. MaxPulls}
    /\ opts \in [state   : {"open", "closed", "merged", "all"},
                 page    : {ClampPage(p) : p \in RawPages},
                 perPage : {ClampPerPage(pp) : pp \in RawPerPages}]
    /\ skip = Int64((opts.page - 1) * opts.perPage)
    /\ result = <<>>
    /\ ghPage = 1
    /\ pagesQueried = 0
    /\ total = 0
    /\ pc = "read"
    /\ before = pulls
    /\ arrived = {}

\* Somebody closes, merges or reopens pull request i; a merged one stays so.
Change(i, state) ==
    /\ pc = "read"
    /\ \/ pulls[i] = "open" /\ state # "open"
       \/ pulls[i] = "closed" /\ state = "open"
    /\ pulls' = [pulls EXCEPT ![i] = state]
    /\ arrived' = arrived \cup {state}
    /\ UNCHANGED <<opts, skip, result, ghPage, pagesQueried, total, pc, before>>

\* The number of the last page, as GitHub names it: not on the last page
\* itself, and perhaps or perhaps not on a page beyond it.
LastPages(listing) ==
    LET last == PageCount(listing, opts.perPage) IN
    IF opts.page < last THEN {last} ELSE IF opts.page = last THEN {0} ELSE {0, last}

\* The total of a page that GitHub has filtered.
DirectTotal(lastPage, count) ==
    CASE lastPage > 0         -> Int64(lastPage * opts.perPage)
      [] lastPage = 0 /\ count < opts.perPage -> Int64((opts.page - 1) * opts.perPage + count)
      [] lastPage = 0 /\ count >= opts.perPage -> Int64(opts.page * opts.perPage)

\* listPullRequestsDirect: one page of GitHub is the answer.
ListDirect ==
    LET listing == Listing(pulls, opts.state) IN
    /\ pc = "read" /\ ~PostFilter
    /\ result' = PageOf(listing, opts.page, opts.perPage).items
    /\ \E lastPage \in LastPages(listing) : total' = DirectTotal(lastPage, Len(result'))
    /\ pc' = "done"
    /\ UNCHANGED <<pulls, opts, skip, ghPage, pagesQueried, before, arrived>>

\* Mutant of MayQuery: one page more than the cap.
OnePageMore == pagesQueried <= ghPostFilterMaxPages

\* May another page of GitHub be asked for?
MayQuery == pagesQueried < ghPostFilterMaxPages

\* Mutant of Skipped: what is skipped on one page is skipped on the next again.
SkipsAgain(count) == skip

\* What is left to skip after count matching pull requests.
Skipped(count) == IF skip <= count THEN (IF skip > 0 THEN 0 ELSE skip) ELSE skip - count

\* Mutant of FilledTotal: exactly what has been counted.
FilledExactly == Int64(opts.page * opts.perPage)

\* The total of a page that was filled: more may exist.
FilledTotal == Int64(opts.page * opts.perPage + 1)

\* Mutant of GhPageAfter: the same page is read again.
SameGhPage(resp) == ghPage

\* The page of GitHub to go on with.
GhPageAfter(resp) == resp.next

\* One turn of listPullRequestsWithPostFilter: a page of GitHub, filtered, less
\* what is to be skipped, up to what is needed.
QueryPage ==
    LET resp     == PageOf(Listing(pulls, opts.state), ghPage, ghPostFilterPageSize)
        matching == Only(resp.items, Matching(pulls))
        taken    == result \o SubSeq(matching, (IF skip > 0 THEN skip ELSE 0) + 1, Len(matching))
        filled   == Len(taken) >= opts.perPage IN
    /\ pc = "read" /\ PostFilter /\ MayQuery
    /\ pagesQueried' = pagesQueried + 1
    /\ skip' = Skipped(Len(matching))
    /\ result' = IF filled THEN SubSeq(taken, 1, opts.perPage) ELSE taken
    /\ IF filled
       THEN /\ total' = FilledTotal /\ pc' = "done" /\ UNCHANGED ghPage
       ELSE IF resp.next = 0
       THEN /\ total' = Int64((opts.page - 1) * opts.perPage + Len(result'))
            /\ pc' = "done" /\ UNCHANGED ghPage
       ELSE /\ ghPage' = GhPageAfter(resp) /\ UNCHANGED <<total, pc>>
    /\ UNCHANGED <<pulls, opts, before, arrived>>

\* The cap is reached: what there is, is the answer.
GiveUp ==
    /\ pc = "read" /\ PostFilter /\ ~MayQuery
    /\ total' = Int64((opts.page - 1) * opts.perPage + Len(result))
    /\ pc' = "done"
    /\ UNCHANGED <<pulls, opts, skip, result, ghPage, pagesQueried, before, arrived>>

\* GitHub answers with an error, or the request's context is done.
QueryFails ==
    /\ pc = "read"
    /\ pc' = "failed"
    /\ result' = <<>>
    /\ UNCHANGED <<pulls, opts, skip, ghPage, pagesQueried, total, before, arrived>>

Next ==
    \/ \E i \in 1 .. Len(pulls), state \in {"open", "closed", "merged"} : Change(i, state)
    \/ ListDirect
    \/ QueryPage
    \/ GiveUp
    \/ QueryFails

Spec == Init /\ [][Next]_vars

-----------------------------------------------------------------------------
(* Properties.                                                             *)

\* What the request asks for, when it came: of the pull requests GitHub lists,
\* and when they are filtered here, of those on the pages up to the cap.
Asked ==
    LET listing == Listing(before, opts.state)
        cap     == ghPostFilterMaxPages * ghPostFilterPageSize
        read    == IF PostFilter /\ Len(listing) > cap THEN SubSeq(listing, 1, cap) ELSE listing
    IN  Only(read, Matching(before))

\* Every variable keeps its type, and no more pages are asked for than the cap.
TypeOK ==
    /\ pulls \in [1 .. Len(before) -> {"open", "closed", "merged"}]
    /\ opts.page \in Nat \ {0} /\ opts.perPage \in 1 .. MaxPerPage
    /\ skip \in Int
    /\ result \in Seq(1 .. Len(pulls)) /\ Len(result) <= opts.perPage
    /\ ghPage \in Nat \ {0}
    /\ pagesQueried \in 0 .. ghPostFilterMaxPages
    /\ total \in Int
    /\ pc \in {"read", "done", "failed"}
    /\ arrived \subseteq {"open", "closed", "merged"}

\* The page asked for is one that an int can count to; nothing bounds it, and
\* beyond, what is to be skipped is negative and the first page is the answer.
Countable == opts.page * opts.perPage <= MaxInt

\* A repository nobody touches meanwhile: page n of the answers holds the
\* pull requests n-th by perPage of those asked for, so the pages of a client
\* that asks for all of them tile the list, though GitHub's own pages are cut
\* elsewhere.
WindowExact ==
    pc = "done" /\ arrived = {} /\ Countable
        => result = PageOf(Asked, opts.page, opts.perPage).items

\* A client that goes on while the total says there is more reads everything:
\* as long as there is a pull request beyond the page, the total is beyond it
\* too; and a page that is not full, yet not beyond the end, has the exact total.
TotalTellsMore ==
    pc = "done" /\ arrived = {} /\ Countable
        => /\ opts.page * opts.perPage < Len(Asked) => total > opts.page * opts.perPage
           /\ Len(result) \in 1 .. (opts.perPage - 1) => total = Len(Asked)

\* Unless one more is closed or merged meanwhile, which pushes the others to
\* GitHub's next page, no pull request comes twice and they stay in order.
OnceEach ==
    arrived \subseteq {"open"}
        => \A j, k \in 1 .. Len(result) : j < k => result[j] < result[k]
=============================================================================
