------------------------------ MODULE PageScan ------------------------------
(***************************************************************************)
(* Reading a whole listing page by page: the loops of pkg/github and       *)
(* pkg/bitbucket, and gitlab.Scan2 as internal/services/gitlab uses it.    *)
(*                                                                         *)
(* Pages are cut from the listing as it is when the page is asked for, so  *)
(* what other people add and remove meanwhile moves items across the page  *)
(* boundary.  An item is its creation number; a listing starts newest      *)
(* first, new jobs come in front, and new branches, groups and             *)
(* repositories where their name puts them.                                *)
(***************************************************************************)
EXTENDS Naturals, Sequences, SequencesExt, ProviderPages, Filtering

CONSTANTS Scanners,    \* the listings read here, a subset of AllScanners
          PageSize,    \* items of a full page
          maxJobsTotal,\* gitlab.maxJobsTotal
          Matching,    \* items whose name contains the keyword asked for
          MaxItems,    \* bound: items ever created
          MaxKept      \* bound: items of the result the model remembers

\* ScanGitHubList and Scan2 stand for the branches and organizations read with
\* them, filterRepositoriesByName for GitHub's repositories, ListRepositories
\* for GitLab's.
AllScanners == {"ScanGitHubList", "filterRepositoriesByName", "ScanBitbucketBranches",
                "Scan2", "ListPipelineJobs", "ListRepositories"}

ASSUME ScanAssumption ==
    /\ Scanners \subseteq AllScanners
    /\ PageSize \in Nat \ {0}
    /\ maxJobsTotal \in Nat \ {0}
    /\ Matching \subseteq Nat
    /\ MaxItems \in Nat
    /\ MaxKept \in Nat /\ MaxItems <= MaxKept

VARIABLES scanner,   \* the loop at work
          listing,   \* the provider's listing, newest first
          created,   \* items created so far
          page,      \* the page to ask for
          result,    \* what has been collected
          pc,        \* "fetch", "done" or "failed"
          start,     \* history: the listing when the scan began
          inserts,   \* history: an item was added since
          deletes    \* history: an item was removed since

vars == <<scanner, listing, created, page, result, pc, start, inserts, deletes>>

-----------------------------------------------------------------------------
\* Mutant of More: a response without a next page does not end the loop.
GoesOn(resp) == TRUE

\* Is there another page to ask for?
More(resp) == resp.next # 0

\* Mutants of NextPage: the page just read is asked for again; one is skipped.
SamePage(resp) == resp.page
SkipsPage(resp) == resp.next + 1

\* The page asked for next.  GitHub and Scan2 take the number the provider
\* names, Bitbucket adds one to the page it got; ListRepositories of GitLab
\* does not hand the pagination option on, and asks for page 1 again.
NextPage(resp) ==
    CASE scanner = "ScanBitbucketBranches" -> resp.page + 1
      [] scanner = "ListRepositories"      -> 1
      [] OTHER                             -> resp.next

\* The items that the result keeps.
Wanted == IF scanner = "filterRepositoriesByName" THEN Matching ELSE Nat

\* ListPipelineJobs stops at the cap.
Capped(items) == scanner = "ListPipelineJobs" /\ Len(items) >= maxJobsTotal

\* Mutant of Collect: the cap is looked at after the page, not in it.
CollectPage(items) == result \o Only(items, Wanted)

\* The items of a page are taken one by one, and none after the cap.
Collect(items) ==
    LET all == result \o Only(items, Wanted) IN
    IF Capped(all) THEN SubSeq(all, 1, maxJobsTotal) ELSE all

\* The collected items in the order they are returned: jobs by their number.
Arranged(items) ==
    IF scanner = "ListPipelineJobs" THEN Sorted(items) ELSE items

-----------------------------------------------------------------------------
Init ==
    /\ scanner \in Scanners
    /\ created \in 0 .. MaxItems
    /\ listing = [i \in 1 .. created |-> created + 1 - i]
    /\ page = 1
    /\ result = <<>>
    /\ pc = "fetch"
    /\ start = listing
    /\ inserts = FALSE
    /\ deletes = FALSE

\* Somebody creates an item; it is listed at place i.
Create(i) ==
    /\ pc = "fetch"
    /\ created < MaxItems
    /\ scanner = "ListPipelineJobs" => i = 1
    /\ created' = created + 1
    /\ listing' = InsertAt(listing, i, created + 1)
    /\ inserts' = TRUE
    /\ UNCHANGED <<scanner, page, result, pc, start, deletes>>

\* Somebody deletes the item at place i.
Delete(i) ==
    /\ pc = "fetch"
    /\ listing' = RemoveAt(listing, i)
    /\ deletes' = TRUE
    /\ UNCHANGED <<scanner, created, page, result, pc, start, inserts>>

\* One turn of the loop, and what follows the last one.
FetchPage ==
    LET resp == PageOf(listing, page, PageSize)
        all  == Collect(resp.items) IN
    /\ pc = "fetch"
    /\ IF More(resp) /\ ~Capped(all)
       THEN /\ page' = NextPage(resp)
            /\ result' = SubSeq(all, 1, IF Len(all) > MaxKept THEN MaxKept ELSE Len(all))
            /\ UNCHANGED pc
       ELSE /\ result' = Arranged(all)
            /\ pc' = "done"
            /\ UNCHANGED page
    /\ UNCHANGED <<scanner, listing, created, start, inserts, deletes>>

\* The request fails, or its context is done: what was collected is dropped.
FetchFails ==
    /\ pc = "fetch"
    /\ pc' = "failed"
    /\ result' = <<>>
    /\ UNCHANGED <<scanner, listing, created, page, start, inserts, deletes>>

Next ==
    \/ \E i \in 1 .. (Len(listing) + 1) : Create(i)
    \/ \E i \in 1 .. Len(listing) : Delete(i)
    \/ FetchPage
    \/ FetchFails

Spec == Init /\ [][Next]_vars

\* The loop goes on: nothing but the response stands between two turns of it.
\* A request need not fail, and a background refresh has no deadline.
FairSpec == Spec /\ WF_vars(FetchPage)

-----------------------------------------------------------------------------
(* Properties.                                                             *)

\* Every variable keeps its type, and an item is listed once.
TypeOK ==
    /\ scanner \in Scanners
    /\ created \in 0 .. MaxItems
    /\ IsInjective(listing) /\ ToSet(listing) \subseteq 1 .. created
    /\ page \in 1 .. (Len(start) + created + 1)
    /\ result \in Seq(1 .. created)
    /\ pc \in {"fetch", "done", "failed"}

\* Whatever is created while the pages are read, a scan that is not cut off at
\* the cap returns every wanted item that was listed when it began, unless
\* something was deleted: a deletion pulls an item over the page boundary.
NothingMissed ==
    pc = "done" /\ ~deletes /\ ~Capped(result)
        => \A k \in 1 .. Len(start) : start[k] \in Wanted => Contains(result, start[k])

\* As long as nothing is created, no item is collected twice, and the items are
\* read in the order of the listing the scan began with, whatever is deleted:
\* GitHub's and GitLab's answer names the page to go on with, Bitbucket's the
\* page it was.
NothingTwice ==
    ~inserts /\ (pc = "fetch" \/ scanner # "ListPipelineJobs")
        => \A j, k \in 1 .. Len(result) : j < k =>
               \E a, b \in 1 .. Len(start) :
                   a < b /\ start[a] = result[j] /\ start[b] = result[k]

\* A scan of a listing nobody changes returns the wanted part of it: for the
\* jobs of a pipeline the newest maxJobsTotal, oldest first.
Exact ==
    pc = "done" /\ ~inserts /\ ~deletes
        => result = LET all == Only(start, Wanted) IN
                    IF scanner = "ListPipelineJobs"
                    THEN Reverse(IF Len(all) > maxJobsTotal THEN SubSeq(all, 1, maxJobsTotal)
                                                            ELSE all)
                    ELSE all

\* A scan comes to an end, once others stop adding items: the page numbers
\* cannot run around.
ScanEnds == <>(pc # "fetch")
=============================================================================
