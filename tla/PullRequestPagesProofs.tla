----------------------- MODULE PullRequestPagesProofs -----------------------
(***************************************************************************)
(* Proofs about PullRequestPages, for any number of pull requests, pages   *)
(* of any size, any cap and whatever others close, merge and reopen.       *)
(***************************************************************************)
EXTENDS PullRequestPages, ListingLemmas

States == {"open", "closed", "merged"}

\* GitHub's listing now, and when the request came.
Now == Listing(pulls, opts.state)
Then == Listing(before, opts.state)

\* The number of pull requests on GitHub's pages before the one to ask for, the
\* number that is to be skipped in all, and what matches of the first n that
\* were listed.
At == (ghPage - 1) * ghPostFilterPageSize
ToSkip == (opts.page - 1) * opts.perPage
First(n) == Only(SubSeq(Then, 1, n), Matching(before))

\* Every variable has a type, and as long as nothing arrived nothing changed.
Typed ==
    /\ opts \in [state : {"open", "closed", "merged", "all"}, page : Nat \ {0},
                 perPage : 1 .. MaxPerPage]
    /\ Len(before) \in 0 .. MaxPulls
    /\ before \in [1 .. Len(before) -> States]
    /\ pulls \in [1 .. Len(before) -> States]
    /\ arrived \subseteq States /\ (arrived = {} => pulls = before)
    /\ skip \in Int /\ total \in Int
    /\ result \in Seq(1 .. Len(before)) /\ Len(result) <= opts.perPage
    /\ pc = "read" => Len(result) < opts.perPage
    /\ ghPage \in Nat \ {0} /\ pagesQueried \in 0 .. ghPostFilterMaxPages
    /\ pc \in {"read", "done", "failed"}

\* Unless one was closed or merged, the result is in order, and what is still to
\* come is behind what there is.
Ordered ==
    arrived \subseteq {"open"} =>
        /\ Increasing(result)
        /\ pc = "read" /\ PostFilter =>
               \A i \in 1 .. Len(result), j \in 1 .. Len(Now) : At < j => result[i] < Now[j]

\* The result is what matches on the pages read, less what is to be skipped,
\* and skip is what is left of that.
Reading ==
    pc = "read" /\ PostFilter /\ arrived = {} /\ Countable =>
        /\ ghPage = pagesQueried + 1
        /\ At <= Len(Then)
        /\ skip = IF Len(First(At)) <= ToSkip THEN ToSkip - Len(First(At)) ELSE 0
        /\ result = Rest(First(At), ToSkip)

Inv == Typed /\ Ordered /\ Reading /\ WindowExact /\ TotalTellsMore

-----------------------------------------------------------------------------
(* An int that is large enough, and GitHub's listing.                      *)
LEMMA IntType ==
    ASSUME NEW n \in Int
    PROVE  Int64(n) \in Int
  <1>1. n + (MaxInt + 1) \in Int /\ 2 * (MaxInt + 1) \in Nat \ {0} /\ MaxInt + 1 \in Nat
    BY PagesAssumption
  <1> DEFINE a == n + (MaxInt + 1)
             b == 2 * (MaxInt + 1)
  <1>2. a % b \in Int
    <2> HIDE DEF a, b
    <2>1. a \in Int /\ b \in Nat \ {0}
      BY <1>1 DEF a, b
    <2> QED
      BY <2>1
  <1> HIDE DEF a, b
  <1>3. Int64(n) = (a % b) - (MaxInt + 1)
    BY DEF Int64, a, b
  <1> QED
    BY <1>1, <1>2, <1>3

LEMMA Remainder ==
    ASSUME NEW m \in Nat \ {0}, NEW n \in Nat, n < m
    PROVE  n % m = n
  OBVIOUS

LEMMA IntExact ==
    ASSUME NEW n \in Nat, n <= MaxInt
    PROVE  Int64(n) = n
  <1>1. MaxInt \in Nat
    BY PagesAssumption
  <1>2. /\ n + (MaxInt + 1) \in Nat /\ 2 * (MaxInt + 1) \in Nat \ {0}
        /\ n + (MaxInt + 1) < 2 * (MaxInt + 1)
    BY <1>1
  <1>3. (n + (MaxInt + 1)) % (2 * (MaxInt + 1)) = n + (MaxInt + 1)
    BY <1>2, Remainder
  <1> QED
    BY <1>1, <1>3 DEF Int64

LEMMA LengthOf ==
    ASSUME NEW N \in Nat, NEW of \in [1 .. N -> States]
    PROVE  of \in Seq(States) /\ Len(of) = N
  OBVIOUS

\* The listing has numbers of pull requests, in ascending order.
LEMMA ListingFacts ==
    ASSUME NEW N \in Nat, NEW of \in [1 .. N -> States], NEW asked
    PROVE  /\ Listing(of, asked) \in Seq(1 .. N)
           /\ Len(Listing(of, asked)) \in Nat /\ Len(Listing(of, asked)) <= N
           /\ Increasing(Listing(of, asked))
  <1> DEFINE numbers == [i \in 1 .. N |-> i]
             S == {i \in 1 .. N : mapPullRequestStateToGitHub(asked, of[i])}
             X == 1 .. N
             listing == Only(numbers, S)
  <1>1. numbers \in Seq(X) /\ Len(numbers) = N /\ \A i \in 1 .. N : numbers[i] = i
    OBVIOUS
  <1>2. Listing(of, asked) = listing
    BY LengthOf DEF Listing
  <1> HIDE DEF numbers, S
  <1>3. listing \in Seq(X) /\ Len(listing) <= N
    BY <1>1, OnlyType
  <1>4. InOrder(numbers, listing)
    BY <1>1, OnlyInOrder
  <1> HIDE DEF listing
  <1>5. Len(listing) \in Nat
    BY <1>3, LenProperties
  <1>6. Increasing(listing)
    <2> SUFFICES ASSUME NEW j \in 1 .. Len(listing), NEW k \in 1 .. Len(listing), j < k
                 PROVE  listing[j] < listing[k]
      BY DEF Increasing
    <2>1. PICK a, b \in 1 .. N : a < b /\ numbers[a] = listing[j] /\ numbers[b] = listing[k]
      BY <1>1, <1>4 DEF InOrder
    <2> QED
      BY <1>1, <2>1
  <1> QED
    BY <1>2, <1>3, <1>5, <1>6

\* A closed pull request that is reopened leaves GitHub's listing of those, and
\* the others move forward.
LEMMA ReopenedLeaves ==
    ASSUME NEW N \in Nat, NEW of \in [1 .. N -> States], NEW asked \in {"closed", "merged"},
           NEW i \in 1 .. N
    PROVE  Behind(Listing(of, asked), Listing([of EXCEPT ![i] = "open"], asked))
  <1> DEFINE to == [of EXCEPT ![i] = "open"]
             numbers == [n \in 1 .. N |-> n]
             S == {n \in 1 .. N : mapPullRequestStateToGitHub(asked, of[n])}
             R == {n \in 1 .. N : mapPullRequestStateToGitHub(asked, to[n])}
             X == 1 .. N
  <1>1. numbers \in Seq(X)
    OBVIOUS
  <1>2. to \in [1 .. N -> States]
    BY DEF States
  <1>3. R \subseteq S
    <2>1. ASSUME NEW n \in R PROVE n \in S
      <3>1. to[n] # "open"
        BY DEF mapPullRequestStateToGitHub
      <3>2. of[n] = to[n]
        BY <3>1
      <3> QED
        BY <3>2
    <2> QED
      BY <2>1
  <1>4. Listing(of, asked) = Only(numbers, S)
    BY LengthOf DEF Listing
  <1> HIDE DEF to
  <1>5. Listing(to, asked) = Only(numbers, R)
    BY <1>2, LengthOf DEF Listing
  <1> HIDE DEF numbers, S, R
  <1>6. Behind(Only(numbers, S), Only(numbers, R))
    BY <1>1, <1>3, OnlyFewer
  <1> QED
    BY <1>4, <1>5, <1>6 DEF to

\* The number of the first item of a page.
LEMMA PlaceOf ==
    ASSUME NEW p \in Nat \ {0}, NEW size \in Nat
    PROVE  (p - 1) * size \in Nat /\ p * size = (p - 1) * size + size
  BY NextPlace

\* What the variables are.
LEMMA Kinds ==
    ASSUME Typed
    PROVE  /\ opts.state \in {"open", "closed", "merged", "all"}
           /\ opts.page \in Nat \ {0} /\ opts.perPage \in Nat \ {0}
           /\ opts.perPage <= MaxPerPage /\ MaxPerPage \in Nat
           /\ Len(before) \in Nat /\ Len(before) <= MaxPulls /\ MaxPulls \in Nat
           /\ Now \in Seq(1 .. Len(before)) /\ Len(Now) \in Nat /\ Len(Now) <= Len(before)
           /\ Increasing(Now)
           /\ Then \in Seq(1 .. Len(before)) /\ Len(Then) \in Nat /\ Len(Then) <= Len(before)
           /\ ToSkip \in Nat /\ opts.page * opts.perPage = ToSkip + opts.perPage
           /\ ghPostFilterPageSize \in Nat \ {0} /\ ghPostFilterMaxPages \in Nat \ {0}
           /\ At \in Nat /\ ghPage * ghPostFilterPageSize = At + ghPostFilterPageSize
           /\ Len(result) \in Nat /\ MaxInt \in Nat /\ MaxPulls + MaxPerPage <= MaxInt
  <1>1. /\ MaxPulls \in Nat /\ MaxPerPage \in Nat /\ MaxInt \in Nat
        /\ ghPostFilterPageSize \in Nat \ {0} /\ ghPostFilterMaxPages \in Nat \ {0}
        /\ MaxPulls + MaxPerPage <= MaxInt
    BY PagesAssumption
  <1>2. /\ opts.state \in {"open", "closed", "merged", "all"}
        /\ opts.page \in Nat \ {0} /\ opts.perPage \in Nat \ {0}
        /\ opts.perPage <= MaxPerPage
    BY <1>1 DEF Typed
  <1>3. /\ Len(before) \in Nat /\ Len(before) <= MaxPulls
        /\ before \in [1 .. Len(before) -> States] /\ pulls \in [1 .. Len(before) -> States]
    BY <1>1 DEF Typed
  <1> DEFINE N == Len(before)
  <1>4. /\ N \in Nat /\ before \in [1 .. N -> States] /\ pulls \in [1 .. N -> States]
    BY <1>3
  <1> HIDE DEF N
  <1>5. /\ Now \in Seq(1 .. N) /\ Len(Now) \in Nat /\ Len(Now) <= N /\ Increasing(Now)
    BY <1>4, ListingFacts DEF Now
  <1>6. /\ Then \in Seq(1 .. N) /\ Len(Then) \in Nat /\ Len(Then) <= N
    BY <1>4, ListingFacts DEF Then
  <1>7. ToSkip \in Nat /\ opts.page * opts.perPage = ToSkip + opts.perPage
    BY <1>2, PlaceOf DEF ToSkip
  <1>8. At \in Nat /\ ghPage * ghPostFilterPageSize = At + ghPostFilterPageSize
    <2>1. ghPage \in Nat \ {0}
      BY DEF Typed
    <2> QED
      BY <1>1, <2>1, PlaceOf DEF At
  <1>9. Len(result) \in Nat
    BY LenProperties DEF Typed
  <1> QED
    BY <1>1, <1>2, <1>3, <1>5, <1>6, <1>7, <1>8, <1>9 DEF N

-----------------------------------------------------------------------------
(* A request comes.                                                        *)
LEMMA Comes ==
    ASSUME Init
    PROVE  Inv
  <1>1. PICK n \in 0 .. MaxPulls : pulls \in [1 .. n -> States]
    BY DEF Init, States
  <1>2. /\ pulls \in [1 .. n -> States] /\ Len(pulls) = n /\ n \in Nat
    BY <1>1, PagesAssumption, LengthOf
  <1>3. /\ skip = Int64(ToSkip) /\ result = <<>> /\ ghPage = 1 /\ pagesQueried = 0
        /\ total = 0 /\ pc = "read" /\ before = pulls /\ arrived = {}
    BY DEF Init, ToSkip
  <1>4. opts \in [state : {"open", "closed", "merged", "all"}, page : Nat \ {0},
                  perPage : 1 .. MaxPerPage]
    <2>1. ASSUME NEW p \in RawPages PROVE ClampPage(p) \in Nat \ {0}
      BY PagesAssumption DEF ClampPage
    <2>2. ASSUME NEW pp \in RawPerPages PROVE ClampPerPage(pp) \in 1 .. MaxPerPage
      BY PagesAssumption DEF ClampPerPage
    <2> QED
      BY <2>1, <2>2 DEF Init
  <1>5. result \in Seq(1 .. Len(before)) /\ Len(result) = 0
    BY <1>3
  <1>6. /\ opts.page \in Nat \ {0} /\ opts.perPage \in 1 .. MaxPerPage
    BY <1>4
  <1>7. /\ opts.perPage \in Nat \ {0} /\ ToSkip \in Nat
        /\ opts.page * opts.perPage = ToSkip + opts.perPage
    BY <1>6, PagesAssumption, PlaceOf DEF ToSkip
  <1>8. Typed
    <2>1. skip \in Int /\ total \in Int
      BY <1>3, <1>7, IntType
    <2>2. /\ Len(result) <= opts.perPage /\ Len(result) < opts.perPage
      BY <1>5, <1>7
    <2>3. ghPage \in Nat \ {0} /\ pagesQueried \in 0 .. ghPostFilterMaxPages
      BY <1>3, PagesAssumption
    <2>4. Len(before) \in 0 .. MaxPulls /\ before \in [1 .. Len(before) -> States]
      BY <1>1, <1>2, <1>3
    <2> QED
      BY <1>3, <1>4, <1>5, <2>1, <2>2, <2>3, <2>4 DEF Typed
  <1>9. Ordered
    BY <1>5 DEF Ordered, Increasing
  <1>10. Reading
    <2> SUFFICES ASSUME Countable
                 PROVE  /\ At <= Len(Then)
                        /\ skip = IF Len(First(At)) <= ToSkip THEN ToSkip - Len(First(At)) ELSE 0
                        /\ result = Rest(First(At), ToSkip)
      BY <1>3 DEF Reading
    <2>1. At = 0 /\ Len(Then) \in Nat /\ Then \in Seq(1 .. Len(before))
      <3>1. At = 0
        BY <1>3, PagesAssumption DEF At
      <3> QED
        BY <1>8, <3>1, Kinds
    <2>2. First(At) = <<>>
      <3>1. SubSeq(Then, 1, 0) \in Seq(1 .. Len(before)) /\ Len(SubSeq(Then, 1, 0)) = 0
        BY <2>1, FirstOf
      <3>2. SubSeq(Then, 1, 0) = <<>>
        BY <3>1, EmptySeq
      <3> QED
        BY <2>1, <3>2, OnlyEmpty DEF First
    <2>3. skip = ToSkip
      <3>1. ToSkip <= MaxInt
        BY <1>7, PagesAssumption DEF Countable
      <3> QED
        BY <1>3, <1>7, <3>1, IntExact
    <2>4. Rest(<<>>, ToSkip) = <<>>
      <3>1. ToSkip \in Nat
        BY <1>7
      <3> QED
        BY <3>1, RestEmpty
    <2> QED
      BY <1>3, <1>5, <1>7, <2>1, <2>2, <2>3, <2>4
  <1>11. WindowExact /\ TotalTellsMore
    BY <1>3 DEF WindowExact, TotalTellsMore
  <1> QED
    BY <1>8, <1>9, <1>10, <1>11 DEF Inv

-----------------------------------------------------------------------------
(* What others do to the pull requests.                                    *)
LEMMA Changes ==
    ASSUME Inv, NEW i \in 1 .. Len(pulls), NEW state \in States, Change(i, state)
    PROVE  Inv'
  <1>1. Typed /\ Ordered
    BY DEF Inv
  <1>2. /\ pc = "read" /\ pulls' = [pulls EXCEPT ![i] = state] /\ arrived' = arrived \cup {state}
        /\ UNCHANGED <<opts, skip, result, ghPage, pagesQueried, total, pc, before>>
    BY DEF Change
  <1> DEFINE N == Len(before)
  <1>3. N \in Nat /\ pulls \in [1 .. N -> States] /\ i \in 1 .. N
    <2>1. N \in Nat /\ pulls \in [1 .. N -> States]
      BY <1>1, PagesAssumption DEF Typed
    <2>2. Len(pulls) = N
      <3> HIDE DEF N
      <3> QED
        BY <2>1, LengthOf
    <2> QED
      BY <2>1, <2>2
  <1>4. arrived' # {}
    BY <1>2
  <1>5. Typed'
    <2>1. pulls' \in [1 .. N -> States]
      <3> HIDE DEF N
      <3> QED
        BY <1>2, <1>3
    <2>2. arrived' \subseteq States
      BY <1>1, <1>2 DEF Typed
    <2> QED
      BY <1>1, <1>2, <1>4, <2>1, <2>2 DEF Typed
  <1>6. Ordered'
    <2> SUFFICES ASSUME arrived' \subseteq {"open"}
                 PROVE  /\ Increasing(result)
                        /\ PostFilter => \A n \in 1 .. Len(result), j \in 1 .. Len(Now') :
                                             At < j => result[n] < Now'[j]
      BY <1>2 DEF Ordered, At, PostFilter
    <2>1. arrived \subseteq {"open"} /\ state = "open"
      BY <1>2
    <2>2. Increasing(result)
      BY <1>1, <2>1 DEF Ordered
    <2>3. ASSUME PostFilter, NEW n \in 1 .. Len(result), NEW j \in 1 .. Len(Now'), At < j
          PROVE  result[n] < Now'[j]
      <3>1. opts.state \in {"closed", "merged"}
        BY <2>3 DEF PostFilter
      <3>2. Behind(Now, Now')
        <4>1. Behind(Listing(pulls, opts.state), Listing([pulls EXCEPT ![i] = "open"], opts.state))
          <5> HIDE DEF N
          <5> QED
            BY <1>3, <3>1, ReopenedLeaves
        <4>2. Now' = Listing([pulls EXCEPT ![i] = "open"], opts.state)
          BY <1>2, <2>1 DEF Now
        <4> QED
          BY <4>1, <4>2 DEF Now
      <3>3. PICK m \in 1 .. Len(Now) : j <= m /\ Now[m] = Now'[j]
        BY <3>2 DEF Behind
      <3>4. At < m
        <4>1. At \in Nat /\ Len(Now) \in Nat
          BY <1>1, Kinds
        <4>2. j \in Nat \/ j \notin Nat
          OBVIOUS
        <4>3. j \in Int
          OBVIOUS
        <4> QED
          BY <2>3, <3>3, <4>1, <4>3
      <3> QED
        BY <1>1, <1>2, <2>1, <2>3, <3>3, <3>4 DEF Ordered
    <2> QED
      BY <2>2, <2>3
  <1>7. Reading'
    BY <1>4 DEF Reading
  <1>8. WindowExact' /\ TotalTellsMore'
    BY <1>2 DEF WindowExact, TotalTellsMore
  <1> QED
    BY <1>5, <1>6, <1>7, <1>8 DEF Inv

-----------------------------------------------------------------------------
(* One page of GitHub is the answer.                                       *)
Direct == PageOf(Now, opts.page, opts.perPage).items

LEMMA DirectFacts ==
    ASSUME Typed
    PROVE  /\ Direct \in Seq(1 .. Len(before)) /\ Len(Direct) \in Nat
           /\ Len(Direct) <= opts.perPage /\ Increasing(Direct)
           /\ Len(Direct) = IF ToSkip + opts.perPage < Len(Now) THEN opts.perPage
                            ELSE IF ToSkip < Len(Now) THEN Len(Now) - ToSkip ELSE 0
  <1>1. /\ opts.page \in Nat \ {0} /\ opts.perPage \in Nat \ {0}
        /\ Now \in Seq(1 .. Len(before)) /\ Increasing(Now) /\ ToSkip \in Nat
    BY Kinds
  <1> DEFINE page == opts.page
             size == opts.perPage
             X == 1 .. Len(before)
  <1>2. page \in Nat \ {0} /\ size \in Nat \ {0} /\ Now \in Seq(X)
    BY <1>1
  <1> HIDE DEF page, size, X
  <1> DEFINE at == (page - 1) * size
             items == PageOf(Now, page, size).items
  <1>0. at = (page - 1) * size /\ items = PageOf(Now, page, size).items
    OBVIOUS
  <1> HIDE DEF at, items
  <1>3. /\ items \in Seq(X) /\ Len(items) <= size /\ Len(items) \in Nat
        /\ Len(items) = IF at + size < Len(Now) THEN size
                        ELSE IF at < Len(Now) THEN Len(Now) - at ELSE 0
        /\ \A j \in 1 .. Len(items) : at + j \in 1 .. Len(Now) /\ items[j] = Now[at + j]
    BY <1>0, <1>2, PageItems
  <1>4. Direct = items /\ ToSkip = at
    BY DEF Direct, ToSkip, page, size, items, at
  <1>5. /\ Direct \in Seq(X) /\ Len(Direct) <= size /\ Len(Direct) \in Nat
        /\ Len(Direct) = IF ToSkip + size < Len(Now) THEN size
                         ELSE IF ToSkip < Len(Now) THEN Len(Now) - ToSkip ELSE 0
        /\ \A j \in 1 .. Len(Direct) : ToSkip + j \in 1 .. Len(Now) /\ Direct[j] = Now[ToSkip + j]
    BY <1>3, <1>4
  <1>6. Increasing(Direct)
    <2> SUFFICES ASSUME NEW j \in 1 .. Len(Direct), NEW k \in 1 .. Len(Direct), j < k
                 PROVE  Direct[j] < Direct[k]
      BY DEF Increasing
    <2>1. ToSkip + j < ToSkip + k
      BY <1>1, <1>5
    <2> QED
      BY <1>1, <1>5, <2>1 DEF Increasing
  <1> QED
    BY <1>5, <1>6 DEF size, X

\* What is asked for of a state that GitHub filters by is what it lists.
LEMMA AskedDirect ==
    ASSUME Typed, ~PostFilter
    PROVE  Asked = Then
  <1> DEFINE N == Len(before)
             X == 1 .. N
  <1>1. Then \in Seq(X)
    BY Kinds
  <1>2. X \subseteq Matching(before)
    BY DEF Matching, matchesPullRequestStateFilter, PostFilter
  <1> HIDE DEF X
  <1>3. Only(Then, Matching(before)) = Then
    BY <1>1, <1>2, OnlyAll
  <1>4. Asked = Only(Then, Matching(before))
    BY DEF Asked, Then
  <1> QED
    BY <1>3, <1>4

\* The total of a page of GitHub tells that there is more, and how many there
\* are when it is the last one.
LEMMA DirectTotals ==
    ASSUME Typed, NEW lastPage \in LastPages(Now)
    PROVE  /\ DirectTotal(lastPage, Len(Direct)) \in Int
           /\ opts.page * opts.perPage < Len(Now)
                  => DirectTotal(lastPage, Len(Direct)) > opts.page * opts.perPage
           /\ Len(Direct) \in 1 .. (opts.perPage - 1)
                  => DirectTotal(lastPage, Len(Direct)) = Len(Now)
  <1> DEFINE last == PageCount(Now, opts.perPage)
             size == opts.perPage
             page == opts.page
             count == Len(Direct)
             len == Len(Now)
  <1>1. /\ page \in Nat \ {0} /\ size \in Nat \ {0} /\ len \in Nat /\ ToSkip \in Nat
        /\ MaxInt \in Nat /\ len + size <= MaxInt /\ page * size = ToSkip + size
    <2>1. /\ opts.page \in Nat \ {0} /\ opts.perPage \in Nat \ {0}
          /\ opts.perPage <= MaxPerPage /\ MaxPerPage \in Nat
          /\ Len(before) \in Nat /\ Len(before) <= MaxPulls /\ MaxPulls \in Nat
          /\ Len(Now) \in Nat /\ Len(Now) <= Len(before) /\ ToSkip \in Nat
          /\ MaxInt \in Nat /\ MaxPulls + MaxPerPage <= MaxInt
          /\ opts.page * opts.perPage = ToSkip + opts.perPage
      BY Kinds
    <2> QED
      BY <2>1
  <1>2. /\ count \in Nat
        /\ count = IF ToSkip + size < len THEN size ELSE IF ToSkip < len THEN len - ToSkip ELSE 0
    BY DirectFacts
  <1>3. last \in Nat /\ size * last <= len + size - 1 /\ len + size - 1 < size * last + size
    <2>1. len + size - 1 \in Nat
      BY <1>1
    <2>2. last = (len + size - 1) \div size
      BY DEF PageCount
    <2> HIDE DEF last, len, size
    <2> QED
      BY <1>1, <2>1, <2>2, Quotient
  <1>4. lastPage \in {0, last}
    BY DEF LastPages
  <1>5. /\ page < last => lastPage = last
        /\ page = last => lastPage = 0
    BY <1>1, <1>3 DEF LastPages
  <1>6. /\ DirectTotal(lastPage, count) =
               IF lastPage > 0 THEN Int64(lastPage * size)
               ELSE IF count < size THEN Int64(ToSkip + count) ELSE Int64(page * size)
    BY <1>1, <1>2, <1>3, <1>4 DEF DirectTotal, ToSkip
  <1> HIDE DEF last, size, page, count, len
  <1>7. /\ last * size \in Nat /\ last * size = size * last
        /\ page * size \in Nat /\ (page < last => page * size + size <= last * size)
        /\ (last < page => last * size <= ToSkip)
    <2>1. last * size \in Nat /\ last * size = size * last /\ page * size \in Nat
      BY <1>1, <1>3, Product
    <2>2. (page + 1) * size = page * size + size /\ page + 1 \in Nat
      BY <1>1, NextPlace
    <2>3. ASSUME page < last PROVE page * size + size <= last * size
      <3>1. page + 1 <= last
        BY <1>1, <1>3, <2>3
      <3> QED
        BY <1>1, <1>3, <2>2, <3>1, Product
    <2>4. ASSUME last < page PROVE last * size <= ToSkip
      <3>1. last <= page - 1 /\ page - 1 \in Nat
        BY <1>1, <1>3, <2>4
      <3>2. last * size <= (page - 1) * size
        BY <1>1, <1>3, <3>1, Product
      <3> QED
        BY <3>2 DEF ToSkip, page, size
    <2> QED
      BY <2>1, <2>3, <2>4
  <1>8. lastPage * size \in Nat
    <2>1. lastPage \in Nat
      BY <1>3, <1>4
    <2> QED
      BY <1>1, <2>1, Product
  <1>9. DirectTotal(lastPage, count) \in Int
    <2>1. lastPage * size \in Int /\ ToSkip + count \in Int /\ page * size \in Int
      BY <1>1, <1>2, <1>7, <1>8
    <2> QED
      BY <1>6, <2>1, IntType
  <1>10. CASE page < last
    <2>1. lastPage = last /\ lastPage > 0
      BY <1>1, <1>3, <1>5, <1>10
    <2>2. last * size <= MaxInt
      BY <1>1, <1>3, <1>7
    <2>3. DirectTotal(lastPage, count) = last * size
      BY <1>6, <1>7, <2>1, <2>2, IntExact
    <2>4. page * size < len
      BY <1>1, <1>3, <1>7, <1>10
    <2>5. count = size
      BY <1>1, <1>2, <2>4
    <2>6. DirectTotal(lastPage, count) > page * size
      BY <1>1, <1>7, <1>10, <2>3
    <2> QED
      BY <1>1, <1>9, <2>5, <2>6 DEF page, size, count, len
  <1>11. CASE page = last
    <2>1. lastPage = 0
      BY <1>5, <1>11
    <2>2. ~(page * size < len)
      BY <1>1, <1>3, <1>7, <1>11
    <2>3. ASSUME count \in 1 .. (size - 1) PROVE DirectTotal(lastPage, count) = len
      <3>1. count < size /\ ToSkip + count = len
        BY <1>1, <1>2, <2>3
      <3>2. len <= MaxInt
        BY <1>1
      <3> QED
        BY <1>1, <1>6, <2>1, <3>1, <3>2, IntExact
    <2> QED
      BY <1>9, <2>2, <2>3 DEF page, size, count, len
  <1>12. CASE last < page
    <2>1. len <= ToSkip
      BY <1>1, <1>3, <1>7, <1>12
    <2>2. count = 0 /\ ~(page * size < len)
      BY <1>1, <1>2, <2>1
    <2> QED
      BY <1>1, <1>9, <2>2 DEF page, size, count, len
  <1> QED
    BY <1>1, <1>3, <1>10, <1>11, <1>12

LEMMA Directly ==
    ASSUME Inv, ListDirect
    PROVE  Inv'
  <1>1. Typed /\ Ordered /\ pc = "read" /\ ~PostFilter
    BY DEF Inv, ListDirect
  <1>2. /\ result' = Direct /\ pc' = "done"
        /\ \E lastPage \in LastPages(Now) : total' = DirectTotal(lastPage, Len(result'))
        /\ UNCHANGED <<pulls, opts, skip, ghPage, pagesQueried, before, arrived>>
    BY DEF ListDirect, Direct, Now
  <1>3. PICK lastPage \in LastPages(Now) : total' = DirectTotal(lastPage, Len(Direct))
    BY <1>2
  <1>4. /\ total' \in Int
        /\ opts.page * opts.perPage < Len(Now) => total' > opts.page * opts.perPage
        /\ Len(Direct) \in 1 .. (opts.perPage - 1) => total' = Len(Now)
    BY <1>1, <1>3, DirectTotals
  <1>5. /\ Direct \in Seq(1 .. Len(before)) /\ Len(Direct) <= opts.perPage
        /\ Increasing(Direct)
    BY <1>1, DirectFacts
  <1>6. Typed'
    BY <1>1, <1>2, <1>4, <1>5 DEF Typed
  <1>7. Ordered' /\ Reading'
    BY <1>2, <1>5 DEF Ordered, Reading
  <1>8. Asked' = Asked /\ Asked = Then /\ (arrived = {} => Now = Then)
    <2>1. Asked' = Asked
      BY <1>2 DEF Asked, PostFilter, Matching
    <2>2. arrived = {} => Now = Then
      BY <1>1 DEF Typed, Now, Then
    <2> QED
      BY <1>1, <2>1, <2>2, AskedDirect
  <1>9. WindowExact'
    BY <1>2, <1>8 DEF WindowExact, Direct
  <1>10. TotalTellsMore'
    BY <1>2, <1>4, <1>8 DEF TotalTellsMore
  <1> QED
    BY <1>6, <1>7, <1>9, <1>10 DEF Inv

-----------------------------------------------------------------------------
(* A page of GitHub, filtered.                                             *)
Here == PageOf(Now, ghPage, ghPostFilterPageSize)
Matches == Only(Here.items, Matching(pulls))
Left == IF skip > 0 THEN skip ELSE 0
Taken == result \o Rest(Matches, Left)

\* The page that is read.
LEMMA PageRead ==
    ASSUME Typed
    PROVE  /\ Here.next = IF At + ghPostFilterPageSize < Len(Now) THEN ghPage + 1 ELSE 0
           /\ Here.items \in Seq(1 .. Len(before)) /\ Len(Here.items) \in Nat
           /\ Len(Here.items) <= ghPostFilterPageSize
           /\ Len(Here.items) = IF At + ghPostFilterPageSize < Len(Now) THEN ghPostFilterPageSize
                                ELSE IF At < Len(Now) THEN Len(Now) - At ELSE 0
           /\ \A j \in 1 .. Len(Here.items) :
                  At + j \in 1 .. Len(Now) /\ Here.items[j] = Now[At + j]
  <1>1. /\ ghPage \in Nat \ {0} /\ ghPostFilterPageSize \in Nat \ {0}
        /\ Now \in Seq(1 .. Len(before))
    BY Kinds DEF Typed
  <1> QED
    BY <1>1, PageFacts DEF Here, At

\* What is taken of it, behind what there is.
LEMMA TakenFacts ==
    ASSUME Typed
    PROVE  /\ Matches \in Seq(1 .. Len(before)) /\ Len(Matches) \in Nat /\ Left \in Nat
           /\ Rest(Matches, Left) \in Seq(1 .. Len(before)) /\ Len(Rest(Matches, Left)) \in Nat
           /\ \A i \in 1 .. Len(Rest(Matches, Left)) :
                  Left + i \in 1 .. Len(Matches) /\ Rest(Matches, Left)[i] = Matches[Left + i]
           /\ Taken \in Seq(1 .. Len(before)) /\ Len(Taken) \in Nat
           /\ Len(Taken) = Len(result) + Len(Rest(Matches, Left))
           /\ \A i \in 1 .. Len(Taken) :
                  Taken[i] = IF i <= Len(result) THEN result[i]
                             ELSE Rest(Matches, Left)[i - Len(result)]
  <1> DEFINE X == 1 .. Len(before)
             rest == Rest(Matches, Left)
  <1>1. result \in Seq(X) /\ Here.items \in Seq(X)
    BY PageRead DEF Typed
  <1>2. Left \in Nat
    BY DEF Typed, Left
  <1> HIDE DEF X
  <1>3. Matches \in Seq(X)
    BY <1>1, OnlyType DEF Matches
  <1>4. /\ rest \in Seq(X)
        /\ \A i \in 1 .. Len(rest) : Left + i \in 1 .. Len(Matches) /\ rest[i] = Matches[Left + i]
    BY <1>2, <1>3, RestFacts
  <1> HIDE DEF rest
  <1>5. Len(Matches) \in Nat /\ Len(rest) \in Nat /\ Len(result) \in Nat
    BY <1>1, <1>3, <1>4, LenProperties
  <1>6. /\ result \o rest \in Seq(X) /\ Len(result \o rest) = Len(result) + Len(rest)
        /\ \A i \in 1 .. Len(result) + Len(rest) :
              (result \o rest)[i] = IF i <= Len(result) THEN result[i] ELSE rest[i - Len(result)]
    BY <1>1, <1>4, ConcatProperties
  <1>7. Taken = result \o rest
    BY DEF Taken, rest
  <1>8. Len(Taken) \in Nat
    BY <1>5, <1>6, <1>7
  <1> QED
    BY <1>2, <1>3, <1>4, <1>5, <1>6, <1>7, <1>8 DEF X, rest

\* Unless one was closed or merged, it is behind what there is, and before what
\* is still to come.
LEMMA QueryOrders ==
    ASSUME Typed, Ordered, pc = "read", PostFilter, arrived \subseteq {"open"}
    PROVE  /\ Increasing(Taken)
           /\ \A i \in 1 .. Len(Taken), j \in 1 .. Len(Now) :
                  At + ghPostFilterPageSize < j => Taken[i] < Now[j]
  <1> DEFINE rest == Rest(Matches, Left)
             size == ghPostFilterPageSize
  <1>1. /\ \A j, k \in 1 .. Len(result) : j < k => result[j] < result[k]
        /\ \A i \in 1 .. Len(result), j \in 1 .. Len(Now) : At < j => result[i] < Now[j]
    BY DEF Ordered, Increasing
  <1>2. \A j, k \in 1 .. Len(Now) : j < k => Now[j] < Now[k]
    BY Kinds DEF Increasing
  <1>3. /\ At \in Nat /\ size \in Nat /\ Len(Here.items) \in Nat /\ Len(Here.items) <= size
        /\ Here.items \in Seq(1 .. Len(before)) /\ Len(result) \in Nat /\ Len(Now) \in Nat
        /\ \A j \in 1 .. Len(Here.items) :
               At + j \in 1 .. Len(Now) /\ Here.items[j] = Now[At + j]
    BY PageRead, Kinds
  <1>4. From(Here.items, Matches) /\ InOrder(Here.items, Matches)
    BY <1>3, OnlyInOrder DEF Matches
  <1>5. /\ Left \in Nat /\ Len(Matches) \in Nat /\ Len(rest) \in Nat
        /\ \A i \in 1 .. Len(rest) : Left + i \in 1 .. Len(Matches) /\ rest[i] = Matches[Left + i]
        /\ Len(Taken) = Len(result) + Len(rest)
        /\ \A i \in 1 .. Len(Taken) :
              Taken[i] = IF i <= Len(result) THEN result[i] ELSE rest[i - Len(result)]
    BY TakenFacts
  <1> HIDE DEF rest
  <1>6. ASSUME NEW k \in 1 .. Len(rest)
        PROVE  \E a \in 1 .. Len(Now) : At < a /\ a <= At + size /\ Now[a] = rest[k]
    <2>1. PICK a \in 1 .. Len(Here.items) : Here.items[a] = Matches[Left + k]
      BY <1>4, <1>5 DEF From
    <2>2. At + a \in 1 .. Len(Now) /\ At < At + a /\ At + a <= At + size
      BY <1>3
    <2>3. Now[At + a] = rest[k]
      BY <1>3, <1>5, <2>1
    <2> QED
      BY <2>2, <2>3
  <1>7. ASSUME NEW j \in 1 .. Len(rest), NEW k \in 1 .. Len(rest), j < k
        PROVE  rest[j] < rest[k]
    <2>1. Left + j \in 1 .. Len(Matches) /\ Left + k \in 1 .. Len(Matches) /\ Left + j < Left + k
      BY <1>5, <1>7
    <2>2. PICK a, b \in 1 .. Len(Here.items) :
              a < b /\ Here.items[a] = Matches[Left + j] /\ Here.items[b] = Matches[Left + k]
      BY <1>4, <2>1 DEF InOrder
    <2>3. /\ At + a \in 1 .. Len(Now) /\ At + b \in 1 .. Len(Now)
          /\ Here.items[a] = Now[At + a] /\ Here.items[b] = Now[At + b]
      BY <1>3
    <2>4. At + a < At + b
      BY <1>3, <2>2
    <2>5. Now[At + a] < Now[At + b]
      BY <1>2, <2>3, <2>4
    <2> QED
      BY <1>5, <2>2, <2>3, <2>5
  <1>8. ASSUME NEW i \in 1 .. Len(result), NEW k \in 1 .. Len(rest)
        PROVE  result[i] < rest[k]
    BY <1>1, <1>6
  <1>9. Increasing(Taken)
    <2> SUFFICES ASSUME NEW j \in 1 .. Len(Taken), NEW k \in 1 .. Len(Taken), j < k
                 PROVE  Taken[j] < Taken[k]
      BY DEF Increasing
    <2>1. CASE k <= Len(result)
      <3>1. j \in 1 .. Len(result) /\ k \in 1 .. Len(result) /\ j <= Len(result)
        BY <1>3, <1>5, <2>1
      <3> QED
        BY <1>1, <1>5, <2>1, <3>1
    <2>2. CASE j <= Len(result) /\ ~(k <= Len(result))
      <3>1. j \in 1 .. Len(result) /\ k - Len(result) \in 1 .. Len(rest)
        BY <1>3, <1>5, <2>2
      <3> QED
        BY <1>5, <1>8, <2>2, <3>1
    <2>3. CASE ~(j <= Len(result))
      <3>1. /\ j - Len(result) \in 1 .. Len(rest) /\ k - Len(result) \in 1 .. Len(rest)
            /\ j - Len(result) < k - Len(result) /\ ~(k <= Len(result))
        BY <1>3, <1>5, <2>3
      <3> QED
        BY <1>5, <1>7, <2>3, <3>1
    <2> QED
      BY <2>1, <2>2, <2>3
  <1>10. ASSUME NEW i \in 1 .. Len(Taken), NEW j \in 1 .. Len(Now), At + size < j
         PROVE  Taken[i] < Now[j]
    <2>1. CASE i <= Len(result)
      <3>1. i \in 1 .. Len(result) /\ At < j
        BY <1>3, <1>5, <1>10, <2>1
      <3> QED
        BY <1>1, <1>5, <2>1, <3>1
    <2>2. CASE ~(i <= Len(result))
      <3>1. i - Len(result) \in 1 .. Len(rest)
        BY <1>3, <1>5, <2>2
      <3>2. PICK a \in 1 .. Len(Now) : a <= At + size /\ Now[a] = rest[i - Len(result)]
        BY <1>6, <3>1
      <3>3. a < j
        BY <1>3, <1>10, <3>2
      <3> QED
        BY <1>2, <1>5, <2>2, <3>2, <3>3
    <2> QED
      BY <2>1, <2>2
  <1> QED
    BY <1>9, <1>10

\* Of a repository nobody touches, it is what matches on the pages read with this
\* one, less what is to be skipped.
LEMMA QueryExact ==
    ASSUME Typed, Now = Then, Matching(pulls) = Matching(before), At <= Len(Then),
           skip = IF Len(First(At)) <= ToSkip THEN ToSkip - Len(First(At)) ELSE 0,
           result = Rest(First(At), ToSkip)
    PROVE  LET n == At + Len(Here.items) IN
           /\ n \in Nat /\ n <= Len(Then) /\ n <= At + ghPostFilterPageSize
           /\ Here.next = 0 => n = Len(Then)
           /\ Here.next # 0 => n = At + ghPostFilterPageSize /\ Here.next = ghPage + 1
           /\ First(n) \in Seq(1 .. Len(before)) /\ Len(First(n)) \in Nat /\ Len(First(n)) <= n
           /\ Taken = Rest(First(n), ToSkip)
           /\ Skipped(Len(Matches)) = IF Len(First(n)) <= ToSkip THEN ToSkip - Len(First(n)) ELSE 0
  <1> DEFINE n == At + Len(Here.items)
             X == 1 .. Len(before)
             upto == SubSeq(Then, 1, At)
             with == SubSeq(Then, 1, n)
             items == Here.items
             M == Matching(before)
  <1>1. /\ At \in Nat /\ Len(Then) \in Nat /\ Then \in Seq(X) /\ ToSkip \in Nat
        /\ ghPostFilterPageSize \in Nat \ {0} /\ ghPage \in Nat \ {0}
    BY Kinds DEF Typed
  <1>2. /\ Here.next = IF At + ghPostFilterPageSize < Len(Then) THEN ghPage + 1 ELSE 0
        /\ items \in Seq(X) /\ Len(items) \in Nat /\ Len(items) <= ghPostFilterPageSize
        /\ Len(items) = IF At + ghPostFilterPageSize < Len(Then) THEN ghPostFilterPageSize
                        ELSE IF At < Len(Then) THEN Len(Then) - At ELSE 0
        /\ \A j \in 1 .. Len(items) : At + j \in 1 .. Len(Then) /\ items[j] = Then[At + j]
    BY PageRead
  <1>3. /\ n \in Nat /\ n <= Len(Then) /\ n <= At + ghPostFilterPageSize
        /\ Here.next = 0 => n = Len(Then)
        /\ Here.next # 0 => n = At + ghPostFilterPageSize /\ Here.next = ghPage + 1
    <2> HIDE DEF items
    <2>1. n = At + Len(items)
      BY DEF items
    <2> HIDE DEF n
    <2>2. CASE At + ghPostFilterPageSize < Len(Then)
      BY <1>1, <1>2, <2>1, <2>2
    <2>3. CASE ~(At + ghPostFilterPageSize < Len(Then))
      <3>1. Here.next = 0
        BY <1>2, <2>3
      <3> QED
        BY <1>1, <1>2, <2>1, <2>3, <3>1
    <2> QED
      BY <2>2, <2>3
  <1> HIDE DEF n, X, items
  <1>4. upto \in Seq(X) /\ Len(upto) = At /\ \A i \in 1 .. At : upto[i] = Then[i]
    BY <1>1, FirstOf
  <1>5. with \in Seq(X) /\ Len(with) = n /\ \A i \in 1 .. n : with[i] = Then[i]
    BY <1>1, <1>3, FirstOf
  <1> HIDE DEF upto, with
  <1>6. upto \o items = with
    <2> DEFINE all == upto \o items
    <2>1. /\ all \in Seq(X) /\ Len(all) = Len(upto) + Len(items)
          /\ \A i \in 1 .. Len(upto) + Len(items) :
                 all[i] = IF i <= Len(upto) THEN upto[i] ELSE items[i - Len(upto)]
      BY <1>2, <1>4, ConcatProperties
    <2> HIDE DEF all
    <2>2. Len(all) = n /\ n = At + Len(items)
      BY <1>4, <2>1 DEF n, items
    <2>3. ASSUME NEW i \in 1 .. n PROVE all[i] = with[i]
      <3>1. i \in 1 .. Len(upto) + Len(items)
        BY <1>4, <2>2
      <3>2. CASE i <= At
        <4>1. i \in 1 .. At
          BY <1>1, <1>3, <3>2
        <4> QED
          BY <1>4, <1>5, <2>1, <2>3, <3>1, <3>2, <4>1
      <3>3. CASE ~(i <= At)
        <4>1. i - At \in 1 .. Len(items) /\ At + (i - At) = i
          BY <1>1, <1>2, <1>3, <2>2, <3>3
        <4>2. items[i - At] = Then[i]
          BY <1>2, <4>1
        <4> QED
          BY <1>4, <1>5, <2>1, <2>3, <3>1, <3>3, <4>2
      <3> QED
        BY <3>2, <3>3
    <2>4. all = with
      BY <1>5, <2>1, <2>2, <2>3, SeqEqual
    <2> QED
      BY <2>4 DEF all
  <1>7. First(At) = Only(upto, M) /\ First(n) = Only(with, M) /\ Matches = Only(items, M)
    BY DEF First, upto, with, Matches, items
  <1> HIDE DEF M
  <1>8. First(n) = First(At) \o Matches
    <2>1. Only(upto \o items, M) = Only(upto, M) \o Only(items, M)
      BY <1>2, <1>4, OnlyConcat
    <2> QED
      BY <1>6, <1>7, <2>1
  <1>9. First(At) \in Seq(X) /\ Matches \in Seq(X)
    <2>1. upto \in Seq(X) /\ items \in Seq(X)
      BY <1>2, <1>4
    <2>2. Only(upto, M) \in Seq(X)
      BY <2>1, OnlyType
    <2>3. Only(items, M) \in Seq(X)
      BY <2>1, OnlyType
    <2> QED
      BY <1>7, <2>2, <2>3
  <1>10. /\ First(n) \in Seq(X) /\ Len(First(n)) = Len(First(At)) + Len(Matches)
    BY <1>8, <1>9, ConcatProperties
  <1>11. Len(First(n)) <= n
    BY <1>5, <1>7, OnlyType
  <1> DEFINE a == First(At)
             b == Matches
             m == IF ToSkip <= Len(a) THEN 0 ELSE ToSkip - Len(a)
  <1>12. Len(a) \in Nat /\ Len(b) \in Nat /\ Len(First(n)) \in Nat
    BY <1>9, <1>10, LenProperties
  <1>13. Left = m
    <2> HIDE DEF a
    <2>1. skip = IF Len(a) <= ToSkip THEN ToSkip - Len(a) ELSE 0
      BY DEF a
    <2> QED
      BY <1>1, <1>12, <2>1 DEF Left
  <1>14. Taken = Rest(First(n), ToSkip)
    <2>1. Rest(a \o b, ToSkip) = Rest(a, ToSkip) \o Rest(b, m)
      <3> HIDE DEF a, b
      <3>1. a \in Seq(X) /\ b \in Seq(X)
        BY <1>9 DEF a, b
      <3> QED
        BY <1>1, <3>1, RestJoined
    <2>2. result = Rest(a, ToSkip) /\ Taken = result \o Rest(b, Left) /\ First(n) = a \o b
      BY <1>8 DEF Taken
    <2> HIDE DEF a, b, m
    <2> QED
      BY <1>13, <2>1, <2>2
  <1>15. Skipped(Len(Matches)) = IF Len(First(n)) <= ToSkip THEN ToSkip - Len(First(n)) ELSE 0
    <2> HIDE DEF a, b, m
    <2>1. /\ skip = IF Len(a) <= ToSkip THEN ToSkip - Len(a) ELSE 0
          /\ Len(First(n)) = Len(a) + Len(b)
      BY <1>10 DEF a, b
    <2>2. Skipped(Len(b)) = IF Len(First(n)) <= ToSkip THEN ToSkip - Len(First(n)) ELSE 0
      BY <1>1, <1>12, <2>1 DEF Skipped
    <2> QED
      BY <2>2 DEF b
  <1> QED
    BY <1>3, <1>10, <1>11, <1>12, <1>14, <1>15 DEF n, X

\* What is asked for begins with what matches of the first n, and that is all of
\* it at the end of the listing and at the cap.
LEMMA AskedFirst ==
    ASSUME Typed, PostFilter, NEW n \in Nat, n <= Len(Then),
           n <= ghPostFilterMaxPages * ghPostFilterPageSize
    PROVE  /\ Asked \in Seq(1 .. Len(before)) /\ Len(Asked) \in Nat /\ Len(Asked) <= Len(Then)
           /\ Len(First(n)) <= Len(Asked)
           /\ \A i \in 1 .. Len(First(n)) : Asked[i] = First(n)[i]
           /\ n = Len(Then) \/ n = ghPostFilterMaxPages * ghPostFilterPageSize
                  => Asked = First(n)
  <1> DEFINE cap == ghPostFilterMaxPages * ghPostFilterPageSize
             m == IF Len(Then) > cap THEN cap ELSE Len(Then)
             X == 1 .. Len(before)
             M == Matching(before)
             first == SubSeq(Then, 1, n)
             rest == SubSeq(Then, n + 1, m)
             read == SubSeq(Then, 1, m)
  <1>1. /\ Then \in Seq(X) /\ Len(Then) \in Nat
    BY Kinds
  <1>2. cap \in Nat
    BY Product, PagesAssumption
  <1>3. Asked = Only(IF Len(Then) > cap THEN SubSeq(Then, 1, cap) ELSE Then, M)
    BY DEF Asked, Then
  <1> HIDE DEF cap, X
  <1>4. m \in Nat /\ n <= m /\ m <= Len(Then) /\ (n = Len(Then) \/ n = cap => n = m)
    BY <1>1, <1>2 DEF cap
  <1>5. read = IF Len(Then) > cap THEN SubSeq(Then, 1, cap) ELSE Then
    BY <1>1, SubSeqFull
  <1> HIDE DEF m
  <1>6. first \in Seq(X) /\ Len(first) = n
    BY <1>1, FirstOf
  <1>7. read \in Seq(X) /\ Len(read) = m
    BY <1>1, <1>4, FirstOf
  <1>8. rest \in Seq(X)
    <2>1. \A i \in n + 1 .. m : Then[i] \in X
      BY <1>1, <1>4, ElementOfSeq
    <2> QED
      BY <1>4, <2>1, SubSeqProperties
  <1>9. first \o rest = read
    <2>1. 1 \in 1 .. Len(Then) + 1 /\ n \in 1 - 1 .. Len(Then) /\ m \in n .. Len(Then)
      BY <1>1, <1>4
    <2> QED
      BY <1>1, <2>1, ConcatAdjacentSubSeq
  <1>10. Asked = Only(read, M) /\ First(n) = Only(first, M)
    BY <1>3, <1>5 DEF First
  <1>11. n = m => Asked = First(n)
    BY <1>10
  <1> HIDE DEF first, rest, read, M
  <1>12. Asked = First(n) \o Only(rest, M)
    <2>1. Only(first \o rest, M) = Only(first, M) \o Only(rest, M)
      BY <1>6, <1>8, OnlyConcat
    <2> QED
      BY <1>9, <1>10, <2>1
  <1> DEFINE a == First(n)
             b == Only(rest, M)
  <1>13. a \in Seq(X) /\ b \in Seq(X)
    BY <1>6, <1>8, <1>10, OnlyType
  <1>14. Asked \in Seq(X) /\ Len(Asked) <= m
    BY <1>7, <1>10, OnlyType
  <1> HIDE DEF a, b
  <1>15. /\ Len(a \o b) = Len(a) + Len(b)
         /\ \A i \in 1 .. Len(a) + Len(b) : (a \o b)[i] = IF i <= Len(a) THEN a[i] ELSE b[i - Len(a)]
    BY <1>13, ConcatProperties
  <1>16. Len(a) \in Nat /\ Len(b) \in Nat /\ Len(Asked) \in Nat
    BY <1>13, <1>14, LenProperties
  <1>17. Asked = a \o b
    BY <1>12 DEF a, b
  <1>18. Len(a) <= Len(Asked) /\ \A i \in 1 .. Len(a) : Asked[i] = a[i]
    BY <1>15, <1>16, <1>17
  <1>19. Len(Asked) <= Len(Then)
    BY <1>1, <1>4, <1>14, <1>16
  <1> QED
    BY <1>4, <1>11, <1>14, <1>16, <1>18, <1>19 DEF a, X, cap

-----------------------------------------------------------------------------
(* The answer of the filtered pages.                                       *)

\* When the page is what is left of all that is asked for, and not full, it is the
\* page asked for, and the total is exact or nothing is beyond the page.
LEMMA LastAnswer ==
    ASSUME Typed, PostFilter, Asked \in Seq(1 .. Len(before)), Len(Asked) \in Nat,
           Len(Asked) <= Len(Then), NEW r, r = Rest(Asked, ToSkip), ~(Len(r) >= opts.perPage)
    PROVE  /\ r = PageOf(Asked, opts.page, opts.perPage).items
           /\ ~(opts.page * opts.perPage < Len(Asked))
           /\ Len(r) \in 1 .. (opts.perPage - 1) => Int64(ToSkip + Len(r)) = Len(Asked)
  <1> DEFINE page == opts.page
             size == opts.perPage
             X == 1 .. Len(before)
  <1>1. /\ page \in Nat \ {0} /\ size \in Nat \ {0} /\ ToSkip \in Nat /\ Len(Asked) \in Nat
        /\ page * size = ToSkip + size /\ Len(Asked) <= MaxInt /\ Asked \in Seq(X)
    <2>1. /\ opts.page \in Nat \ {0} /\ opts.perPage \in Nat \ {0} /\ ToSkip \in Nat
          /\ opts.page * opts.perPage = ToSkip + opts.perPage
          /\ Len(before) \in Nat /\ Len(before) <= MaxPulls /\ MaxPulls \in Nat
          /\ Len(Then) \in Nat /\ Len(Then) <= Len(before)
          /\ MaxInt \in Nat /\ MaxPerPage \in Nat /\ MaxPulls + MaxPerPage <= MaxInt
      BY Kinds
    <2>2. Len(Asked) <= MaxInt
      BY <2>1
    <2> QED
      BY <2>1, <2>2
  <1>2. ToSkip = (page - 1) * size
    BY DEF ToSkip
  <1> HIDE DEF page, size, X
  <1>3. /\ r \in Seq(X) /\ Len(r) = IF ToSkip <= Len(Asked) THEN Len(Asked) - ToSkip ELSE 0
    BY <1>1, RestFacts
  <1>4. Len(r) \in Nat /\ Len(r) < size
    <2>1. ~(Len(r) >= size)
      BY DEF size
    <2> QED
      BY <1>1, <1>3, <2>1
  <1>5. r = PageOf(Asked, page, size).items
    <2>1. Len(Rest(Asked, ToSkip)) <= size
      BY <1>1, <1>4
    <2> QED
      BY <1>1, <1>2, <2>1, WindowLast
  <1>6. ~(page * size < Len(Asked))
    BY <1>1, <1>3, <1>4
  <1>7. ASSUME Len(r) \in 1 .. (size - 1) PROVE Int64(ToSkip + Len(r)) = Len(Asked)
    <2>1. ToSkip + Len(r) = Len(Asked)
      BY <1>1, <1>3, <1>7
    <2> QED
      BY <1>1, <2>1, IntExact
  <1> QED
    BY <1>5, <1>6, <1>7 DEF page, size

\* When the page is full, it is the page asked for, and the total is beyond it.
LEMMA FilledAnswer ==
    ASSUME Typed, PostFilter, NEW n \in Nat, n <= Len(Then),
           n <= ghPostFilterMaxPages * ghPostFilterPageSize, Len(First(n)) <= n,
           First(n) \in Seq(1 .. Len(before)), NEW r, r = Rest(First(n), ToSkip),
           opts.perPage <= Len(r)
    PROVE  /\ SubSeq(r, 1, opts.perPage) = PageOf(Asked, opts.page, opts.perPage).items
           /\ FilledTotal > opts.page * opts.perPage
           /\ Len(SubSeq(r, 1, opts.perPage)) = opts.perPage
  <1> DEFINE page == opts.page
             size == opts.perPage
             X == 1 .. Len(before)
             t == First(n)
             s == Asked
  <1>1. /\ page \in Nat \ {0} /\ size \in Nat \ {0} /\ ToSkip \in Nat
        /\ page * size = ToSkip + size /\ Len(Then) + 1 <= MaxInt /\ Len(Then) \in Nat
    <2>1. /\ opts.page \in Nat \ {0} /\ opts.perPage \in Nat \ {0} /\ ToSkip \in Nat
          /\ opts.page * opts.perPage = ToSkip + opts.perPage
          /\ Len(before) \in Nat /\ Len(before) <= MaxPulls /\ MaxPulls \in Nat
          /\ Len(Then) \in Nat /\ Len(Then) <= Len(before) /\ opts.perPage <= MaxPerPage
          /\ MaxInt \in Nat /\ MaxPerPage \in Nat /\ MaxPulls + MaxPerPage <= MaxInt
      BY Kinds
    <2>2. Len(Then) + 1 <= MaxInt
      BY <2>1
    <2> QED
      BY <2>1, <2>2
  <1>2. ToSkip = (page - 1) * size
    BY DEF ToSkip
  <1>3. /\ s \in Seq(X) /\ Len(t) <= Len(s) /\ \A i \in 1 .. Len(t) : s[i] = t[i]
    BY AskedFirst
  <1>4. t \in Seq(X) /\ size <= Len(Rest(t, ToSkip)) /\ r = Rest(t, ToSkip) /\ Len(t) <= n
    OBVIOUS
  <1>5. FilledTotal = Int64(page * size + 1)
    BY DEF FilledTotal
  <1> HIDE DEF page, size, X, t, s
  <1>6. SubSeq(Rest(t, ToSkip), 1, size) = PageOf(s, page, size).items
    <2>1. page \in Nat \ {0} /\ size \in Nat \ {0}
      BY <1>1
    <2>2. t \in Seq(X) /\ s \in Seq(X) /\ size <= Len(Rest(t, ToSkip))
      BY <1>3, <1>4
    <2>3. Len(t) <= Len(s) /\ \A i \in 1 .. Len(t) : s[i] = t[i]
      BY <1>3
    <2> QED
      BY <1>2, <2>1, <2>2, <2>3, WindowFilled
  <1>7. r \in Seq(X) /\ Len(r) = IF ToSkip <= Len(t) THEN Len(t) - ToSkip ELSE 0
    BY <1>1, <1>4, RestFacts
  <1>8. Len(SubSeq(r, 1, size)) = size
    BY <1>1, <1>4, <1>7, FirstOf
  <1>9. FilledTotal > page * size
    <2>1. Len(t) \in Nat
      BY <1>4, LenProperties
    <2>2. page * size + 1 \in Nat /\ page * size + 1 <= MaxInt
      BY <1>1, <1>4, <1>7, <2>1, PagesAssumption
    <2>3. FilledTotal = page * size + 1
      BY <1>5, <2>2, IntExact
    <2> QED
      BY <1>1, <2>3
  <1> QED
    BY <1>4, <1>6, <1>8, <1>9 DEF page, size, s

\* What a turn of the loop does: the page is full, or GitHub has no more, or it
\* goes on.
Fills == /\ Len(Taken) >= opts.perPage /\ result' = SubSeq(Taken, 1, opts.perPage)
         /\ total' = FilledTotal /\ pc' = "done" /\ UNCHANGED ghPage
IsLast == /\ ~(Len(Taken) >= opts.perPage) /\ Here.next = 0 /\ result' = Taken
          /\ total' = Int64(ToSkip + Len(Taken)) /\ pc' = "done" /\ UNCHANGED ghPage
GoesOn == /\ ~(Len(Taken) >= opts.perPage) /\ Here.next # 0 /\ result' = Taken
          /\ ghPage' = Here.next /\ UNCHANGED <<total, pc>>

LEMMA EveryTurn ==
    ASSUME QueryPage
    PROVE  /\ pc = "read" /\ PostFilter /\ pagesQueried < ghPostFilterMaxPages
           /\ pagesQueried' = pagesQueried + 1 /\ skip' = Skipped(Len(Matches))
           /\ UNCHANGED <<pulls, opts, before, arrived>>
           /\ Fills \/ IsLast \/ GoesOn
  <1>1. /\ pc = "read" /\ PostFilter /\ MayQuery
        /\ pagesQueried' = pagesQueried + 1 /\ skip' = Skipped(Len(Matches))
        /\ UNCHANGED <<pulls, opts, before, arrived>>
    BY DEF QueryPage, Here, Now, Matches
  <1>2. result' = IF Len(Taken) >= opts.perPage THEN SubSeq(Taken, 1, opts.perPage) ELSE Taken
    BY DEF QueryPage, Here, Now, Matches, Taken, Rest, Left
  <1>3. IF Len(Taken) >= opts.perPage
        THEN /\ total' = FilledTotal /\ pc' = "done" /\ UNCHANGED ghPage
        ELSE IF Here.next = 0
        THEN /\ total' = Int64((opts.page - 1) * opts.perPage + Len(result'))
             /\ pc' = "done" /\ UNCHANGED ghPage
        ELSE /\ ghPage' = Here.next /\ UNCHANGED <<total, pc>>
    BY DEF QueryPage, GhPageAfter, Here, Now, Matches, Taken, Rest, Left
  <1>4. Fills \/ IsLast \/ GoesOn
    <2>1. CASE Len(Taken) >= opts.perPage
      BY <1>2, <1>3, <2>1 DEF Fills
    <2>2. CASE ~(Len(Taken) >= opts.perPage) /\ Here.next = 0
      BY <1>2, <1>3, <2>2 DEF IsLast, ToSkip
    <2>3. CASE ~(Len(Taken) >= opts.perPage) /\ Here.next # 0
      BY <1>2, <1>3, <2>3 DEF GoesOn
    <2> QED
      BY <2>1, <2>2, <2>3
  <1> QED
    BY <1>1, <1>4 DEF MayQuery

LEMMA Querying ==
    ASSUME Inv, QueryPage
    PROVE  Inv'
  <1>1. Typed /\ Ordered /\ Reading
    BY DEF Inv
  <1>2. /\ pc = "read" /\ PostFilter /\ pagesQueried < ghPostFilterMaxPages
        /\ pagesQueried' = pagesQueried + 1 /\ skip' = Skipped(Len(Matches))
        /\ UNCHANGED <<pulls, opts, before, arrived>>
        /\ Fills \/ IsLast \/ GoesOn
    BY EveryTurn
  <1>3. /\ PostFilter' = PostFilter /\ Now' = Now /\ Then' = Then /\ ToSkip' = ToSkip
        /\ Asked' = Asked /\ Countable' = Countable
    BY <1>2 DEF PostFilter, Now, Then, ToSkip, Asked, Matching, Countable
  <1> DEFINE cap == ghPostFilterMaxPages * ghPostFilterPageSize
             size == ghPostFilterPageSize
  <1>4. /\ At \in Nat /\ size \in Nat \ {0} /\ ghPage \in Nat \ {0} /\ ghPage * size = At + size
        /\ opts.perPage \in Nat \ {0} /\ ToSkip \in Nat /\ Len(Then) \in Nat /\ Len(Now) \in Nat
        /\ Here.next = IF At + size < Len(Now) THEN ghPage + 1 ELSE 0
    BY <1>1, Kinds, PageRead DEF Typed
  <1>5. /\ Taken \in Seq(1 .. Len(before)) /\ Len(Taken) \in Nat /\ Len(Matches) \in Nat
    BY <1>1, TakenFacts
  <1>6. /\ Fills => /\ SubSeq(Taken, 1, opts.perPage) \in Seq(1 .. Len(before))
                    /\ Len(SubSeq(Taken, 1, opts.perPage)) = opts.perPage
                    /\ \A i \in 1 .. opts.perPage : SubSeq(Taken, 1, opts.perPage)[i] = Taken[i]
    <2> SUFFICES ASSUME Fills
                 PROVE  /\ SubSeq(Taken, 1, opts.perPage) \in Seq(1 .. Len(before))
                        /\ Len(SubSeq(Taken, 1, opts.perPage)) = opts.perPage
                        /\ \A i \in 1 .. opts.perPage : SubSeq(Taken, 1, opts.perPage)[i] = Taken[i]
      OBVIOUS
    <2>1. opts.perPage <= Len(Taken) /\ opts.perPage \in Nat
      BY <1>4, <1>5 DEF Fills
    <2> QED
      BY <1>5, <2>1, FirstOf
  <1>7. GoesOn => /\ ghPage' = ghPage + 1 /\ At' = At + size /\ At + size < Len(Now)
    <2> SUFFICES ASSUME GoesOn
                 PROVE  /\ ghPage' = ghPage + 1 /\ At' = At + size /\ At + size < Len(Now)
      OBVIOUS
    <2>1. At + size < Len(Now) /\ ghPage' = ghPage + 1
      BY <1>4 DEF GoesOn
    <2>2. At' = ghPage * size
      BY <1>4, <2>1 DEF At
    <2> QED
      BY <1>4, <2>1, <2>2
  <1>8. Typed'
    <2>1. skip' \in Int
      <3>1. skip \in Int
        BY <1>1 DEF Typed
      <3> QED
        BY <1>2, <1>5, <3>1 DEF Skipped
    <2>2. total' \in Int
      <3>1. CASE Fills
        <4>1. opts.page * opts.perPage + 1 \in Int
          BY <1>1, Kinds
        <4> QED
          BY <3>1, <4>1, IntType DEF Fills, FilledTotal
      <3>2. CASE IsLast
        <4>1. ToSkip + Len(Taken) \in Int
          BY <1>4, <1>5
        <4> QED
          BY <3>2, <4>1, IntType DEF IsLast
      <3>3. CASE GoesOn
        BY <1>1, <3>3 DEF GoesOn, Typed
      <3> QED
        BY <1>2, <3>1, <3>2, <3>3
    <2>3. /\ result' \in Seq(1 .. Len(before)) /\ Len(result') <= opts.perPage
          /\ pc' = "read" => Len(result') < opts.perPage
          /\ pc' \in {"read", "done", "failed"} /\ ghPage' \in Nat \ {0}
      <3>1. CASE Fills
        BY <1>1, <1>4, <1>6, <3>1 DEF Fills, Typed
      <3>2. CASE IsLast
        BY <1>1, <1>4, <1>5, <3>2 DEF IsLast, Typed
      <3>3. CASE GoesOn
        BY <1>1, <1>2, <1>4, <1>5, <1>7, <3>3 DEF GoesOn, Typed
      <3> QED
        BY <1>2, <3>1, <3>2, <3>3
    <2>4. pagesQueried' \in 0 .. ghPostFilterMaxPages
      BY <1>1, <1>2, PagesAssumption DEF Typed
    <2> QED
      BY <1>1, <1>2, <2>1, <2>2, <2>3, <2>4 DEF Typed
  <1>9. Ordered'
    <2> SUFFICES ASSUME arrived \subseteq {"open"}
                 PROVE  /\ Increasing(result')
                        /\ pc' = "read" =>
                               \A i \in 1 .. Len(result'), j \in 1 .. Len(Now) :
                                   At' < j => result'[i] < Now[j]
      BY <1>2, <1>3 DEF Ordered
    <2>1. /\ Increasing(Taken)
          /\ \A i \in 1 .. Len(Taken), j \in 1 .. Len(Now) : At + size < j => Taken[i] < Now[j]
      BY <1>1, <1>2, QueryOrders
    <2>2. CASE Fills
      <3>1. Increasing(SubSeq(Taken, 1, opts.perPage))
        <4>1. opts.perPage <= Len(Taken)
          BY <1>4, <1>5, <2>2 DEF Fills
        <4> DEFINE f == SubSeq(Taken, 1, opts.perPage)
        <4>2. Len(f) = opts.perPage /\ \A i \in 1 .. opts.perPage : f[i] = Taken[i]
          BY <1>6, <2>2
        <4> HIDE DEF f
        <4>3. Increasing(f)
          <5> SUFFICES ASSUME NEW j \in 1 .. Len(f), NEW k \in 1 .. Len(f), j < k
                       PROVE  f[j] < f[k]
            BY DEF Increasing
          <5>1. /\ j \in 1 .. opts.perPage /\ k \in 1 .. opts.perPage
                /\ j \in 1 .. Len(Taken) /\ k \in 1 .. Len(Taken)
            BY <1>4, <1>5, <4>1, <4>2
          <5>2. Taken[j] < Taken[k]
            BY <2>1, <5>1 DEF Increasing
          <5> QED
            BY <4>2, <5>1, <5>2
        <4> QED
          BY <4>3 DEF f
      <3> QED
        BY <2>2, <3>1 DEF Fills
    <2>3. CASE IsLast
      BY <2>1, <2>3 DEF IsLast
    <2>4. CASE GoesOn
      BY <1>7, <2>1, <2>4 DEF GoesOn
    <2> QED
      BY <1>2, <2>2, <2>3, <2>4
  <1>10. ASSUME arrived = {}, Countable
         PROVE  /\ Now = Then /\ Matching(pulls) = Matching(before) /\ At <= Len(Then)
                /\ skip = IF Len(First(At)) <= ToSkip THEN ToSkip - Len(First(At)) ELSE 0
                /\ result = Rest(First(At), ToSkip) /\ ghPage = pagesQueried + 1
                /\ At + size <= cap /\ cap \in Nat
    <2>1. pulls = before
      BY <1>1, <1>10 DEF Typed
    <2>2. /\ At <= Len(Then)
          /\ skip = IF Len(First(At)) <= ToSkip THEN ToSkip - Len(First(At)) ELSE 0
          /\ result = Rest(First(At), ToSkip) /\ ghPage = pagesQueried + 1
      BY <1>1, <1>2, <1>10 DEF Reading
    <2>3. ghPage <= ghPostFilterMaxPages /\ ghPostFilterMaxPages \in Nat
      BY <1>1, <1>2, <2>2, PagesAssumption DEF Typed
    <2>4. ghPage * size <= cap /\ cap \in Nat
      BY <1>4, <2>3, Product
    <2> QED
      BY <1>4, <2>1, <2>2, <2>4 DEF Now, Then
  <1> DEFINE n == At + Len(Here.items)
  <1>11. ASSUME arrived = {}, Countable
         PROVE  /\ n \in Nat /\ n <= Len(Then) /\ n <= cap /\ cap \in Nat
                /\ Here.next = 0 => n = Len(Then)
                /\ Here.next # 0 => n = At + size /\ Here.next = ghPage + 1
                /\ First(n) \in Seq(1 .. Len(before)) /\ Len(First(n)) \in Nat /\ Len(First(n)) <= n
                /\ Taken = Rest(First(n), ToSkip)
                /\ skip' = IF Len(First(n)) <= ToSkip THEN ToSkip - Len(First(n)) ELSE 0
                /\ ghPage = pagesQueried + 1
    <2>1. /\ Now = Then /\ Matching(pulls) = Matching(before) /\ At <= Len(Then)
          /\ skip = IF Len(First(At)) <= ToSkip THEN ToSkip - Len(First(At)) ELSE 0
          /\ result = Rest(First(At), ToSkip)
      BY <1>10, <1>11
    <2>2. At + size <= cap /\ cap \in Nat /\ ghPage = pagesQueried + 1
      BY <1>10, <1>11
    <2>3. /\ n \in Nat /\ n <= Len(Then) /\ n <= At + size
          /\ Here.next = 0 => n = Len(Then)
          /\ Here.next # 0 => n = At + size /\ Here.next = ghPage + 1
          /\ First(n) \in Seq(1 .. Len(before)) /\ Len(First(n)) \in Nat /\ Len(First(n)) <= n
          /\ Taken = Rest(First(n), ToSkip)
          /\ Skipped(Len(Matches)) = IF Len(First(n)) <= ToSkip THEN ToSkip - Len(First(n)) ELSE 0
      BY <1>1, <2>1, QueryExact
    <2> HIDE DEF n, cap
    <2>4. n <= cap
      BY <1>4, <2>2, <2>3
    <2> QED
      BY <1>2, <2>2, <2>3, <2>4
  <1> HIDE DEF n, cap
  <1>12. Reading'
    <2> SUFFICES ASSUME pc' = "read", arrived = {}, Countable
                 PROVE  /\ ghPage' = pagesQueried' + 1
                        /\ At' <= Len(Then)
                        /\ skip' = IF Len(First(At')) <= ToSkip THEN ToSkip - Len(First(At')) ELSE 0
                        /\ result' = Rest(First(At'), ToSkip)
      BY <1>2, <1>3 DEF Reading, First, Matching
    <2>1. GoesOn
      BY <1>2 DEF Fills, IsLast
    <2>2. At' = n
      BY <1>7, <1>11, <2>1 DEF GoesOn
    <2> QED
      BY <1>2, <1>7, <1>11, <2>1, <2>2 DEF GoesOn
  <1>13. ASSUME arrived = {}, Countable, pc' = "done"
         PROVE  /\ result' = PageOf(Asked, opts.page, opts.perPage).items
                /\ opts.page * opts.perPage < Len(Asked) => total' > opts.page * opts.perPage
                /\ Len(result') \in 1 .. (opts.perPage - 1) => total' = Len(Asked)
    <2>1. CASE Fills
      <3>1. opts.perPage <= Len(Taken)
        BY <1>4, <1>5, <2>1 DEF Fills
      <3>2. /\ SubSeq(Taken, 1, opts.perPage) = PageOf(Asked, opts.page, opts.perPage).items
            /\ FilledTotal > opts.page * opts.perPage
            /\ Len(SubSeq(Taken, 1, opts.perPage)) = opts.perPage
        BY <1>1, <1>2, <1>11, <1>13, <3>1, FilledAnswer DEF cap
      <3>3. ~(opts.perPage \in 1 .. (opts.perPage - 1))
        BY <1>4
      <3> QED
        BY <2>1, <3>2, <3>3 DEF Fills
    <2>2. CASE IsLast
      <3>1. n = Len(Then) /\ n \in Nat /\ n <= Len(Then) /\ n <= cap
        BY <1>11, <1>13, <2>2 DEF IsLast
      <3>2. /\ Asked \in Seq(1 .. Len(before)) /\ Len(Asked) \in Nat /\ Len(Asked) <= Len(Then)
            /\ Asked = First(n)
        BY <1>1, <1>2, <3>1, AskedFirst DEF cap
      <3>3. Taken = Rest(Asked, ToSkip) /\ ~(Len(Taken) >= opts.perPage)
        BY <1>11, <1>13, <2>2, <3>2 DEF IsLast
      <3>4. /\ Taken = PageOf(Asked, opts.page, opts.perPage).items
            /\ ~(opts.page * opts.perPage < Len(Asked))
            /\ Len(Taken) \in 1 .. (opts.perPage - 1) => Int64(ToSkip + Len(Taken)) = Len(Asked)
        BY <1>1, <1>2, <3>2, <3>3, LastAnswer
      <3> QED
        BY <2>2, <3>4 DEF IsLast
    <2>3. CASE GoesOn
      BY <1>2, <1>13, <2>3 DEF GoesOn
    <2> QED
      BY <1>2, <2>1, <2>2, <2>3
  <1>14. WindowExact' /\ TotalTellsMore'
    BY <1>2, <1>3, <1>13 DEF WindowExact, TotalTellsMore
  <1> QED
    BY <1>8, <1>9, <1>12, <1>14 DEF Inv

\* The cap is reached.
LEMMA GivingUp ==
    ASSUME Inv, GiveUp
    PROVE  Inv'
  <1>1. Typed /\ Ordered /\ Reading
    BY DEF Inv
  <1>2. /\ pc = "read" /\ PostFilter /\ ~(pagesQueried < ghPostFilterMaxPages)
        /\ total' = Int64(ToSkip + Len(result)) /\ pc' = "done"
        /\ UNCHANGED <<pulls, opts, skip, result, ghPage, pagesQueried, before, arrived>>
    BY DEF GiveUp, MayQuery, ToSkip
  <1>3. Asked' = Asked /\ Countable' = Countable
    BY <1>2 DEF PostFilter, Asked, Matching, Countable
  <1>4. Typed'
    <2>1. ToSkip + Len(result) \in Int
      BY <1>1, Kinds
    <2>2. total' \in Int
      BY <1>2, <2>1, IntType
    <2> QED
      BY <1>1, <1>2, <2>2 DEF Typed
  <1>5. Ordered' /\ Reading'
    BY <1>1, <1>2 DEF Ordered, Reading
  <1>6. ASSUME arrived = {}, Countable
        PROVE  /\ result = PageOf(Asked, opts.page, opts.perPage).items
               /\ ~(opts.page * opts.perPage < Len(Asked))
               /\ Len(result) \in 1 .. (opts.perPage - 1) => total' = Len(Asked)
    <2>1. ghPage = pagesQueried + 1 /\ At <= Len(Then) /\ result = Rest(First(At), ToSkip)
      BY <1>1, <1>2, <1>6 DEF Reading
    <2>2. pagesQueried = ghPostFilterMaxPages
      BY <1>1, <1>2, PagesAssumption DEF Typed
    <2>3. At = ghPostFilterMaxPages * ghPostFilterPageSize
      <3>1. ghPage - 1 = ghPostFilterMaxPages
        BY <2>1, <2>2, PagesAssumption
      <3> QED
        BY <3>1 DEF At
    <2>4. At \in Nat /\ At <= ghPostFilterMaxPages * ghPostFilterPageSize
      BY <1>1, <2>3, Kinds
    <2>5. /\ Asked \in Seq(1 .. Len(before)) /\ Len(Asked) \in Nat /\ Len(Asked) <= Len(Then)
          /\ Asked = First(At)
      BY <1>1, <1>2, <2>1, <2>3, <2>4, AskedFirst
    <2>6. ~(Len(result) >= opts.perPage)
      <3>1. Len(result) < opts.perPage
        BY <1>1, <1>2 DEF Typed
      <3> QED
        BY <1>1, <3>1, Kinds
    <2>7. result = Rest(Asked, ToSkip)
      BY <2>1, <2>5
    <2> QED
      BY <1>1, <1>2, <2>5, <2>6, <2>7, LastAnswer
  <1>7. WindowExact' /\ TotalTellsMore'
    BY <1>2, <1>3, <1>6 DEF WindowExact, TotalTellsMore
  <1> QED
    BY <1>4, <1>5, <1>7 DEF Inv

\* GitHub answers with an error.
LEMMA Failing ==
    ASSUME Inv, QueryFails
    PROVE  Inv'
  <1>1. Typed
    BY DEF Inv
  <1>2. /\ pc' = "failed" /\ result' = <<>>
        /\ UNCHANGED <<pulls, opts, skip, ghPage, pagesQueried, total, before, arrived>>
    BY DEF QueryFails
  <1>3. <<>> \in Seq(1 .. Len(before)) /\ Len(<<>>) = 0
    OBVIOUS
  <1>4. 0 <= opts.perPage
    BY <1>1, Kinds
  <1>5. Typed'
    BY <1>1, <1>2, <1>3, <1>4 DEF Typed
  <1>6. Ordered' /\ Reading' /\ WindowExact' /\ TotalTellsMore'
    BY <1>2, <1>3 DEF Ordered, Increasing, Reading, WindowExact, TotalTellsMore
  <1> QED
    BY <1>5, <1>6 DEF Inv

LEMMA Resting ==
    ASSUME Inv, UNCHANGED vars
    PROVE  Inv'
  <1>1. UNCHANGED <<pulls, opts, skip, result, ghPage, pagesQueried, total, pc, before, arrived>>
    BY DEF vars
  <1>2. Typed /\ Ordered /\ Reading /\ WindowExact /\ TotalTellsMore
    BY DEF Inv
  <1>3. /\ PostFilter' = PostFilter /\ Now' = Now /\ Then' = Then /\ ToSkip' = ToSkip
        /\ Asked' = Asked /\ Countable' = Countable /\ At' = At /\ First(At)' = First(At)
    BY <1>1 DEF PostFilter, Now, Then, ToSkip, Asked, Matching, Countable, At, First
  <1>4. Typed' /\ Ordered'
    BY <1>1, <1>2, <1>3 DEF Typed, Ordered
  <1>5. Reading'
    BY <1>1, <1>2, <1>3 DEF Reading
  <1>6. WindowExact' /\ TotalTellsMore'
    BY <1>1, <1>2, <1>3 DEF WindowExact, TotalTellsMore
  <1> QED
    BY <1>4, <1>5, <1>6 DEF Inv

-----------------------------------------------------------------------------
(* The theorems.                                                           *)
LEMMA Invariant == Spec => []Inv
  <1>1. Init => Inv
    BY Comes
  <1>2. Inv /\ [Next]_vars => Inv'
    <2> SUFFICES ASSUME Inv, [Next]_vars PROVE Inv'
      OBVIOUS
    <2>1. CASE \E i \in 1 .. Len(pulls), state \in {"open", "closed", "merged"} : Change(i, state)
      BY <2>1, Changes DEF States
    <2>2. CASE ListDirect
      BY <2>2, Directly
    <2>3. CASE QueryPage
      BY <2>3, Querying
    <2>4. CASE GiveUp
      BY <2>4, GivingUp
    <2>5. CASE QueryFails
      BY <2>5, Failing
    <2>6. CASE UNCHANGED vars
      BY <2>6, Resting
    <2> QED
      BY <2>1, <2>2, <2>3, <2>4, <2>5, <2>6 DEF Next
  <1> QED
    BY <1>1, <1>2, PTL DEF Spec

\* Every variable keeps its type: no answer of ListPullRequests is longer than
\* perPage, and no more than ghPostFilterMaxPages pages of GitHub are asked for.
THEOREM TypeCorrect == Spec => []TypeOK
  <1>1. Typed => TypeOK
    <2> SUFFICES ASSUME Typed PROVE TypeOK
      OBVIOUS
    <2> DEFINE N == Len(before)
    <2>1. N \in Nat /\ pulls \in [1 .. N -> States]
      BY Kinds DEF Typed
    <2>2. Len(pulls) = N
      <3> HIDE DEF N
      <3> QED
        BY <2>1, LengthOf
    <2>3. opts.page \in Nat \ {0} /\ opts.perPage \in 1 .. MaxPerPage
      BY DEF Typed
    <2> QED
      BY <2>2, <2>3 DEF Typed, TypeOK, States
  <1> QED
    BY <1>1, Invariant, PTL DEF Inv

\* Of a repository nobody touches, an answer is the page asked for of the pull
\* requests in the state asked for, wherever GitHub's own pages end.
THEOREM WindowIsExact == Spec => []WindowExact
  <1>1. Inv => WindowExact
    BY DEF Inv
  <1> QED
    BY <1>1, Invariant, PTL

\* The total is beyond the page as long as there is more, and exact on a page that
\* is not full.
THEOREM TotalIsTelling == Spec => []TotalTellsMore
  <1>1. Inv => TotalTellsMore
    BY DEF Inv
  <1> QED
    BY <1>1, Invariant, PTL

\* Whatever is reopened while GitHub's pages are read, no pull request comes twice
\* and they stay in order.
THEOREM ComesOnce == Spec => []OnceEach
  <1>1. Inv => OnceEach
    BY DEF Inv, Ordered, Increasing, OnceEach
  <1> QED
    BY <1>1, Invariant, PTL
=============================================================================
