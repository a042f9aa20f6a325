--------------------------- MODULE PageScanProofs ---------------------------
(***************************************************************************)
(* Proofs about PageScan, for pages of any size, any cap, any number of    *)
(* items and whatever others add and remove meanwhile.                     *)
(***************************************************************************)
EXTENDS PageScan, ListingLemmas

\* The number of items on the pages before the one to ask for.
At == (page - 1) * PageSize

\* Every variable has a type, the listing has no item twice, and the scan began
\* with the newest item first.
Typed ==
    /\ scanner \in Scanners
    /\ created \in 0 .. MaxItems
    /\ listing \in Seq(1 .. created) /\ Len(listing) <= created
    /\ \A a, b \in 1 .. Len(listing) : listing[a] = listing[b] => a = b
    /\ page \in 1 .. (created + 1)
    /\ scanner = "ListRepositories" => page = 1
    /\ result \in Seq(1 .. created)
    /\ pc \in {"fetch", "done", "failed"}
    /\ start \in Seq(1 .. created) /\ Len(start) <= created
    /\ \A i \in 1 .. Len(start) : start[i] = Len(start) + 1 - i
    /\ inserts \in BOOLEAN /\ deletes \in BOOLEAN

\* There is no more in the result than on the pages read, and less than the cap.
Sized ==
    pc = "fetch" => /\ scanner # "ListRepositories" => Len(result) <= At
                    /\ scanner = "ListPipelineJobs" => Len(result) < maxJobsTotal

\* A wanted item is collected or still to come; ListRepositories, which begins
\* anew with every page, has them all to come.
Missing ==
    pc = "fetch" /\ ~deletes =>
        \A k \in 1 .. Len(start) : start[k] \in Wanted =>
            \/ scanner # "ListRepositories" /\ Contains(result, start[k])
            \/ \E j \in 1 .. Len(listing) : At < j /\ listing[j] = start[k]

\* As long as nothing is created, the listing is in descending order, the
\* result too, and what is still to come is older than what is collected.
Older ==
    ~inserts /\ scanner # "ListRepositories" =>
        /\ created = Len(start)
        /\ Descending(listing)
        /\ pc = "fetch" \/ scanner # "ListPipelineJobs" => Descending(result)
        /\ pc = "fetch" => \A i \in 1 .. Len(result), j \in 1 .. Len(listing) :
                               At < j => listing[j] < result[i]

\* The result is what is wanted of the pages read.
Exactly ==
    pc = "fetch" /\ ~inserts /\ ~deletes =>
        /\ listing = start
        /\ \/ At <= Len(start) /\ result = Only(SubSeq(start, 1, At), Wanted)
           \/ scanner = "ListRepositories" /\ PageSize < Len(start)

Inv == Typed /\ Sized /\ Missing /\ Older /\ Exactly /\ NothingMissed /\ Exact

-----------------------------------------------------------------------------
(* One turn of the loop.                                                   *)

Here == PageOf(listing, page, PageSize)
Kept == Only(Here.items, Wanted)
Both == result \o Kept

\* The page that is read.
LEMMA PageRead ==
    ASSUME Typed
    PROVE  /\ At \in Nat /\ Len(listing) \in Nat /\ page * PageSize = At + PageSize
           /\ Here.page = page
           /\ More(Here) <=> At + PageSize < Len(listing)
           /\ More(Here) => Here.next = page + 1
           /\ Here.items \in Seq(1 .. created)
           /\ Len(Here.items) <= PageSize /\ Len(Here.items) \in Nat
           /\ Len(Here.items) = IF At + PageSize < Len(listing) THEN PageSize
                                ELSE IF At < Len(listing) THEN Len(listing) - At ELSE 0
           /\ \A j \in 1 .. Len(Here.items) :
                  At + j \in 1 .. Len(listing) /\ Here.items[j] = listing[At + j]
  <1>1. /\ listing \in Seq(1 .. created) /\ page \in Nat \ {0} /\ PageSize \in Nat \ {0}
    BY ScanAssumption DEF Typed
  <1>2. /\ At \in Nat /\ Len(listing) \in Nat /\ page * PageSize = At + PageSize
        /\ Here.page = page
        /\ Here.next = IF At + PageSize < Len(listing) THEN page + 1 ELSE 0
        /\ Here.items \in Seq(1 .. created)
        /\ Len(Here.items) <= PageSize /\ Len(Here.items) \in Nat
        /\ Len(Here.items) = IF At + PageSize < Len(listing) THEN PageSize
                             ELSE IF At < Len(listing) THEN Len(listing) - At ELSE 0
        /\ \A j \in 1 .. Len(Here.items) :
               At + j \in 1 .. Len(listing) /\ Here.items[j] = listing[At + j]
    BY <1>1, PageFacts DEF At, Here
  <1>3. More(Here) <=> At + PageSize < Len(listing)
    BY <1>1, <1>2 DEF More
  <1> QED
    BY <1>2, <1>3

\* What is wanted of it, behind what there is.
LEMMA BothRead ==
    ASSUME Typed
    PROVE  /\ Kept \in Seq(1 .. created) /\ Len(Kept) \in Nat /\ Len(Kept) <= Len(Here.items)
           /\ Both \in Seq(1 .. created) /\ Len(result) \in Nat
           /\ Len(Both) = Len(result) + Len(Kept)
           /\ \A i \in 1 .. Len(Both) :
                  Both[i] = IF i <= Len(result) THEN result[i] ELSE Kept[i - Len(result)]
  <1>1. Here.items \in Seq(1 .. created) /\ result \in Seq(1 .. created)
    BY PageRead DEF Typed
  <1>2. Kept \in Seq(1 .. created) /\ Len(Kept) <= Len(Here.items)
    BY <1>1, OnlyType DEF Kept
  <1>3. Len(Kept) \in Nat /\ Len(result) \in Nat
    BY <1>1, <1>2, LenProperties
  <1>4. /\ Both \in Seq(1 .. created) /\ Len(Both) = Len(result) + Len(Kept)
        /\ \A i \in 1 .. Len(result) + Len(Kept) :
               Both[i] = IF i <= Len(result) THEN result[i] ELSE Kept[i - Len(result)]
    BY <1>1, <1>2, ConcatProperties DEF Both
  <1> QED
    BY <1>2, <1>3, <1>4

\* What is collected of it is all, or the first of it up to the cap.
LEMMA Collected ==
    ASSUME Typed
    PROVE  LET all == Collect(Here.items)
               n == IF Capped(Both) THEN maxJobsTotal ELSE Len(Both) IN
           /\ all \in Seq(1 .. created) /\ all = SubSeq(Both, 1, n)
           /\ Len(all) = n /\ n \in Nat /\ n <= Len(Both)
           /\ \A i \in 1 .. n : all[i] = Both[i]
           /\ ~Capped(Both) => all = Both
           /\ Capped(all) <=> Capped(Both)
  <1> DEFINE all == Collect(Here.items)
             n == IF Capped(Both) THEN maxJobsTotal ELSE Len(Both)
  <1>1. all = IF Capped(Both) THEN SubSeq(Both, 1, maxJobsTotal) ELSE Both
    BY DEF Collect, Both, Kept
  <1>2. Both \in Seq(1 .. created) /\ Len(Both) \in Nat /\ maxJobsTotal \in Nat
    BY BothRead, LenProperties, ScanAssumption
  <1>3. SubSeq(Both, 1, Len(Both)) = Both
    BY <1>2, SubSeqFull
  <1>4. n \in Nat /\ n <= Len(Both)
    BY <1>2 DEF Capped
  <1>5. all = SubSeq(Both, 1, n)
    BY <1>1, <1>3
  <1> HIDE DEF all, n
  <1>6. all \in Seq(1 .. created) /\ Len(all) = n /\ \A i \in 1 .. n : all[i] = Both[i]
    BY <1>2, <1>4, <1>5, FirstOf
  <1>7. Capped(all) <=> Capped(Both)
    BY <1>2, <1>6 DEF Capped, n
  <1>8. ~Capped(Both) => all = Both
    BY <1>1
  <1> QED
    BY <1>4, <1>5, <1>6, <1>7, <1>8 DEF all, n

\* An item collected stays so, and one wanted of the page is collected.
LEMMA BothHasFirst ==
    ASSUME Typed, NEW x, Contains(result, x)
    PROVE  Contains(Both, x)
  <1>1. PICK i \in 1 .. Len(result) : result[i] = x
    BY DEF Contains
  <1>2. /\ Len(result) \in Nat /\ Len(Kept) \in Nat /\ Len(Both) = Len(result) + Len(Kept)
        /\ \A n \in 1 .. Len(Both) :
              Both[n] = IF n <= Len(result) THEN result[n] ELSE Kept[n - Len(result)]
    BY BothRead
  <1>3. i \in 1 .. Len(Both) /\ Both[i] = x
    BY <1>1, <1>2
  <1> QED
    BY <1>3 DEF Contains

LEMMA BothHasHere ==
    ASSUME Typed, NEW j \in 1 .. Len(listing), At < j, j <= At + PageSize,
           listing[j] \in Wanted
    PROVE  Contains(Both, listing[j])
  <1>1. /\ At \in Nat /\ Len(listing) \in Nat /\ PageSize \in Nat
        /\ Here.items \in Seq(1 .. created)
        /\ Len(Here.items) = IF At + PageSize < Len(listing) THEN PageSize
                             ELSE IF At < Len(listing) THEN Len(listing) - At ELSE 0
        /\ \A n \in 1 .. Len(Here.items) : Here.items[n] = listing[At + n]
    BY PageRead, ScanAssumption
  <1>2. j - At \in 1 .. Len(Here.items) /\ At + (j - At) = j
    BY <1>1
  <1>3. Here.items[j - At] = listing[j]
    BY <1>1, <1>2
  <1>4. Contains(Kept, listing[j])
    <2> DEFINE n == j - At
    <2>1. n \in 1 .. Len(Here.items) /\ Here.items[n] = listing[j]
      BY <1>2, <1>3
    <2> HIDE DEF n
    <2> QED
      BY <1>1, <2>1, OnlyMembers DEF Kept
  <1>5. PICK i \in 1 .. Len(Kept) : Kept[i] = listing[j]
    BY <1>4 DEF Contains
  <1>6. /\ Len(result) \in Nat /\ Len(Kept) \in Nat /\ Len(Both) = Len(result) + Len(Kept)
        /\ \A n \in 1 .. Len(Both) :
              Both[n] = IF n <= Len(result) THEN result[n] ELSE Kept[n - Len(result)]
    BY BothRead
  <1>7. /\ Len(result) + i \in 1 .. Len(Both) /\ ~(Len(result) + i <= Len(result))
        /\ Len(result) + i - Len(result) = i
    BY <1>6
  <1>8. Both[Len(result) + i] = listing[j]
    BY <1>5, <1>6, <1>7
  <1> QED
    BY <1>7, <1>8 DEF Contains

\* A turn that is not the last one.
GoesToNext == pc = "fetch" /\ FetchPage /\ More(Here) /\ ~Capped(Both)

LEMMA TurnGoesOn ==
    ASSUME Typed, Sized, GoesToNext
    PROVE  /\ page' = IF scanner = "ListRepositories" THEN 1 ELSE page + 1
           /\ At' = IF scanner = "ListRepositories" THEN 0 ELSE At + PageSize
           /\ At + PageSize < Len(listing)
           /\ result' \in Seq(1 .. created) /\ Len(result') <= Len(Both)
           /\ \A i \in 1 .. Len(result') : result'[i] = Both[i]
           /\ scanner # "ListRepositories" => result' = Both
           /\ pc' = "fetch"
           /\ UNCHANGED <<scanner, listing, created, start, inserts, deletes>>
  <1> DEFINE all == Collect(Here.items)
             n == IF Len(Both) > MaxKept THEN MaxKept ELSE Len(Both)
  <1>1. all = Both /\ ~Capped(all)
    BY Collected DEF GoesToNext
  <1>2. /\ page' = NextPage(Here)
        /\ result' = SubSeq(all, 1, IF Len(all) > MaxKept THEN MaxKept ELSE Len(all))
        /\ pc' = "fetch"
        /\ UNCHANGED <<scanner, listing, created, start, inserts, deletes>>
    BY <1>1 DEF GoesToNext, FetchPage, Here
  <1>3. result' = SubSeq(Both, 1, n)
    BY <1>1, <1>2
  <1>4. At + PageSize < Len(listing) /\ Here.page = page /\ Here.next = page + 1
    BY PageRead DEF GoesToNext
  <1>5. page' = IF scanner = "ListRepositories" THEN 1 ELSE page + 1
    BY <1>2, <1>4 DEF NextPage
  <1>6. At' = IF scanner = "ListRepositories" THEN 0 ELSE At + PageSize
    <2>1. page * PageSize = At + PageSize
      BY PageRead
    <2>2. page \in Nat /\ PageSize \in Nat
      BY ScanAssumption DEF Typed
    <2>3. At' = (page' - 1) * PageSize
      BY DEF At
    <2>4. (1 - 1) * PageSize = 0 /\ (page + 1) - 1 = page
      BY <2>2
    <2> QED
      BY <1>5, <2>1, <2>2, <2>3, <2>4
  <1>7. Both \in Seq(1 .. created) /\ Len(Both) \in Nat /\ MaxKept \in Nat
    BY BothRead, LenProperties, ScanAssumption
  <1>8. n \in Nat /\ n <= Len(Both)
    BY <1>7
  <1>9. scanner # "ListRepositories" => n = Len(Both)
    <2> SUFFICES ASSUME scanner # "ListRepositories" PROVE Len(Both) <= MaxKept
      BY <1>7
    <2>1. Len(result) <= At /\ Len(listing) <= created /\ created \in Nat /\ created <= MaxItems
      BY ScanAssumption DEF Typed, Sized, GoesToNext
    <2>2. /\ At \in Nat /\ Len(listing) \in Nat /\ Len(result) \in Nat /\ Len(Kept) \in Nat
          /\ Len(Both) = Len(result) + Len(Kept) /\ Len(Kept) <= PageSize /\ PageSize \in Nat
      BY PageRead, BothRead, ScanAssumption
    <2> QED
      BY <1>4, <2>1, <2>2, ScanAssumption
  <1>10. SubSeq(Both, 1, Len(Both)) = Both
    BY <1>7, SubSeqFull
  <1>11. scanner # "ListRepositories" => result' = Both
    BY <1>3, <1>9, <1>10
  <1> HIDE DEF n
  <1>12. /\ result' \in Seq(1 .. created) /\ Len(result') = n
         /\ \A i \in 1 .. n : result'[i] = Both[i]
    BY <1>3, <1>7, <1>8, FirstOf
  <1> QED
    BY <1>2, <1>4, <1>5, <1>6, <1>8, <1>11, <1>12

\* The last turn.
Ends == pc = "fetch" /\ FetchPage /\ (~More(Here) \/ Capped(Both))

LEMMA ArrangedType ==
    ASSUME NEW X, X \subseteq Nat, NEW s \in Seq(X)
    PROVE  /\ Arranged(s) \in Seq(X) /\ Len(Arranged(s)) = Len(s)
           /\ \A n \in 1 .. Len(s) : Contains(Arranged(s), s[n])
  <1>1. \A n \in 1 .. Len(s) : Contains(s, s[n])
    BY DEF Contains
  <1> QED
    BY <1>1, SortedFacts DEF Arranged

LEMMA TurnEnds ==
    ASSUME Typed, Ends
    PROVE  /\ result' = Arranged(Collect(Here.items))
           /\ pc' = "done"
           /\ UNCHANGED page
           /\ UNCHANGED <<scanner, listing, created, start, inserts, deletes>>
  BY Collected DEF Ends, FetchPage, Here

LEMMA EveryTurn ==
    ASSUME Typed, Sized, FetchPage
    PROVE  GoesToNext \/ Ends
  BY DEF FetchPage, GoesToNext, Ends

-----------------------------------------------------------------------------
(* The scan begins.                                                        *)
LEMMA Begins ==
    ASSUME Init
    PROVE  Inv
  <1>1. /\ scanner \in Scanners /\ created \in 0 .. MaxItems /\ created \in Nat
        /\ listing = [i \in 1 .. created |-> created + 1 - i] /\ start = listing
        /\ page = 1 /\ result = <<>> /\ pc = "fetch"
        /\ inserts = FALSE /\ deletes = FALSE
    BY ScanAssumption DEF Init
  <1>2. /\ listing \in Seq(1 .. created) /\ Len(listing) = created
        /\ \A i \in 1 .. created : listing[i] = created + 1 - i
    <2>1. \A i \in 1 .. created : created + 1 - i \in 1 .. created
      BY <1>1
    <2>2. listing \in [1 .. created -> 1 .. created]
      BY <1>1, <2>1
    <2>3. \A i \in 1 .. created : listing[i] = created + 1 - i
      BY <1>1
    <2> QED
      BY <1>1, <2>2, <2>3, LenProperties
  <1>3. At = 0 /\ PageSize \in Nat /\ maxJobsTotal \in Nat \ {0}
    BY <1>1, ScanAssumption DEF At
  <1>4. result \in Seq(1 .. created) /\ Len(result) = 0
    BY <1>1
  <1>5. Typed
    <2>1. \A a, b \in 1 .. Len(listing) : listing[a] = listing[b] => a = b
      <3>1. \A a, b \in 1 .. created : created + 1 - a = created + 1 - b => a = b
        BY <1>1
      <3> QED
        BY <1>2, <3>1
    <2>2. /\ start \in Seq(1 .. created) /\ Len(start) = created
          /\ \A i \in 1 .. Len(start) : start[i] = Len(start) + 1 - i
      BY <1>1, <1>2
    <2>3. created \in Nat /\ 1 \in 1 .. created + 1
      BY <1>1
    <2>4. inserts \in BOOLEAN /\ deletes \in BOOLEAN
      BY <1>1, Zenon
    <2>5. scanner \in Scanners /\ created \in 0 .. MaxItems /\ page = 1 /\ pc = "fetch"
      BY <1>1
    <2> QED
      BY <1>2, <1>4, <2>1, <2>2, <2>3, <2>4, <2>5 DEF Typed
  <1>6. Sized
    BY <1>3, <1>4 DEF Sized
  <1>7. Missing
    <2>1. \A k \in 1 .. Len(start) : At < k /\ listing[k] = start[k] /\ k \in 1 .. Len(listing)
      BY <1>1, <1>2, <1>3
    <2> QED
      BY <2>1 DEF Missing
  <1>8. Older
    BY <1>1, <1>2, <1>4 DEF Older, Descending
  <1>9. Exactly
    <2>1. SubSeq(start, 1, 0) \in Seq(1 .. created) /\ Len(SubSeq(start, 1, 0)) = 0
      BY <1>1, <1>2, FirstOf
    <2>2. SubSeq(start, 1, At) = <<>>
      BY <1>3, <2>1, EmptySeq
    <2>3. Only(SubSeq(start, 1, At), Wanted) = result
      BY <1>1, <2>2, OnlyEmpty
    <2> QED
      BY <1>1, <1>2, <1>3, <2>3 DEF Exactly
  <1>10. NothingMissed /\ Exact
    BY <1>1 DEF NothingMissed, Exact
  <1> QED
    BY <1>5, <1>6, <1>7, <1>8, <1>9, <1>10 DEF Inv

-----------------------------------------------------------------------------
(* What others do to the listing.                                          *)
LEMMA Creates ==
    ASSUME Inv, NEW i \in 1 .. (Len(listing) + 1), Create(i)
    PROVE  Inv'
  <1>1. /\ Typed /\ Sized /\ Missing
    BY DEF Inv
  <1>2. /\ pc = "fetch" /\ created < MaxItems /\ created' = created + 1
        /\ listing' = InsertAt(listing, i, created + 1) /\ inserts' = TRUE
        /\ UNCHANGED <<scanner, page, result, pc, start, deletes>>
    BY DEF Create
  <1>3. created \in Nat /\ MaxItems \in Nat /\ Len(listing) \in Nat
    BY <1>1, LenProperties, ScanAssumption DEF Typed
  <1>4. 1 .. created \subseteq 1 .. created'
    BY <1>2, <1>3
  <1>5. /\ listing \in Seq(1 .. created') /\ result \in Seq(1 .. created')
        /\ start \in Seq(1 .. created')
    BY <1>1, <1>4, SeqMonotonic DEF Typed
  <1>6. created + 1 \in 1 .. created'
    BY <1>2, <1>3
  <1>7. /\ listing' \in Seq(1 .. created') /\ Len(listing') = Len(listing) + 1
        /\ \A j \in 1 .. Len(listing) : j < i => listing'[j] = listing[j]
        /\ listing'[i] = created + 1
        /\ \A j \in 1 .. Len(listing) : i <= j => listing'[j + 1] = listing[j]
    <2> DEFINE X == 1 .. created'
               e == created + 1
               longer == InsertAt(listing, i, e)
    <2>1. listing \in Seq(X) /\ e \in X /\ i \in 1 .. Len(listing) + 1
      BY <1>5, <1>6
    <2> HIDE DEF X, e
    <2>2. /\ longer \in Seq(X) /\ Len(longer) = Len(listing) + 1
          /\ \A j \in 1 .. Len(listing) : j < i => longer[j] = listing[j]
          /\ longer[i] = e
          /\ \A j \in 1 .. Len(listing) : i <= j => longer[j + 1] = listing[j]
      BY <2>1, InsertFacts
    <2>3. listing' = longer
      BY <1>2 DEF e
    <2> HIDE DEF longer
    <2> QED
      BY <2>2, <2>3 DEF X, e
  <1>8. At' = At
    BY <1>2 DEF At
  <1>9. Typed'
    <2>1. \A a \in 1 .. Len(listing) : listing[a] \in Nat /\ listing[a] <= created
      BY <1>1, ElementOfSeq DEF Typed
    <2>2. ASSUME NEW a \in 1 .. Len(listing'), NEW b \in 1 .. Len(listing'),
                 listing'[a] = listing'[b], a < b
          PROVE  FALSE
      <3>1. \A c, d \in 1 .. Len(listing) : listing[c] = listing[d] => c = d
        BY <1>1 DEF Typed
      <3>2. CASE b < i
        <4>1. a \in 1 .. Len(listing) /\ b \in 1 .. Len(listing) /\ a < i /\ a # b
          BY <1>3, <1>7, <2>2, <3>2
        <4>2. listing'[a] = listing[a] /\ listing'[b] = listing[b]
          BY <1>7, <3>2, <4>1
        <4> QED
          BY <2>2, <3>1, <4>1, <4>2
      <3>3. CASE b = i
        BY <1>3, <1>7, <2>1, <2>2, <3>3
      <3>4. CASE i < b
        <4>1. b - 1 \in 1 .. Len(listing) /\ i <= b - 1 /\ (b - 1) + 1 = b
          BY <1>3, <1>7, <2>2, <3>4
        <4>2. listing'[b] = listing[b - 1]
          BY <1>7, <4>1
        <4>3. CASE a < i
          BY <1>3, <1>7, <2>2, <3>1, <4>1, <4>2, <4>3
        <4>4. CASE a = i
          BY <1>3, <1>7, <2>1, <2>2, <4>1, <4>2, <4>4
        <4>5. CASE i < a
          <5>1. a - 1 \in 1 .. Len(listing) /\ i <= a - 1 /\ (a - 1) + 1 = a
            BY <1>3, <1>7, <2>2, <4>5
          <5>2. listing'[a] = listing[a - 1]
            BY <1>7, <5>1
          <5> QED
            BY <2>2, <3>1, <4>1, <4>2, <5>1, <5>2
        <4> QED
          BY <4>3, <4>4, <4>5
      <3> QED
        BY <1>3, <3>2, <3>3, <3>4
    <2>3. \A a, b \in 1 .. Len(listing') : listing'[a] = listing'[b] => a = b
      BY <1>3, <1>7, <2>2
    <2>4. /\ created' \in 0 .. MaxItems /\ Len(listing') <= created'
          /\ page' \in 1 .. (created' + 1) /\ Len(start') <= created'
      BY <1>1, <1>2, <1>3, <1>7 DEF Typed
    <2> QED
      BY <1>1, <1>2, <1>5, <1>7, <2>3, <2>4 DEF Typed
  <1>10. Sized'
    BY <1>1, <1>2, <1>8 DEF Sized
  <1>11. Missing'
    <2> SUFFICES ASSUME ~deletes, NEW k \in 1 .. Len(start), start[k] \in Wanted,
                        NEW j \in 1 .. Len(listing), At < j, listing[j] = start[k]
                 PROVE  \E n \in 1 .. Len(listing') : At < n /\ listing'[n] = start[k]
      BY <1>1, <1>2, <1>8 DEF Missing, Wanted
    <2>1. At \in Nat
      BY <1>1, PageRead
    <2>2. CASE j < i
      BY <1>3, <1>7, <2>2
    <2>3. CASE i <= j
      <3>1. j + 1 \in 1 .. Len(listing') /\ At < j + 1 /\ listing'[j + 1] = start[k]
        BY <1>3, <1>7, <2>1, <2>3
      <3> QED
        BY <3>1
    <2> QED
      BY <1>3, <2>2, <2>3
  <1>12. Older' /\ Exactly'
    BY <1>2 DEF Older, Exactly
  <1>13. NothingMissed' /\ Exact'
    BY <1>2 DEF NothingMissed, Exact
  <1> QED
    BY <1>9, <1>10, <1>11, <1>12, <1>13 DEF Inv

LEMMA Deletes ==
    ASSUME Inv, NEW i \in 1 .. Len(listing), Delete(i)
    PROVE  Inv'
  <1>1. /\ Typed /\ Sized /\ Older
    BY DEF Inv
  <1>2. /\ pc = "fetch" /\ listing' = RemoveAt(listing, i) /\ deletes' = TRUE
        /\ UNCHANGED <<scanner, created, page, result, pc, start, inserts>>
    BY DEF Delete
  <1>3. created \in Nat /\ Len(listing) \in Nat /\ At \in Nat
    BY <1>1, PageRead, ScanAssumption DEF Typed
  <1>4. /\ listing' \in Seq(1 .. created) /\ Len(listing') = Len(listing) - 1
        /\ \A j \in 1 .. Len(listing) - 1 :
               listing'[j] = IF j < i THEN listing[j] ELSE listing[j + 1]
    BY <1>1, <1>2, RemoveFacts DEF Typed
  <1>5. At' = At
    BY <1>2 DEF At
  <1> DEFINE was(j) == IF j < i THEN j ELSE j + 1
  <1>11. \A j \in 1 .. Len(listing') :
             was(j) \in 1 .. Len(listing) /\ j <= was(j) /\ listing'[j] = listing[was(j)]
    BY <1>3, <1>4
  <1>12. \A j, k \in 1 .. Len(listing') : j < k => was(j) < was(k)
    BY <1>3, <1>4
  <1> HIDE DEF was
  <1>6. Typed'
    <2>1. \A a, b \in 1 .. Len(listing) : listing[a] = listing[b] => a = b
      BY <1>1 DEF Typed
    <2>2. \A a, b \in 1 .. Len(listing') : listing'[a] = listing'[b] => a = b
      <3>1. ASSUME NEW a \in 1 .. Len(listing'), NEW b \in 1 .. Len(listing'),
                   listing'[a] = listing'[b], a < b
            PROVE  FALSE
        <4>1. was(a) \in 1 .. Len(listing) /\ was(b) \in 1 .. Len(listing) /\ was(a) = was(b)
          BY <1>11, <2>1, <3>1
        <4> QED
          BY <1>3, <1>12, <3>1, <4>1
      <3> QED
        BY <1>3, <1>4, <3>1
    <2>3. Len(listing') <= created'
      BY <1>1, <1>2, <1>3, <1>4 DEF Typed
    <2> QED
      BY <1>1, <1>2, <1>4, <2>2, <2>3 DEF Typed
  <1>7. Sized'
    BY <1>1, <1>2, <1>5 DEF Sized
  <1>8. Older'
    <2> SUFFICES ASSUME ~inserts, scanner # "ListRepositories"
                 PROVE  /\ Descending(listing')
                        /\ \A n \in 1 .. Len(result), j \in 1 .. Len(listing') :
                               At < j => listing'[j] < result[n]
      BY <1>1, <1>2, <1>5 DEF Older
    <2>1. /\ \A j, k \in 1 .. Len(listing) : j < k => listing[k] < listing[j]
          /\ \A n \in 1 .. Len(result), j \in 1 .. Len(listing) :
                 At < j => listing[j] < result[n]
      BY <1>1, <1>2 DEF Older, Descending
    <2>2. Descending(listing')
      BY <1>11, <1>12, <2>1 DEF Descending
    <2>3. \A n \in 1 .. Len(result), j \in 1 .. Len(listing') :
             At < j => listing'[j] < result[n]
      <3> SUFFICES ASSUME NEW n \in 1 .. Len(result), NEW j \in 1 .. Len(listing'), At < j
                   PROVE  listing[was(j)] < result[n]
        BY <1>11
      <3>1. was(j) \in 1 .. Len(listing) /\ At < was(j)
        BY <1>3, <1>4, <1>11
      <3> QED
        BY <2>1, <3>1
    <2> QED
      BY <2>2, <2>3
  <1>9. Missing' /\ Exactly'
    BY <1>2 DEF Missing, Exactly
  <1>10. NothingMissed' /\ Exact'
    BY <1>2 DEF NothingMissed, Exact
  <1> QED
    BY <1>6, <1>7, <1>8, <1>9, <1>10 DEF Inv

-----------------------------------------------------------------------------
(* A turn that is not the last one.                                        *)
LEMMA TurnTyped ==
    ASSUME Inv, GoesToNext
    PROVE  Typed' /\ Sized'
  <1>1. Typed /\ Sized
    BY DEF Inv
  <1>2. /\ page' = IF scanner = "ListRepositories" THEN 1 ELSE page + 1
        /\ At' = IF scanner = "ListRepositories" THEN 0 ELSE At + PageSize
        /\ At + PageSize < Len(listing)
        /\ result' \in Seq(1 .. created) /\ Len(result') <= Len(Both)
        /\ scanner # "ListRepositories" => result' = Both
        /\ pc' = "fetch"
        /\ UNCHANGED <<scanner, listing, created, start, inserts, deletes>>
    BY <1>1, TurnGoesOn
  <1>3. /\ created \in Nat /\ PageSize \in Nat \ {0} /\ page \in Nat \ {0}
        /\ Len(listing) \in Nat /\ Len(listing) <= created
    BY <1>1, LenProperties, ScanAssumption DEF Typed
  <1>4. page + 1 \in 1 .. (created + 1)
    <2>1. page * PageSize < Len(listing) /\ page * PageSize \in Nat
      BY <1>1, <1>2, <1>3, PageRead
    <2>2. 1 * page <= PageSize * page /\ PageSize * page = page * PageSize /\ 1 * page = page
      BY <1>3, Product
    <2> QED
      BY <1>3, <2>1, <2>2
  <1>5. Typed'
    BY <1>1, <1>2, <1>3, <1>4 DEF Typed
  <1>6. Sized'
    <2>1. /\ Len(Both) = Len(result) + Len(Kept) /\ Len(Kept) <= Len(Here.items)
          /\ Len(Kept) \in Nat /\ Len(result) \in Nat
      BY <1>1, BothRead
    <2>2. Len(Here.items) <= PageSize /\ Len(Here.items) \in Nat /\ At \in Nat
      BY <1>1, PageRead
    <2>3. pc = "fetch" /\ ~Capped(Both)
      BY DEF GoesToNext
    <2>4. scanner # "ListRepositories" => Len(result') <= At'
      BY <1>1, <1>2, <1>3, <2>1, <2>2, <2>3 DEF Sized
    <2>5. scanner = "ListPipelineJobs" => Len(result') < maxJobsTotal
      BY <1>2, <2>1, <2>3, ScanAssumption DEF Capped
    <2> QED
      BY <1>2, <2>4, <2>5 DEF Sized
  <1> QED
    BY <1>5, <1>6

\* What was collected stays so, what is on the page is collected, and what is
\* behind it is still to come.
LEMMA TurnMisses ==
    ASSUME Inv, GoesToNext
    PROVE  Missing'
  <1>1. Typed /\ Sized /\ Missing
    BY DEF Inv
  <1>2. /\ At' = IF scanner = "ListRepositories" THEN 0 ELSE At + PageSize
        /\ scanner # "ListRepositories" => result' = Both
        /\ At + PageSize < Len(listing)
        /\ UNCHANGED <<scanner, listing, created, start, inserts, deletes>>
    BY <1>1, TurnGoesOn
  <1>3. pc = "fetch" /\ Wanted' = Wanted
    BY <1>2 DEF GoesToNext, Wanted
  <1> SUFFICES ASSUME ~deletes, NEW k \in 1 .. Len(start), start[k] \in Wanted
               PROVE  \/ scanner # "ListRepositories" /\ Contains(Both, start[k])
                      \/ \E j \in 1 .. Len(listing) : At' < j /\ listing[j] = start[k]
    BY <1>2, <1>3 DEF Missing
  <1>4. At \in Nat /\ PageSize \in Nat /\ Len(listing) \in Nat
    BY <1>1, PageRead, ScanAssumption
  <1>5. \/ scanner # "ListRepositories" /\ Contains(result, start[k])
        \/ \E j \in 1 .. Len(listing) : At < j /\ listing[j] = start[k]
    BY <1>1, <1>3 DEF Missing
  <1>6. CASE scanner = "ListRepositories"
    BY <1>2, <1>5, <1>6
  <1>7. CASE scanner # "ListRepositories" /\ Contains(result, start[k])
    BY <1>1, <1>7, BothHasFirst
  <1>8. ASSUME NEW j \in 1 .. Len(listing), At < j, listing[j] = start[k],
               scanner # "ListRepositories"
        PROVE  \/ Contains(Both, start[k])
               \/ \E n \in 1 .. Len(listing) : At' < n /\ listing[n] = start[k]
    <2>1. CASE At + PageSize < j
      BY <1>2, <1>8, <2>1
    <2>2. CASE j <= At + PageSize
      BY <1>1, <1>8, <2>2, <1>4, BothHasHere
    <2> QED
      BY <1>4, <2>1, <2>2
  <1> QED
    BY <1>5, <1>6, <1>7, <1>8

\* As long as nothing is created, the items behind the page are older than those
\* on it, and those on it than what there was.
LEMMA TurnOrders ==
    ASSUME Typed, Older, pc = "fetch", ~inserts, scanner # "ListRepositories"
    PROVE  /\ Descending(Both)
           /\ \A i \in 1 .. Len(Both), j \in 1 .. Len(listing) :
                  At + PageSize < j => listing[j] < Both[i]
  <1>1. /\ \A j, k \in 1 .. Len(listing) : j < k => listing[k] < listing[j]
        /\ \A j, k \in 1 .. Len(result) : j < k => result[k] < result[j]
        /\ \A i \in 1 .. Len(result), j \in 1 .. Len(listing) :
              At < j => listing[j] < result[i]
    BY DEF Older, Descending
  <1>2. /\ At \in Nat /\ Len(listing) \in Nat /\ PageSize \in Nat /\ Len(Here.items) \in Nat
        /\ Here.items \in Seq(1 .. created) /\ Len(Here.items) <= PageSize
        /\ \A j \in 1 .. Len(Here.items) :
               At + j \in 1 .. Len(listing) /\ Here.items[j] = listing[At + j]
    BY PageRead, ScanAssumption
  <1>3. /\ Len(result) \in Nat /\ Len(Kept) \in Nat /\ Len(Both) = Len(result) + Len(Kept)
        /\ \A n \in 1 .. Len(Both) :
              Both[n] = IF n <= Len(result) THEN result[n] ELSE Kept[n - Len(result)]
    BY BothRead
  <1>4. From(Here.items, Kept) /\ InOrder(Here.items, Kept)
    BY <1>2, OnlyInOrder DEF Kept
  <1>5. ASSUME NEW k \in 1 .. Len(Kept)
        PROVE  \E a \in 1 .. Len(listing) : At < a /\ a <= At + PageSize /\ listing[a] = Kept[k]
    <2>1. PICK a \in 1 .. Len(Here.items) : Here.items[a] = Kept[k]
      BY <1>4 DEF From
    <2>2. At + a \in 1 .. Len(listing) /\ At < At + a /\ At + a <= At + PageSize
      BY <1>2
    <2>3. listing[At + a] = Kept[k]
      BY <1>2, <2>1
    <2> QED
      BY <2>2, <2>3
  <1>6. ASSUME NEW j \in 1 .. Len(Kept), NEW k \in 1 .. Len(Kept), j < k
        PROVE  Kept[k] < Kept[j]
    <2>1. PICK a, b \in 1 .. Len(Here.items) :
              a < b /\ Here.items[a] = Kept[j] /\ Here.items[b] = Kept[k]
      BY <1>4, <1>6 DEF InOrder
    <2>2. /\ At + a \in 1 .. Len(listing) /\ At + b \in 1 .. Len(listing)
          /\ Here.items[a] = listing[At + a] /\ Here.items[b] = listing[At + b]
      BY <1>2
    <2>3. At + a < At + b
      BY <1>2, <2>1
    <2> QED
      BY <1>1, <2>1, <2>2, <2>3
  <1>7. ASSUME NEW i \in 1 .. Len(result), NEW k \in 1 .. Len(Kept)
        PROVE  Kept[k] < result[i]
    BY <1>1, <1>5
  <1>8. Descending(Both)
    <2> SUFFICES ASSUME NEW j \in 1 .. Len(Both), NEW k \in 1 .. Len(Both), j < k
                 PROVE  Both[k] < Both[j]
      BY DEF Descending
    <2>1. CASE k <= Len(result)
      <3>1. j \in 1 .. Len(result) /\ k \in 1 .. Len(result) /\ j <= Len(result)
        BY <1>3, <2>1
      <3> QED
        BY <1>1, <1>3, <2>1, <3>1
    <2>2. CASE j <= Len(result) /\ ~(k <= Len(result))
      <3>1. j \in 1 .. Len(result) /\ k - Len(result) \in 1 .. Len(Kept)
        BY <1>3, <2>2
      <3> QED
        BY <1>3, <1>7, <2>2, <3>1
    <2>3. CASE ~(j <= Len(result))
      <3>1. /\ j - Len(result) \in 1 .. Len(Kept) /\ k - Len(result) \in 1 .. Len(Kept)
            /\ j - Len(result) < k - Len(result) /\ ~(k <= Len(result))
        BY <1>3, <2>3
      <3> QED
        BY <1>3, <1>6, <2>3, <3>1
    <2> QED
      BY <2>1, <2>2, <2>3
  <1>9. ASSUME NEW i \in 1 .. Len(Both), NEW j \in 1 .. Len(listing), At + PageSize < j
        PROVE  listing[j] < Both[i]
    <2>1. CASE i <= Len(result)
      <3>1. i \in 1 .. Len(result) /\ At < j
        BY <1>2, <1>3, <1>9, <2>1
      <3> QED
        BY <1>1, <1>3, <2>1, <3>1
    <2>2. CASE ~(i <= Len(result))
      <3>1. i - Len(result) \in 1 .. Len(Kept)
        BY <1>3, <2>2
      <3>2. PICK a \in 1 .. Len(listing) :
                a <= At + PageSize /\ listing[a] = Kept[i - Len(result)]
        BY <1>5, <3>1
      <3>3. a < j
        BY <1>2, <1>9, <3>2
      <3> QED
        BY <1>1, <1>3, <2>2, <3>2, <3>3
    <2> QED
      BY <2>1, <2>2
  <1> QED
    BY <1>8, <1>9

\* What has been collected with the page is what is wanted of the pages read.
LEMMA TurnExact ==
    ASSUME Typed, listing = start, At <= Len(start),
           result = Only(SubSeq(start, 1, At), Wanted)
    PROVE  LET n == At + Len(Here.items) IN
           n \in Nat /\ n <= Len(start) /\ Both = Only(SubSeq(start, 1, n), Wanted)
  <1> DEFINE n == At + Len(Here.items)
             first == SubSeq(start, 1, At)
             upto == SubSeq(start, 1, n)
  <1>1. /\ At \in Nat /\ Len(start) \in Nat /\ Len(Here.items) \in Nat /\ PageSize \in Nat
        /\ Here.items \in Seq(1 .. created)
        /\ Len(Here.items) = IF At + PageSize < Len(start) THEN PageSize
                             ELSE IF At < Len(start) THEN Len(start) - At ELSE 0
        /\ \A j \in 1 .. Len(Here.items) :
               At + j \in 1 .. Len(start) /\ Here.items[j] = start[At + j]
    BY PageRead, ScanAssumption
  <1>2. n \in Nat /\ n <= Len(start)
    BY <1>1
  <1>3. start \in Seq(1 .. created)
    BY DEF Typed
  <1>4. /\ first \in Seq(1 .. created) /\ Len(first) = At
        /\ \A i \in 1 .. At : first[i] = start[i]
    BY <1>1, <1>3, FirstOf
  <1> HIDE DEF n
  <1>5. /\ upto \in Seq(1 .. created) /\ Len(upto) = n
        /\ \A i \in 1 .. n : upto[i] = start[i]
    BY <1>2, <1>3, FirstOf
  <1> HIDE DEF first, upto
  <1>6. first \o Here.items = upto
    <2> DEFINE all == first \o Here.items
    <2>1. /\ all \in Seq(1 .. created) /\ Len(all) = At + Len(Here.items)
          /\ \A i \in 1 .. At + Len(Here.items) :
                 all[i] = IF i <= At THEN first[i] ELSE Here.items[i - At]
      <3> DEFINE X == 1 .. created
                 items == Here.items
      <3>1. first \in Seq(X) /\ items \in Seq(X) /\ Len(first) = At
        BY <1>1, <1>4
      <3> HIDE DEF X, items
      <3>2. /\ first \o items \in Seq(X) /\ Len(first \o items) = Len(first) + Len(items)
            /\ \A i \in 1 .. Len(first) + Len(items) :
                   (first \o items)[i] = IF i <= Len(first) THEN first[i]
                                         ELSE items[i - Len(first)]
        BY <3>1, ConcatProperties
      <3> QED
        BY <3>1, <3>2 DEF X, items
    <2>2. Len(all) = n
      BY <2>1 DEF n
    <2>3. ASSUME NEW i \in 1 .. n PROVE all[i] = upto[i]
      <3>1. CASE i <= At
        <4>1. i \in 1 .. At /\ i \in 1 .. At + Len(Here.items)
          BY <1>1, <2>3, <3>1 DEF n
        <4>2. all[i] = first[i] /\ first[i] = start[i] /\ upto[i] = start[i]
          <5> HIDE DEF all
          <5> QED
            BY <1>4, <1>5, <2>1, <2>3, <3>1, <4>1
        <4> QED
          BY <4>2
      <3>2. CASE ~(i <= At)
        <4>1. i - At \in 1 .. Len(Here.items) /\ At + (i - At) = i
          BY <1>1, <2>3, <3>2 DEF n
        <4>2. Here.items[i - At] = start[i]
          BY <1>1, <4>1
        <4> QED
          BY <1>1, <1>5, <2>1, <2>3, <3>2, <4>2 DEF n
      <3> QED
        BY <3>1, <3>2
    <2> HIDE DEF all
    <2>4. all = upto
      BY <1>5, <2>1, <2>2, <2>3, SeqEqual
    <2> QED
      BY <2>4 DEF all
  <1>7. Only(first \o Here.items, Wanted) = Only(first, Wanted) \o Only(Here.items, Wanted)
    BY <1>1, <1>4, OnlyConcat
  <1>8. Both = Only(upto, Wanted)
    BY <1>6, <1>7 DEF Both, Kept, first
  <1> QED
    BY <1>2, <1>8 DEF n, upto

LEMMA GoingOn ==
    ASSUME Inv, GoesToNext
    PROVE  Inv'
  <1>1. Typed /\ Sized /\ Older /\ Exactly
    BY DEF Inv
  <1>2. /\ At' = IF scanner = "ListRepositories" THEN 0 ELSE At + PageSize
        /\ At + PageSize < Len(listing)
        /\ scanner # "ListRepositories" => result' = Both
        /\ pc' = "fetch"
        /\ UNCHANGED <<scanner, listing, created, start, inserts, deletes>>
    BY <1>1, TurnGoesOn
  <1>3. pc = "fetch" /\ At \in Nat /\ PageSize \in Nat /\ Len(listing) \in Nat
    BY <1>1, PageRead, ScanAssumption DEF GoesToNext
  <1>4. Typed' /\ Sized' /\ Missing'
    BY TurnTyped, TurnMisses
  <1>5. Older'
    <2> SUFFICES ASSUME ~inserts, scanner # "ListRepositories"
                 PROVE  /\ created = Len(start)
                        /\ Descending(listing)
                        /\ Descending(Both)
                        /\ \A i \in 1 .. Len(Both), j \in 1 .. Len(listing) :
                               At + PageSize < j => listing[j] < Both[i]
      BY <1>2 DEF Older
    <2>1. created = Len(start) /\ Descending(listing)
      BY <1>1 DEF Older
    <2> QED
      BY <1>1, <1>3, <2>1, TurnOrders
  <1>6. Exactly'
    <2> SUFFICES ASSUME ~inserts, ~deletes
                 PROVE  /\ listing = start
                        /\ \/ At' <= Len(start) /\ result' = Only(SubSeq(start, 1, At'), Wanted)
                           \/ scanner = "ListRepositories" /\ PageSize < Len(start)
      BY <1>2 DEF Exactly, Wanted
    <2>1. /\ listing = start
          /\ \/ At <= Len(start) /\ result = Only(SubSeq(start, 1, At), Wanted)
             \/ scanner = "ListRepositories" /\ PageSize < Len(start)
      BY <1>1, <1>3 DEF Exactly
    <2>2. CASE scanner = "ListRepositories"
      BY <1>2, <1>3, <2>1, <2>2
    <2>3. CASE scanner # "ListRepositories"
      <3>1. Len(Here.items) = PageSize
        BY <1>1, <1>2, PageRead
      <3>2. Both = Only(SubSeq(start, 1, At + PageSize), Wanted)
        BY <1>1, <2>1, <2>3, <3>1, TurnExact
      <3> QED
        BY <1>2, <1>3, <2>1, <2>3, <3>2
    <2> QED
      BY <2>2, <2>3
  <1>7. NothingMissed' /\ Exact'
    BY <1>2 DEF NothingMissed, Exact
  <1> QED
    BY <1>4, <1>5, <1>6, <1>7 DEF Inv

-----------------------------------------------------------------------------
(* The last turn, and a turn that fails.                                   *)

\* The order that the jobs are returned in.
LEMMA JobsReversed ==
    ASSUME NEW X, X \subseteq Nat, NEW s \in Seq(X), Descending(s)
    PROVE  Arranged(s) = IF scanner = "ListPipelineJobs" THEN Reverse(s) ELSE s
  BY SortedReverses DEF Arranged

LEMMA EndMisses ==
    ASSUME Inv, Ends
    PROVE  NothingMissed'
  <1>1. Typed /\ Missing /\ pc = "fetch"
    BY DEF Inv, Ends
  <1> DEFINE all == Collect(Here.items)
  <1>2. /\ result' = Arranged(all) /\ UNCHANGED <<scanner, start, deletes>>
    BY <1>1, TurnEnds
  <1>3. /\ all \in Seq(1 .. created) /\ (Capped(all) <=> Capped(Both))
        /\ ~Capped(Both) => all = Both
    BY <1>1, Collected
  <1> HIDE DEF all
  <1>4. 1 .. created \subseteq Nat
    OBVIOUS
  <1>5. /\ Len(Arranged(all)) = Len(all)
        /\ \A n \in 1 .. Len(all) : Contains(Arranged(all), all[n])
    BY <1>3, <1>4, ArrangedType
  <1>6. Capped(result)' <=> Capped(all)
    BY <1>2, <1>5 DEF Capped
  <1> SUFFICES ASSUME ~deletes, ~Capped(Both), NEW k \in 1 .. Len(start), start[k] \in Wanted
               PROVE  Contains(Arranged(Both), start[k])
    BY <1>2, <1>3, <1>6 DEF NothingMissed, Wanted
  <1>7. Contains(Both, start[k])
    <2>1. ~More(Here)
      BY DEF Ends
    <2>2. At \in Nat /\ PageSize \in Nat /\ Len(listing) \in Nat /\ ~(At + PageSize < Len(listing))
      BY <1>1, <2>1, PageRead, ScanAssumption
    <2>3. \/ Contains(result, start[k])
          \/ \E j \in 1 .. Len(listing) : At < j /\ listing[j] = start[k]
      BY <1>1 DEF Missing
    <2>4. CASE Contains(result, start[k])
      BY <1>1, <2>4, BothHasFirst
    <2>5. CASE \E j \in 1 .. Len(listing) : At < j /\ listing[j] = start[k]
      <3>1. PICK j \in 1 .. Len(listing) : At < j /\ listing[j] = start[k]
        BY <2>5
      <3>2. j <= At + PageSize
        BY <2>2
      <3> QED
        BY <1>1, <3>1, <3>2, BothHasHere
    <2> QED
      BY <2>3, <2>4, <2>5
  <1>8. PICK n \in 1 .. Len(Both) : Both[n] = start[k]
    BY <1>7 DEF Contains
  <1> QED
    BY <1>3, <1>5, <1>8

LEMMA EndExact ==
    ASSUME Inv, Ends
    PROVE  Exact'
  <1>1. Typed /\ Sized /\ Exactly /\ pc = "fetch"
    BY DEF Inv, Ends
  <1> DEFINE all == Collect(Here.items)
             wanted == Only(start, Wanted)
             first == IF Len(wanted) > maxJobsTotal THEN SubSeq(wanted, 1, maxJobsTotal) ELSE wanted
  <1>2. result' = Arranged(all) /\ UNCHANGED <<scanner, start, inserts, deletes>>
    BY <1>1, TurnEnds
  <1> SUFFICES ASSUME ~inserts, ~deletes
               PROVE  Arranged(all) = IF scanner = "ListPipelineJobs" THEN Reverse(first) ELSE wanted
    BY <1>2 DEF Exact, Wanted
  <1>3. /\ listing = start
        /\ \/ At <= Len(start) /\ result = Only(SubSeq(start, 1, At), Wanted)
           \/ scanner = "ListRepositories" /\ PageSize < Len(start)
    BY <1>1 DEF Exactly
  <1>4. At <= Len(start) /\ result = Only(SubSeq(start, 1, At), Wanted)
    <2> SUFFICES ASSUME scanner = "ListRepositories", PageSize < Len(start) PROVE FALSE
      BY <1>3
    <2>1. page = 1
      BY <1>1 DEF Typed
    <2>2. At = 0 /\ PageSize \in Nat
      BY <2>1, ScanAssumption DEF At
    <2>3. More(Here)
      BY <1>1, <1>3, <2>2, PageRead
    <2>4. ~Capped(Both)
      BY DEF Capped
    <2> QED
      BY <2>3, <2>4 DEF Ends
  <1> DEFINE n == At + Len(Here.items)
  <1>5. n \in Nat /\ n <= Len(start) /\ Both = Only(SubSeq(start, 1, n), Wanted)
    BY <1>1, <1>3, <1>4, TurnExact
  <1>6. ~More(Here) => n = Len(start)
    <2>1. /\ At \in Nat /\ PageSize \in Nat /\ Len(start) \in Nat
          /\ More(Here) <=> At + PageSize < Len(start)
          /\ Len(Here.items) = IF At + PageSize < Len(start) THEN PageSize
                               ELSE IF At < Len(start) THEN Len(start) - At ELSE 0
      BY <1>1, <1>3, PageRead, ScanAssumption
    <2> QED
      BY <1>4, <2>1
  <1> HIDE DEF n
  <1>7. /\ start \in Seq(1 .. created) /\ 1 .. created \subseteq Nat /\ Len(start) \in Nat
        /\ maxJobsTotal \in Nat
    BY <1>1, LenProperties, ScanAssumption DEF Typed
  <1>8. Descending(start)
    <2>1. \A i \in 1 .. Len(start) : start[i] = Len(start) + 1 - i
      BY <1>1 DEF Typed
    <2> QED
      BY <1>7, <2>1 DEF Descending
  <1>9. CASE scanner # "ListPipelineJobs"
    <2>1. ~Capped(Both) /\ ~More(Here)
      BY <1>9 DEF Capped, Ends
    <2>2. all = Both
      BY <1>1, <2>1, Collected
    <2>3. SubSeq(start, 1, n) = start
      BY <1>6, <1>7, <2>1, SubSeqFull
    <2> QED
      BY <1>5, <1>9, <2>2, <2>3 DEF Arranged
  <1>10. CASE scanner = "ListPipelineJobs"
    <2>1. Wanted = Nat
      BY <1>10 DEF Wanted
    <2>2. wanted = start
      BY <1>7, <2>1, OnlyAll
    <2>3. /\ SubSeq(start, 1, n) \in Seq(1 .. created) /\ Len(SubSeq(start, 1, n)) = n
          /\ \A i \in 1 .. n : SubSeq(start, 1, n)[i] = start[i]
      BY <1>5, <1>7, FirstOf
    <2>4. Both = SubSeq(start, 1, n)
      BY <1>5, <1>7, <2>1, <2>3, OnlyAll
    <2>5. all = first
      <3>1. CASE ~Capped(Both)
        <4>1. ~More(Here) /\ all = Both
          BY <1>1, <3>1, Collected DEF Ends
        <4>2. all = start
          BY <1>6, <1>7, <2>4, <4>1, SubSeqFull
        <4>3. Len(start) < maxJobsTotal
          BY <1>7, <1>10, <3>1, <4>1, <4>2 DEF Capped
        <4> QED
          BY <1>7, <2>2, <4>2, <4>3
      <3>2. CASE Capped(Both)
        <4>1. maxJobsTotal <= n
          BY <1>5, <1>7, <2>3, <2>4, <3>2 DEF Capped
        <4>2. /\ all \in Seq(1 .. created) /\ Len(all) = maxJobsTotal
              /\ \A i \in 1 .. maxJobsTotal : all[i] = Both[i]
          <5> DEFINE m == IF Capped(Both) THEN maxJobsTotal ELSE Len(Both)
          <5>1. /\ all \in Seq(1 .. created) /\ Len(all) = m
                /\ \A i \in 1 .. m : all[i] = Both[i]
            BY <1>1, Collected
          <5>2. m = maxJobsTotal
            BY <3>2
          <5> HIDE DEF all, m
          <5> QED
            BY <5>1, <5>2
        <4>3. /\ SubSeq(start, 1, maxJobsTotal) \in Seq(1 .. created)
              /\ Len(SubSeq(start, 1, maxJobsTotal)) = maxJobsTotal
              /\ \A i \in 1 .. maxJobsTotal : SubSeq(start, 1, maxJobsTotal)[i] = start[i]
          <5>1. maxJobsTotal <= Len(start)
            BY <1>5, <1>7, <4>1
          <5> QED
            BY <1>7, <5>1, FirstOf
        <4>4. \A i \in 1 .. maxJobsTotal : Both[i] = start[i]
          BY <1>5, <1>7, <2>3, <2>4, <4>1
        <4> HIDE DEF all
        <4>5. all = SubSeq(start, 1, maxJobsTotal)
          BY <4>2, <4>3, <4>4, SeqEqual
        <4>6. Len(start) = maxJobsTotal => SubSeq(start, 1, maxJobsTotal) = start
          BY <1>7, SubSeqFull
        <4> QED
          BY <1>5, <1>7, <2>2, <4>1, <4>5, <4>6
      <3> QED
        BY <3>1, <3>2
    <2>6. first \in Seq(1 .. created) /\ Descending(first)
      <3>1. Len(start) > maxJobsTotal =>
                /\ SubSeq(start, 1, maxJobsTotal) \in Seq(1 .. created)
                /\ Len(SubSeq(start, 1, maxJobsTotal)) = maxJobsTotal
                /\ \A i \in 1 .. maxJobsTotal : SubSeq(start, 1, maxJobsTotal)[i] = start[i]
        <4> SUFFICES ASSUME Len(start) > maxJobsTotal
                     PROVE  /\ SubSeq(start, 1, maxJobsTotal) \in Seq(1 .. created)
                            /\ Len(SubSeq(start, 1, maxJobsTotal)) = maxJobsTotal
                            /\ \A i \in 1 .. maxJobsTotal :
                                  SubSeq(start, 1, maxJobsTotal)[i] = start[i]
          OBVIOUS
        <4>1. maxJobsTotal <= Len(start)
          BY <1>7
        <4> QED
          BY <1>7, <4>1, FirstOf
      <3>2. CASE Len(start) > maxJobsTotal
        <4> DEFINE f == SubSeq(start, 1, maxJobsTotal)
        <4>1. /\ f \in Seq(1 .. created) /\ Len(f) = maxJobsTotal
              /\ \A i \in 1 .. maxJobsTotal : f[i] = start[i]
          BY <3>1, <3>2
        <4>2. first = f
          BY <2>2, <3>2
        <4> HIDE DEF f, first
        <4>3. Descending(f)
          BY <1>7, <1>8, <3>2, <4>1 DEF Descending
        <4> QED
          BY <4>1, <4>2, <4>3
      <3>3. CASE ~(Len(start) > maxJobsTotal)
        BY <1>7, <1>8, <2>2, <3>3
      <3> QED
        BY <3>2, <3>3
    <2> HIDE DEF first, all
    <2>7. Arranged(first) = Reverse(first)
      BY <1>7, <1>10, <2>6, JobsReversed
    <2> QED
      BY <1>10, <2>5, <2>7
  <1> QED
    BY <1>9, <1>10

LEMMA Ending ==
    ASSUME Inv, Ends
    PROVE  Inv'
  <1>1. Typed /\ Sized /\ Older /\ pc = "fetch"
    BY DEF Inv, Ends
  <1> DEFINE all == Collect(Here.items)
             n == IF Capped(Both) THEN maxJobsTotal ELSE Len(Both)
  <1>2. /\ result' = Arranged(all) /\ pc' = "done" /\ UNCHANGED page
        /\ UNCHANGED <<scanner, listing, created, start, inserts, deletes>>
    BY <1>1, TurnEnds
  <1>3. /\ all \in Seq(1 .. created) /\ Len(all) = n /\ n \in Nat /\ n <= Len(Both)
        /\ \A i \in 1 .. n : all[i] = Both[i]
    BY <1>1, Collected
  <1> HIDE DEF all, n
  <1>4. Arranged(all) \in Seq(1 .. created)
    <2>1. 1 .. created \subseteq Nat
      OBVIOUS
    <2> QED
      BY <1>3, <2>1, ArrangedType
  <1>5. Typed'
    BY <1>1, <1>2, <1>4 DEF Typed
  <1>6. Older'
    <2> SUFFICES ASSUME ~inserts, scanner # "ListRepositories"
                 PROVE  /\ created = Len(start) /\ Descending(listing)
                        /\ scanner # "ListPipelineJobs" => Descending(Arranged(all))
      BY <1>2 DEF Older
    <2>1. created = Len(start) /\ Descending(listing)
      BY <1>1 DEF Older
    <2>2. Descending(Both) /\ Len(Both) \in Nat
      BY <1>1, TurnOrders, BothRead, LenProperties
    <2>3. Descending(all)
      BY <1>3, <2>2 DEF Descending
    <2> QED
      BY <2>1, <2>3 DEF Arranged
  <1>7. Sized' /\ Missing' /\ Exactly'
    BY <1>2 DEF Sized, Missing, Exactly
  <1>8. NothingMissed' /\ Exact'
    BY EndMisses, EndExact
  <1> QED
    BY <1>5, <1>6, <1>7, <1>8 DEF Inv

LEMMA Failing ==
    ASSUME Inv, FetchFails
    PROVE  Inv'
  <1>1. Typed /\ Older
    BY DEF Inv
  <1>2. /\ pc = "fetch" /\ pc' = "failed" /\ result' = <<>>
        /\ UNCHANGED <<scanner, listing, created, page, start, inserts, deletes>>
    BY DEF FetchFails
  <1>3. <<>> \in Seq(1 .. created) /\ Len(<<>>) = 0
    OBVIOUS
  <1>4. Typed'
    BY <1>1, <1>2, <1>3 DEF Typed
  <1>5. Older'
    BY <1>1, <1>2, <1>3 DEF Older, Descending
  <1>6. Sized' /\ Missing' /\ Exactly' /\ NothingMissed' /\ Exact'
    BY <1>2 DEF Sized, Missing, Exactly, NothingMissed, Exact
  <1> QED
    BY <1>4, <1>5, <1>6 DEF Inv

LEMMA Resting ==
    ASSUME Inv, UNCHANGED vars
    PROVE  Inv'
  <1>1. UNCHANGED <<scanner, listing, created, page, result, pc, start, inserts, deletes>>
    BY DEF vars
  <1>2. /\ Typed /\ Sized /\ Missing /\ Older /\ Exactly /\ NothingMissed /\ Exact
    BY DEF Inv
  <1>3. At' = At /\ Wanted' = Wanted /\ (Capped(result)' <=> Capped(result))
    BY <1>1 DEF At, Wanted, Capped
  <1>4. Typed' /\ Sized' /\ Missing'
    BY <1>1, <1>2, <1>3 DEF Typed, Sized, Missing
  <1>5. Older' /\ Exactly'
    BY <1>1, <1>2, <1>3 DEF Older, Exactly
  <1>6. NothingMissed' /\ Exact'
    BY <1>1, <1>2, <1>3 DEF NothingMissed, Exact
  <1> QED
    BY <1>4, <1>5, <1>6 DEF Inv

-----------------------------------------------------------------------------
(* The theorems.                                                           *)
LEMMA Invariant == Spec => []Inv
  <1>1. Init => Inv
    BY Begins
  <1>2. Inv /\ [Next]_vars => Inv'
    <2> SUFFICES ASSUME Inv, [Next]_vars PROVE Inv'
      OBVIOUS
    <2>1. CASE \E i \in 1 .. (Len(listing) + 1) : Create(i)
      BY <2>1, Creates
    <2>2. CASE \E i \in 1 .. Len(listing) : Delete(i)
      BY <2>2, Deletes
    <2>3. CASE FetchPage
      BY <2>3, EveryTurn, GoingOn, Ending DEF Inv
    <2>4. CASE FetchFails
      BY <2>4, Failing
    <2>5. CASE UNCHANGED vars
      BY <2>5, Resting
    <2> QED
      BY <2>1, <2>2, <2>3, <2>4, <2>5 DEF Next
  <1> QED
    BY <1>1, <1>2, PTL DEF Spec

\* Every variable keeps its type: the page number stays below what the listing
\* can ever fill, and an item is listed once, whatever is created and deleted
\* while the loops of pkg/github, pkg/bitbucket and internal/services/gitlab run.
THEOREM TypeCorrect == Spec => []TypeOK
  <1>1. Typed => TypeOK
    <2> SUFFICES ASSUME Typed PROVE TypeOK
      OBVIOUS
    <2>1. /\ listing \in Seq(1 .. created) /\ start \in Seq(1 .. created)
          /\ \A a, b \in 1 .. Len(listing) : listing[a] = listing[b] => a = b
      BY DEF Typed
    <2>2. DOMAIN listing = 1 .. Len(listing)
      BY <2>1, LenProperties
    <2>3. IsInjective(listing)
      BY <2>1, <2>2 DEF IsInjective
    <2>4. ToSet(listing) \subseteq 1 .. created
      <3>1. \A i \in 1 .. Len(listing) : listing[i] \in 1 .. created
        BY <2>1, ElementOfSeq
      <3> QED
        BY <2>2, <3>1 DEF ToSet
    <2>5. page \in 1 .. (Len(start) + created + 1)
      <3>1. Len(start) \in Nat /\ created \in Nat /\ page \in 1 .. (created + 1)
        BY <2>1, LenProperties, ScanAssumption DEF Typed
      <3> QED
        BY <3>1
    <2> QED
      BY <2>3, <2>4, <2>5 DEF Typed, TypeOK
  <1> QED
    BY <1>1, Invariant, PTL DEF Inv

\* No loop misses an item that was listed when it began, whatever is created
\* meanwhile and wherever it is listed, as long as nothing is deleted.
THEOREM MissesNothing == Spec => []NothingMissed
  <1>1. Inv => NothingMissed
    BY DEF Inv
  <1> QED
    BY <1>1, Invariant, PTL

\* A scan of a listing that stays as it is returns what is wanted of it, and the
\* jobs of a pipeline are the newest maxJobsTotal, oldest first.
THEOREM ReadsExactly == Spec => []Exact
  <1>1. Inv => Exact
    BY DEF Inv
  <1> QED
    BY <1>1, Invariant, PTL

\* As long as nothing is created, no loop but GitLab's ListRepositories collects
\* an item twice: that one asks for page 1 again.
THEOREM TwiceNothing ==
    ASSUME "ListRepositories" \notin Scanners
    PROVE  Spec => []NothingTwice
  <1>1. Inv => NothingTwice
    <2> SUFFICES ASSUME Inv, ~inserts, pc = "fetch" \/ scanner # "ListPipelineJobs",
                        NEW j \in 1 .. Len(result), NEW k \in 1 .. Len(result), j < k
                 PROVE  \E a, b \in 1 .. Len(start) :
                            a < b /\ start[a] = result[j] /\ start[b] = result[k]
      BY DEF NothingTwice
    <2>1. Typed /\ Older
      BY DEF Inv
    <2>2. scanner # "ListRepositories"
      BY <2>1 DEF Typed
    <2>3. created = Len(start) /\ result[k] < result[j]
      BY <2>1, <2>2 DEF Older, Descending
    <2>4. result[j] \in 1 .. created /\ result[k] \in 1 .. created /\ created \in Nat
      <3>1. result \in Seq(1 .. created) /\ created \in Nat
        BY <2>1, ScanAssumption DEF Typed
      <3> QED
        BY <3>1, ElementOfSeq
    <2> DEFINE a == created + 1 - result[j]
               b == created + 1 - result[k]
    <2>5. /\ a \in 1 .. Len(start) /\ b \in 1 .. Len(start) /\ a < b
          /\ created + 1 - a = result[j] /\ created + 1 - b = result[k]
      BY <2>3, <2>4
    <2>6. \A i \in 1 .. Len(start) : start[i] = created + 1 - i
      BY <2>1, <2>3 DEF Typed
    <2> HIDE DEF a, b
    <2>7. start[a] = result[j] /\ start[b] = result[k]
      BY <2>5, <2>6
    <2> QED
      BY <2>5, <2>7
  <1> QED
    BY <1>1, Invariant, PTL
=============================================================================
