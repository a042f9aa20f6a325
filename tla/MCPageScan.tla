----------------------------- MODULE MCPageScan -----------------------------
(***************************************************************************)
(* Values of the constants of PageScan: two items a page, at most five     *)
(* items, so that a scan has three pages and a cap falls inside one.       *)
(***************************************************************************)
EXTENDS PageScan

\* The loops that follow the provider's page numbers.
Paging == AllScanners \ {"ListRepositories"}

\* The keyword is in every other name.
Odd == {1, 3, 5, 7}

\* What Filtering defines is what the library's operators for it compute.
ASSUME FilteringAssumption ==
    \A n \in 0 .. 4 : \A items \in [1 .. n -> 1 .. 4] :
        /\ \A S \in SUBSET (1 .. 4) : Only(items, S) = SelectSeq(items, LAMBDA i : i \in S)
        /\ Sorted(items) = SortSeq(items, <)
=============================================================================
