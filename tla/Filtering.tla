----------------------------- MODULE Filtering -----------------------------
(***************************************************************************)
(* What the loops over a listing do with its items: keep some of them, and *)
(* sort them by their numbers.  Both are functions of the number of items  *)
(* taken so far, as the loops are, and as the proofs about them need.      *)
(***************************************************************************)
EXTENDS Naturals, Sequences

\* The items that are in S, in their order.
Only(items, S) ==
    LET kept[n \in 0 .. Len(items)] ==
            IF n = 0 THEN <<>>
            ELSE IF items[n] \in S THEN Append(kept[n - 1], items[n]) ELSE kept[n - 1]
    IN  kept[Len(items)]

\* Numbers in ascending order: each is put behind those that are not greater.
Sorted(items) ==
    LET sorted[n \in 0 .. Len(items)] ==
            IF n = 0 THEN <<>>
            ELSE Only(sorted[n - 1], 0 .. items[n]) \o <<items[n]>>
                     \o Only(sorted[n - 1], Nat \ (0 .. items[n]))
    IN  sorted[Len(items)]
=============================================================================
