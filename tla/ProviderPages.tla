--------------------------- MODULE ProviderPages ---------------------------
(***************************************************************************)
(* One page of a listing, as GitHub, GitLab and Bitbucket answer it: cut   *)
(* from the listing as it is when the page is asked for.                   *)
(***************************************************************************)
EXTENDS Naturals, Sequences

\* The number of pages the listing fills.
PageCount(listing, size) == (Len(listing) + size - 1) \div size

\* Page p of the listing: the items, the number of the page, and the number of
\* the next one, 0 when there is none.
PageOf(listing, p, size) ==
    [items |-> SubSeq(listing, (p - 1) * size + 1,
                      IF p * size < Len(listing) THEN p * size ELSE Len(listing)),
     page  |-> p,
     next  |-> IF p < PageCount(listing, size) THEN p + 1 ELSE 0]
=============================================================================
