------------------------- MODULE MCPullRequestPages -------------------------
(***************************************************************************)
(* Values of the constants of PullRequestPages: pages of one to three for  *)
(* the client, two pages of two of GitHub before the cap, and up to five   *)
(* pull requests, so that the cap cuts off the fifth.                      *)
(***************************************************************************)
EXTENDS PullRequestPages

\* Query parameters as they come: absent, below, within and above the bounds,
\* and a page number whose product with perPage is more than MaxInt.
SmallPages == {Absent, 0, 2, 65}
SmallPerPages == {Absent, 0, 1, 4}
=============================================================================
