------------------------------ MODULE MCServer ------------------------------
(* The instance: a git server of GitHub, and one of a provider there is not.  *)
EXTENDS Server, TLC

CONSTANTS gh, other

Providers == gh :> "github" @@ other :> "another"
=============================================================================
