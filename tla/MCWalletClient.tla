--------------------------- MODULE MCWalletClient ---------------------------
(***************************************************************************)
(* Requests for the model-checking run of WalletClient: two attempts under *)
(* one key, each with an id of its own and for another amount, one under a *)
(* second key, and one that the client refuses by itself.                  *)
(***************************************************************************)
EXTENDS WalletClient, TLC

CONSTANTS s1, s2, s3, k1, k2

MCPreflightDefects == {"policy_not_allow"}
MCReasons == CodeReasons \cup MCPreflightDefects

Body(k, s, total, defect) == [key |-> k, spend |-> s, total |-> total, defect |-> defect]

Attempts ==
  { Body(k1, s1, 2, "ok"), Body(k1, s2, 1, "ok"), Body(k2, s2, 2, "ok"),
    Body(k2, s3, 2, "policy_not_allow") }

\* An amount of 1, with a fee of 1 or none.
MCAmountOf == [r \in Attempts |-> 1]

\* Callers are alike, and so are threads.
Alike == Permutations(Clients) \cup Permutations(Threads)
=============================================================================
