--------------------------- MODULE MCWalletGovernor ---------------------------
(***************************************************************************)
(* Requests and reasons for the model-checking runs of WalletGovernor.     *)
(***************************************************************************)
EXTENDS WalletGovernor

CONSTANTS s1, s2, k1, k2, k3

MCReasons == CodeReasons \cup {"amount_mismatch"}

Body(k, s, total, defect) == [key |-> k, spend |-> s, total |-> total, defect |-> defect]

\* A payment, a second key for the same spend request, another payment.
RetriedRequests ==
  { Body(k1, s1, 2, "ok"), Body(k2, s1, 2, "ok"), Body(k3, s2, 2, "ok") }

\* Two payments with a key each; the first key also comes with another amount
\* and for the other spend request, the second with no spend request.
TwoPayments == { Body(k1, s1, 2, "ok"), Body(k2, s2, 2, "ok") }
MixedRequests == TwoPayments \cup
  { Body(k1, s1, 1, "amount_mismatch"), Body(k1, s2, 2, "ok"), Body(k2, None, 2, "ok") }
=============================================================================
