--------------------------- MODULE SpendLifecycle ---------------------------
(***************************************************************************)
(* What the wallet governor promises about one spend request, without its  *)
(* threads, caches, limits or ledger events: the request moves             *)
(* proposed -> approved -> sending -> sent, or ends rejected or failed,    *)
(* and money leaves the wallet at most once, while it is in "sending".     *)
(* The states are shared/types.py SpendRequestStatus; the promise is the   *)
(* one of docs/WALLET_GOVERNOR_DESIGN.md ("transitions the spend request   *)
(* through approved -> sending -> sent or to rejected / failed").          *)
(***************************************************************************)
EXTENDS Naturals

CONSTANT Spends       \* spend request ids

VARIABLES
  status,             \* spend_requests.status, "absent" before the row exists
  broadcasts          \* how often a payment for the request left the wallet

vars == <<status, broadcasts>>

Init ==
  /\ status = [s \in Spends |-> "absent"]
  /\ broadcasts = [s \in Spends |-> 0]

\* The row of the status table moves from a status of froms to another.
Move(s, froms, to) ==
  /\ status[s] \in froms
  /\ status' = [status EXCEPT ![s] = to]

Propose(s) == Move(s, {"absent"}, "proposed") /\ UNCHANGED broadcasts

Approve(s) == Move(s, {"proposed", "approved"}, "approved") /\ UNCHANGED broadcasts

StartSending(s) == Move(s, {"approved"}, "sending") /\ UNCHANGED broadcasts

Pay(s) ==
  /\ status[s] = "sending"
  /\ broadcasts[s] = 0
  /\ broadcasts' = [broadcasts EXCEPT ![s] = 1]
  /\ UNCHANGED status

Complete(s) ==
  /\ broadcasts[s] = 1
  /\ Move(s, {"sending"}, "sent")
  /\ UNCHANGED broadcasts

Reject(s) == Move(s, {"proposed", "approved"}, "rejected") /\ UNCHANGED broadcasts

Fail(s) ==
  /\ Move(s, {"proposed", "approved", "sending"}, "failed")
  /\ UNCHANGED broadcasts

Next == \E s \in Spends :
  \/ Propose(s) \/ Approve(s) \/ StartSending(s) \/ Pay(s)
  \/ Complete(s) \/ Reject(s) \/ Fail(s)

Spec == Init /\ [][Next]_vars
=============================================================================
