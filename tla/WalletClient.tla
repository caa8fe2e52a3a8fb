----------------------------- MODULE WalletClient -----------------------------
(***************************************************************************)
(* The wallet governor client (skills/wallet_governor_client) in front of  *)
(* the wallet governor service: spend of runner.py checks the request,     *)
(* records the spend request, posts it once (client.py) and turns what     *)
(* comes back into an answer for its caller.  The HTTP call may time out   *)
(* while the service goes on, and the caller may then try again under the  *)
(* same idempotency key, before or after the first attempt has ended.      *)
(***************************************************************************)
EXTENDS WalletGovernor

CONSTANTS
  Clients,           \* callers of the client
  Nobody,            \* a thread whose caller has gone
  PreflightDefects,  \* the defects of a request that validation.py sees too
  AmountOf,          \* the amount of each request without the fee, USD
  MaxAttempts        \* bounds the calls of spend

ASSUME ClientsAssumption == Nobody \notin Clients /\ MaxAttempts \in Nat

ASSUME AmountsAssumption ==
  AmountOf \in [Requests -> Nat] /\ \A r \in Requests : AmountOf[r] <= r.total

VARIABLES
  call,       \* what each client does: [step, request, response]
  serves,     \* the client each thread answers
  spendKeys,  \* the keys of record_spend_request: wallet:spend:{key}
  issued,     \* the spend request ids made so far
  abreast,    \* pairs of ids whose attempts under one key both began before either had a row
  reports,    \* what callers have been told
  attempts    \* how often spend has been called

client == <<call, serves, spendKeys, issued, abreast, reports, attempts>>
clientVars == <<vars, client>>

NoCall == [step |-> "idle", request |-> None, response |-> "none"]

ClientInit ==
  /\ Init
  /\ call = [c \in Clients |-> NoCall] /\ serves = [t \in Threads |-> Nobody]
  /\ spendKeys = {} /\ issued = {} /\ abreast = {} /\ reports = {} /\ attempts = 0

Step(c, step) == call' = [call EXCEPT ![c].step = step]
Respond(c, response) ==
  call' = [call EXCEPT ![c].step = "answer", ![c].response = response]

\* validate_spend_request: the approvals, the limits and today's totals, before
\* anything is written, and with the amount where the service counts the fee too.
PreflightRefuses(r) ==
  \/ ~SpendEnabled
  \/ r.defect \in PreflightDefects
  \/ AmountOf[r] > MaxSingle
  \/ spentOn[day] + AmountOf[r] > MaxDaily
  \/ spentWithin[day] + AmountOf[r] > MaxWeekly

Report(c, outcome) ==
  /\ reports' = reports \cup
       {[key |-> call[c].request.key, spend |-> call[c].request.spend, status |-> outcome]}
  /\ call' = [call EXCEPT ![c] = NoCall]

\* Calls under a key that have yet to write their row.
Unwritten(k) == {c \in Clients : call[c].step \in {"look_up", "insert"} /\ call[c].request.key = k}

\* The id is a fresh one: the workflow, the caller in the repository, names none.
Spend(c) ==
  /\ call[c] = NoCall /\ attempts < MaxAttempts
  /\ \E r \in {q \in Requests : q.spend \notin issued \cup {None}} :
       /\ call' = [call EXCEPT ![c] = [step |-> IF PreflightRefuses(r) THEN "reject" ELSE "look_up",
                                       request |-> r, response |-> "none"]]
       /\ issued' = issued \cup {r.spend}
       /\ abreast' = abreast \cup {{r.spend, call[d].request.spend} : d \in Unwritten(r.key)}
  /\ attempts' = attempts + 1
  /\ UNCHANGED <<vars, serves, spendKeys, reports>>

\* _reject: the refusal is archived and audited.
RejectCall(c) ==
  /\ call[c].step = "reject"
  /\ Report(c, "rejected")
  /\ UNCHANGED <<vars, serves, spendKeys, issued, abreast, attempts>>

\* Mutant: the key of an earlier attempt is not looked for.
LookUpKey_Never(c) ==
  /\ call[c].step = "look_up"
  /\ Step(c, "insert")
  /\ UNCHANGED <<vars, serves, spendKeys, issued, abreast, reports, attempts>>

\* record_spend_request: nothing is written under a key that is used ...
LookUpKey(c) ==
  /\ call[c].step = "look_up"
  /\ Step(c, IF call[c].request.key \in spendKeys THEN "post" ELSE "insert")
  /\ UNCHANGED <<vars, serves, spendKeys, issued, abreast, reports, attempts>>

\* ... when it is looked up: if another attempt uses it before the insert, the row
\* is written all the same, and only its event is not.
InsertRow(c) ==
  /\ call[c].step = "insert"
  /\ LET r == call[c].request
     IN  InsertRequest(r.spend, r.key \notin spendKeys) /\ spendKeys' = spendKeys \cup {r.key}
  /\ Step(c, "post")
  /\ UNCHANGED <<serves, issued, abreast, reports, attempts>>

-----------------------------------------------------------------------------
(* The HTTP call.                                                            *)

\* A free thread takes the request, or answers it from the cache.
Post(c, t) ==
  /\ call[c].step = "post"
  /\ \/ /\ Receive(t, call[c].request) \/ Conflict(t, call[c].request)
        /\ Step(c, "wait")
        /\ serves' = [serves EXCEPT ![t] = c]
     \/ /\ Replay(t, call[c].request)
        /\ Respond(c, cache[call[c].request.key].outcome)
        /\ UNCHANGED serves
  /\ UNCHANGED <<spendKeys, issued, abreast, reports, attempts>>

\* What a thread that returns after this step sends back; an exception is a 500.
Reply(t) ==
  CASE At(t, "log_sent") -> "sent"
    [] At(t, "log_reject") -> "rejected"
    [] OTHER -> "error"

Answered(t, reply) ==
  IF pc'[t] # "idle" THEN UNCHANGED <<call, serves>>
  ELSE /\ serves' = [serves EXCEPT ![t] = Nobody]
       /\ IF serves[t] = Nobody THEN UNCHANGED call ELSE Respond(serves[t], reply)

Serve(t) ==
  /\ \/ ThreadStep(t) /\ Answered(t, Reply(t))
     \/ (LedgerFails(t) \/ AnswerEscapes(t)) /\ Answered(t, "error")
  /\ UNCHANGED <<spendKeys, issued, abreast, reports, attempts>>

\* Mutant: a call that cannot be made or answered counts as refused.
LostAnswer_Refused == "rejected"

\* WalletGovernorClientError becomes an error: whether it was paid is not known.
LostAnswer == "error"

Unreachable(c) ==
  /\ call[c].step \in {"post", "wait"}
  /\ Respond(c, LostAnswer)
  /\ serves' = [t \in Threads |-> IF serves[t] = c THEN Nobody ELSE serves[t]]
  /\ UNCHANGED <<vars, spendKeys, issued, abreast, reports, attempts>>

Restart ==
  /\ Crash
  /\ call' = [c \in Clients |->
                IF call[c].step = "wait"
                THEN [call[c] EXCEPT !.step = "answer", !.response = LostAnswer] ELSE call[c]]
  /\ serves' = [t \in Threads |-> Nobody]
  /\ UNCHANGED <<spendKeys, issued, abreast, reports, attempts>>

\* The response is archived; "sent" is believed when the ledger has the transaction.
AnswerCaller(c) ==
  /\ call[c].step = "answer"
  /\ LET r == call[c].request
         recorded == [key |-> r.key, spend |-> r.spend] \in txs
     IN  Report(c, IF call[c].response = "sent" /\ ~recorded THEN "error" ELSE call[c].response)
  /\ UNCHANGED <<vars, serves, spendKeys, issued, abreast, attempts>>

\* The archive or the ledger fails on the way: the caller gets an exception.
CallRaises(c) ==
  /\ "ledger" \in Faults
  /\ call[c].step \in {"reject", "look_up", "insert", "answer"}
  /\ call' = [call EXCEPT ![c] = NoCall]
  /\ UNCHANGED <<vars, serves, spendKeys, issued, abreast, reports, attempts>>

Environment == (UnlockExpires \/ NextDay) /\ UNCHANGED client

ClientNext ==
  \/ \E c \in Clients :
       \/ Spend(c) \/ RejectCall(c) \/ LookUpKey(c) \/ InsertRow(c)
       \/ \E t \in Threads : Post(c, t)
       \/ Unreachable(c) \/ AnswerCaller(c) \/ CallRaises(c)
  \/ \E t \in Threads : Serve(t)
  \/ Restart \/ Environment

ClientSpec == ClientInit /\ [][ClientNext]_clientVars

-----------------------------------------------------------------------------
(***************************************************************************)
(* Properties.                                                             *)
(***************************************************************************)

\* Each attempt pays at most once, and two attempts pay under one key only if each
\* began before the other had its row.  An attempt that is made when an earlier one has
\* written its row pays nothing, although the client times out while the service goes
\* on, the service forgets its answers and every attempt has a spend request id of its
\* own (runner.py:197-225, repository.py:541, service.py:284, 314-317, 450).
AttemptsPayOnce ==
  \A k \in Keys : \A s, u \in {x \in Spends : k \in payers[x]} :
    broadcasts[s] = 1 /\ (s # u => {s, u} \in abreast)

\* What a caller has been told stays true: "sent" has its payment and its row, and a
\* spend request that was refused is never paid for; all else is an error
\* (runner.py:244-271, 291-327).
ReportsAreTrue ==
  \A report \in reports :
    /\ report.status = "sent" =>
         /\ broadcasts[report.spend] = 1 /\ status[report.spend] = "sent"
         /\ [key |-> report.key, spend |-> report.spend] \in txs
    /\ report.status = "rejected" => broadcasts[report.spend] = 0
=============================================================================
