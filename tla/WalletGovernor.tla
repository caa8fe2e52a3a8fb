--------------------------- MODULE WalletGovernor ---------------------------
(***************************************************************************)
(* The wallet governor service: capped_send of                             *)
(* plugins/wallet_governor_service/service.py, run by the worker threads   *)
(* of its HTTP server (http.py, sync endpoints), over the SQLite ledger of *)
(* skills/ledger_skill and over an external wallet.  One action per ledger *)
(* transaction, ledger read or wallet call: these are the points at which  *)
(* threads interleave, at which the process can die, and at which a call   *)
(* can fail.  The response cache and the threads die with the process; the *)
(* ledger and the wallet survive it.                                       *)
(***************************************************************************)
EXTENDS Naturals

CONSTANTS
  Threads,        \* worker threads of the HTTP server
  Spends,         \* spend request ids
  Keys,           \* idempotency keys
  Requests,       \* the request bodies clients post
  Reasons,        \* rejection and error codes
  None,           \* no spend request id; no request yet; nothing cached
  SpendEnabled,   \* WalletGovernorConfig.spend_enabled
  MaxSingle, MaxDaily, MaxWeekly,   \* MoneyBotPolicyConfig limits, USD
  WindowDays,     \* length of the weekly window (7 in the code)
  MaxDay,         \* bound: days are 0..MaxDay
  MaxBroadcasts,  \* bound: payments per spend request
  Overlap,        \* may requests that share a key or a spend request overlap?
  Faults          \* what may go wrong around the service

CodeReasons ==
  { "ok", "idempotency_conflict", "spend_disabled", "spend_request_missing",
    "unsupported_asset", "spend_request_not_found", "spend_request_status_invalid",
    "backend_error", "fee_quote_failed", "amount_exceeds_single_limit",
    "amount_exceeds_daily_limit", "amount_exceeds_weekly_limit",
    "insufficient_balance", "wallet_unlock_failed", "wallet_send_failed" }

(***************************************************************************)
(* A request carries its key, the spend request it names (None when it     *)
(* names none), the USD total of amount and quoted fee, and its defect:    *)
(* the first check of the parts of the authorization bundle that never     *)
(* change (_validate_bundle after the status checks, the asset check, the  *)
(* destination check) that it fails, "ok" when it fails none.  The whole   *)
(* body is the fingerprint, so two requests are equal iff their            *)
(* fingerprints are.                                                       *)
(***************************************************************************)
ASSUME RequestsAssumption ==
  /\ Requests \subseteq [key: Keys, spend: Spends \cup {None}, total: Nat, defect: Reasons]
  /\ CodeReasons \subseteq Reasons
  /\ None \notin Spends \cup Requests

ASSUME LimitsAssumption ==
  /\ SpendEnabled \in BOOLEAN /\ Overlap \in BOOLEAN
  /\ MaxSingle \in Nat /\ MaxDaily \in Nat /\ MaxWeekly \in Nat
  /\ WindowDays \in Nat \ {0} /\ MaxDay \in Nat /\ MaxBroadcasts \in Nat \ {0}
  /\ Faults \subseteq {"crash", "ledger", "wallet", "ambiguous"}

Days == 0 .. MaxDay

Statuses == {"absent", "proposed", "approved", "sending", "sent", "rejected", "failed"}
\* Mutant: a request whose payment was under way may be tried again.
EligibleStatuses_Sending == {"proposed", "approved", "sending"}
EligibleStatuses == {"proposed", "approved"}
TerminalStatuses == {"rejected", "sent", "failed"}

VARIABLES
  \* the ledger
  status,       \* spend_requests.status
  logged,       \* the status in the last ledger event about the spend request
  eventKeys,    \* idempotency keys of ledger_events: <<name, key, reason>>
  txs,          \* btc_transactions: [key, spend] of each row
  spentOn,      \* what get_daily_spend_total returns for a day
  spentWithin,  \* what get_weekly_spend_total returns for the window ending on a day
  \* the service process
  cache,        \* _responses with _response_fingerprints
  pc, req,      \* what each thread does, for which request
  seen,         \* status in the authorization bundle the thread read
  today,        \* the day the thread checks limits for
  why,          \* the reason of the rejection or error it is about to store
  cleanup,      \* "no" until unlocked, then what follows the finally block
  \* the wallet and the world
  unlocked,
  broadcasts,   \* payments that left the wallet, by spend request,
  payers,       \* the keys of the requests that paid for it,
  paidOn,       \* and USD paid by day: none of these is in the ledger
  day

ledger  == <<status, logged, eventKeys, txs, spentOn, spentWithin>>
locals  == <<seen, today, why, cleanup>>
threads == <<pc, req, locals>>
paid    == <<broadcasts, payers, paidOn>>
wallet  == <<unlocked, paid>>
vars    == <<ledger, cache, threads, wallet, day>>

Cached == [request: Requests, outcome: {"sent", "rejected", "error"}]

ASSUME CacheAssumption == None \notin Cached

\* Steps that read or write the ledger: sqlite3 can raise in each of them.
LedgerSteps ==
  { "received", "validating", "read_request", "read_txs", "daily", "weekly",
    "rejecting", "log_reject", "approve", "start", "log_start", "failing",
    "log_fail", "log_lock", "record", "insert", "complete", "log_sent" }
WalletSteps == {"consult", "unlock", "send", "locking"}
Steps == LedgerSteps \cup WalletSteps \cup {"idle"}

EventNames == {"approved", "sending", "sent", "rejected", "failed", "tx", "log_start", "log_lock"}

LedgerTypeOK ==
  /\ status \in [Spends -> Statuses] /\ logged \in [Spends -> Statuses]
  /\ eventKeys \subseteq EventNames \X Keys \X Reasons
  /\ txs \subseteq [key: Keys, spend: Spends]
  /\ spentOn \in [Days -> Nat] /\ spentWithin \in [Days -> Nat]

ServiceTypeOK ==
  /\ cache \in [Keys -> Cached \cup {None}]
  /\ pc \in [Threads -> Steps] /\ req \in [Threads -> Requests \cup {None}]
  /\ seen \in [Threads -> Statuses] /\ today \in [Threads -> Days]
  /\ why \in [Threads -> Reasons]
  /\ cleanup \in [Threads -> {"no", "record", "return", "raise"}]

WalletTypeOK ==
  /\ unlocked \in BOOLEAN
  /\ broadcasts \in [Spends -> 0 .. MaxBroadcasts] /\ paidOn \in [Days -> Nat]
  /\ payers \in [Spends -> SUBSET Keys]
  /\ day \in Days

TypeOK == LedgerTypeOK /\ ServiceTypeOK /\ WalletTypeOK

Init ==
  /\ status = [s \in Spends |-> "absent"] /\ logged = status
  /\ eventKeys = {} /\ txs = {}
  /\ spentOn = [d \in Days |-> 0] /\ spentWithin = [d \in Days |-> 0]
  /\ cache = [k \in Keys |-> None]
  /\ pc = [t \in Threads |-> "idle"] /\ req = [t \in Threads |-> None]
  /\ seen = [t \in Threads |-> "absent"] /\ today = [t \in Threads |-> 0]
  /\ why = [t \in Threads |-> "ok"] /\ cleanup = [t \in Threads |-> "no"]
  /\ unlocked = FALSE
  /\ broadcasts = [s \in Spends |-> 0] /\ payers = [s \in Spends |-> {}]
  /\ paidOn = [d \in Days |-> 0]
  /\ day = 0

-----------------------------------------------------------------------------
(* Ledger writes and thread bookkeeping.                                     *)

At(t, step) == pc[t] = step

Goto(t, step) == pc' = [pc EXCEPT ![t] = step]

\* The thread answers, or raises, and returns to the pool.
Return(t) ==
  /\ Goto(t, "idle")
  /\ req' = [req EXCEPT ![t] = None]
  /\ seen' = [seen EXCEPT ![t] = "absent"]
  /\ today' = [today EXCEPT ![t] = 0]
  /\ why' = [why EXCEPT ![t] = "ok"]
  /\ cleanup' = [cleanup EXCEPT ![t] = "no"]

\* An audit event is a row of ledger_events alone, skipped when its key is there.
\* Nothing reads one back, so only those that announce a payment or report a
\* lock failure are kept; the others are ledger writes that may fail.
KeptAudits == {"log_start", "log_lock"}

Audit(name, k) ==
  /\ eventKeys' = IF name \in KeptAudits THEN eventKeys \cup {<<name, k, "ok">>} ELSE eventKeys
  /\ UNCHANGED <<status, logged, txs, spentOn, spentWithin>>

\* Mutant: one event key for every status change of a request.
WriteStatus_OneKey(s, to, k, reason) ==
  /\ status' = [status EXCEPT ![s] = to]
  /\ logged' = IF <<"approved", k, "ok">> \in eventKeys THEN logged ELSE [logged EXCEPT ![s] = to]
  /\ eventKeys' = eventKeys \cup {<<"approved", k, "ok">>}
  /\ UNCHANGED <<txs, spentOn, spentWithin>>

\* update_spend_request_status writes the row whatever its present status and
\* whether or not the event that records the change is skipped.
WriteStatus(s, to, k, reason) ==
  /\ status' = [status EXCEPT ![s] = to]
  /\ logged' = IF <<to, k, reason>> \in eventKeys
               THEN logged ELSE [logged EXCEPT ![s] = to]
  /\ eventKeys' = eventKeys \cup {<<to, k, reason>>}
  /\ UNCHANGED <<txs, spentOn, spentWithin>>

\* The insert of record_btc_transaction.  The event is skipped when its key is used
\* by now, the row is written all the same, and counts from then on in the totals
\* of its day and windows.
InsertTransaction(r) ==
  /\ eventKeys' = eventKeys \cup {<<"tx", r.key, "ok">>}
  /\ txs' = txs \cup {[key |-> r.key, spend |-> r.spend]}
  /\ spentOn' = [spentOn EXCEPT ![day] = @ + r.total]
  /\ spentWithin' = [e \in Days |->
       IF day <= e /\ e < day + WindowDays THEN spentWithin[e] + r.total ELSE spentWithin[e]]
  /\ UNCHANGED <<status, logged>>

\* Mutant: the limit is compared with the payment alone.
Remaining_Whole(limit, total) == limit

Remaining(limit, total) == IF total < limit THEN limit - total ELSE 0

HasTransaction(s) == \E x \in txs : x.spend = s

\* _responses and _response_fingerprints for the request's key.
Store(r, outcome) ==
  cache' = [cache EXCEPT ![r.key] = [request |-> r, outcome |-> outcome]]

Refuse(t, reason, step) ==
  /\ why' = [why EXCEPT ![t] = reason]
  /\ Goto(t, step)

-----------------------------------------------------------------------------
(* capped_send, from the cache lookup to the checks.                         *)

Shares(q, r) == q # None /\ (q.key = r.key \/ (q.spend = r.spend /\ q.spend # None))

\* Nothing in the service stops two requests for one spend request from being
\* handled at once; Overlap = FALSE is an assumption about the callers.
MayStart(t, r) ==
  /\ At(t, "idle")
  /\ Overlap \/ \A u \in Threads : At(u, "idle") \/ ~Shares(req[u], r)

Begin(t, r, step, reason) ==
  /\ Goto(t, step)
  /\ req' = [req EXCEPT ![t] = r]
  /\ why' = [why EXCEPT ![t] = reason]
  /\ UNCHANGED <<ledger, cache, seen, today, cleanup, wallet, day>>

\* Mutant: a mismatched fingerprint falls through to a fresh attempt.
Receive_Mismatch(t, r) ==
  /\ MayStart(t, r) /\ (cache[r.key] # None => cache[r.key].request # r)
  /\ Begin(t, r, "received", "ok")

Receive(t, r) ==
  /\ MayStart(t, r) /\ cache[r.key] = None
  /\ Begin(t, r, "received", "ok")

\* The stored answer again: nothing is logged, read or written.
Replay(t, r) ==
  /\ MayStart(t, r) /\ cache[r.key] # None
  /\ cache[r.key].request = r
  /\ UNCHANGED vars

Conflict(t, r) ==
  /\ MayStart(t, r) /\ cache[r.key] # None
  /\ cache[r.key].request # r
  /\ Begin(t, r, "log_reject", "idempotency_conflict")

LogStep(t, step, next) ==
  /\ At(t, step)
  /\ Audit(step, req[t].key)
  /\ Goto(t, next)
  /\ UNCHANGED <<cache, req, locals, wallet, day>>

LogReceived(t) == LogStep(t, "received", "validating")

LogValidating(t) == LogStep(t, "validating", "read_request")

\* get_spend_authorization_bundle reads the spend request first and its wallet
\* transactions last, each over a connection of its own.
ReadRequest(t) ==
  /\ At(t, "read_request")
  /\ seen' = [seen EXCEPT ![t] = IF req[t].spend = None THEN "absent" ELSE status[req[t].spend]]
  /\ Goto(t, "read_txs")
  /\ UNCHANGED <<ledger, cache, req, today, why, cleanup, wallet, day>>

\* The first check the request fails, given what the bundle holds.
Refusal(r, st, settled) ==
  IF ~SpendEnabled THEN "spend_disabled"
  ELSE IF r.spend = None THEN "spend_request_missing"
  ELSE IF r.defect = "unsupported_asset" THEN r.defect
  ELSE IF st = "absent" THEN "spend_request_not_found"
  ELSE IF st \notin EligibleStatuses \/ settled THEN "spend_request_status_invalid"
  ELSE r.defect

\* Mutant: terminal statuses are overwritten too.
RejectStep_Always(st) == IF st = "absent" THEN "log_reject" ELSE "rejecting"

\* _update_spend_status_for_outcome goes by the status in the bundle, not by
\* the one the ledger has by now: no bundle or a terminal status, no write.
RejectStep(st) == IF st \in TerminalStatuses \cup {"absent"} THEN "log_reject" ELSE "rejecting"

Validate(t) ==
  LET refusal == Refusal(req[t], seen[t], HasTransaction(req[t].spend))
  IN /\ At(t, "read_txs")
     /\ IF refusal = "ok" THEN Goto(t, "consult") /\ UNCHANGED why
                          ELSE Refuse(t, refusal, RejectStep(seen[t]))
     /\ UNCHANGED <<ledger, cache, req, seen, today, cleanup, wallet, day>>

\* Balance, then fee estimate: each is a wallet call that may fail.
Consult(t) ==
  /\ At(t, "consult")
  /\ \/ Goto(t, "daily") /\ UNCHANGED why
     \/ /\ "wallet" \in Faults
        /\ \/ Refuse(t, "backend_error", "failing")
           \/ Refuse(t, "fee_quote_failed", "rejecting")
  /\ UNCHANGED <<ledger, cache, req, seen, today, cleanup, wallet, day>>

CheckDaily(t) ==
  /\ At(t, "daily")
  /\ today' = [today EXCEPT ![t] = day]
  /\ IF req[t].total > MaxSingle
     THEN Refuse(t, "amount_exceeds_single_limit", "rejecting")
     ELSE IF req[t].total > Remaining(MaxDaily, spentOn[day])
     THEN Refuse(t, "amount_exceeds_daily_limit", "rejecting")
     ELSE Goto(t, "weekly") /\ UNCHANGED why
  /\ UNCHANGED <<ledger, cache, req, seen, cleanup, wallet, day>>

\* The balance is the wallet's: whether it covers the payment is not modelled.
CheckWeekly(t) ==
  /\ At(t, "weekly")
  /\ IF req[t].total > Remaining(MaxWeekly, spentWithin[today[t]])
     THEN Refuse(t, "amount_exceeds_weekly_limit", "rejecting")
     ELSE \/ Goto(t, "approve") /\ UNCHANGED why
          \/ "wallet" \in Faults /\ Refuse(t, "insufficient_balance", "rejecting")
  /\ UNCHANGED <<ledger, cache, req, seen, today, cleanup, wallet, day>>

-----------------------------------------------------------------------------
(* Rejections.                                                               *)

WriteRejection(t) ==
  /\ At(t, "rejecting")
  /\ WriteStatus(req[t].spend, IF seen[t] = "sending" THEN "failed" ELSE "rejected",
                 req[t].key, why[t])
  /\ Goto(t, "log_reject")
  /\ UNCHANGED <<cache, req, locals, wallet, day>>

\* Mutant: a conflict is cached like any other rejection.
LogRejection_Caches(t) ==
  /\ At(t, "log_reject")
  /\ Audit("log_reject", req[t].key)
  /\ Store(req[t], "rejected")
  /\ Return(t)
  /\ UNCHANGED <<wallet, day>>

\* A conflict is answered but not cached: the cache keeps the first request.
LogRejection(t) ==
  /\ At(t, "log_reject")
  /\ Audit("log_reject", req[t].key)
  /\ IF why[t] = "idempotency_conflict" THEN UNCHANGED cache
                                        ELSE Store(req[t], "rejected")
  /\ Return(t)
  /\ UNCHANGED <<wallet, day>>

-----------------------------------------------------------------------------
(* The payment.                                                              *)

MarkStatus(t, step, to, next) ==
  /\ At(t, step)
  /\ WriteStatus(req[t].spend, to, req[t].key, "ok")
  /\ Goto(t, next)
  /\ UNCHANGED <<cache, req, locals, wallet, day>>

\* Mutants: no sending status before the payment; no announcement; a status
\* the lifecycle does not have.
MarkApproved_ThenPays(t) == MarkStatus(t, "approve", "approved", "log_start")
MarkSending_Silent(t) == MarkStatus(t, "start", "sending", "unlock")
MarkSent_Confirmed(t) == MarkStatus(t, "complete", "confirmed", "log_sent")

MarkApproved(t) == MarkStatus(t, "approve", "approved", "start")

MarkSending(t) == MarkStatus(t, "start", "sending", "log_start")

LogSendStarted(t) == LogStep(t, "log_start", "unlock")

\* A call that fails with a timeout may have taken effect all the same.
Unlock(t) ==
  /\ At(t, "unlock")
  /\ \/ /\ unlocked' = TRUE
        /\ cleanup' = [cleanup EXCEPT ![t] = "record"]
        /\ Goto(t, "send")
        /\ UNCHANGED why
     \/ /\ \/ "wallet" \in Faults /\ unlocked' = unlocked
           \/ "ambiguous" \in Faults /\ unlocked' = TRUE
        /\ Refuse(t, "wallet_unlock_failed", "failing")
        /\ UNCHANGED cleanup
  /\ UNCHANGED <<ledger, cache, req, seen, today, paid, day>>

\* The wallet broadcasts a payment.
Broadcast(r) ==
  /\ broadcasts[r.spend] < MaxBroadcasts
  /\ broadcasts' = [broadcasts EXCEPT ![r.spend] = @ + 1]
  /\ payers' = [payers EXCEPT ![r.spend] = @ \cup {r.key}]
  /\ paidOn' = [paidOn EXCEPT ![day] = @ + r.total]

SendFails(t) ==
  /\ cleanup' = [cleanup EXCEPT ![t] = "return"]
  /\ Refuse(t, "wallet_send_failed", "failing")

\* An answer that is not JSON raises what the handler does not catch.
SendEscapes(t) ==
  /\ cleanup' = [cleanup EXCEPT ![t] = "raise"]
  /\ Goto(t, "locking")
  /\ UNCHANGED why

\* A locked wallet refuses.  A call whose answer is lost has paid all the same.
SendToAddress(t) ==
  /\ At(t, "send")
  /\ \/ unlocked /\ Broadcast(req[t]) /\ Goto(t, "locking") /\ UNCHANGED <<why, cleanup>>
     \/ unlocked /\ "ambiguous" \in Faults /\ Broadcast(req[t]) /\ (SendFails(t) \/ SendEscapes(t))
     \/ (unlocked => "wallet" \in Faults) /\ SendFails(t) /\ UNCHANGED paid
  /\ UNCHANGED <<ledger, cache, req, seen, today, unlocked, day>>

\* Mutant: the error is cached but the status stays sending.
StoreFailure_NoStatus(t) ==
  /\ At(t, "failing")
  /\ Store(req[t], "error")
  /\ Goto(t, "log_fail")
  /\ UNCHANGED <<ledger, req, locals, wallet, day>>

\* _store_failure: the status goes to failed and the error is cached before
\* the audit event of the failure is written.
StoreFailure(t) ==
  /\ At(t, "failing")
  /\ WriteStatus(req[t].spend, "failed", req[t].key, why[t])
  /\ Store(req[t], "error")
  /\ Goto(t, "log_fail")
  /\ UNCHANGED <<req, locals, wallet, day>>

\* Mutant: no finally block on the way out.
LogFailure_NoFinally(t) ==
  /\ At(t, "log_fail")
  /\ Audit("log_fail", req[t].key)
  /\ Return(t)
  /\ UNCHANGED <<cache, wallet, day>>

\* An error leaves through the finally block if the wallet was unlocked.
LogFailure(t) ==
  /\ At(t, "log_fail")
  /\ Audit("log_fail", req[t].key)
  /\ IF cleanup[t] = "no" THEN Return(t)
                          ELSE Goto(t, "locking") /\ UNCHANGED <<req, locals>>
  /\ UNCHANGED <<cache, wallet, day>>

\* Mutant: the row of the transaction is never written.
AfterCleanup_NoRecord(t) ==
  \/ cleanup[t] = "record" /\ Goto(t, "complete") /\ UNCHANGED <<req, locals>>
  \/ cleanup[t] \in {"return", "raise"} /\ Return(t)

\* What follows the finally block.
AfterCleanup(t) ==
  \/ cleanup[t] = "record" /\ Goto(t, "record") /\ UNCHANGED <<req, locals>>
  \/ cleanup[t] \in {"return", "raise"} /\ Return(t)

\* Mutant: a wallet that cannot be locked fails the payment it has made.
Lock_FailsRequest(t) ==
  /\ At(t, "locking")
  /\ \/ unlocked' = FALSE /\ AfterCleanup(t)
     \/ "wallet" \in Faults /\ Refuse(t, "wallet_send_failed", "failing")
        /\ UNCHANGED <<unlocked, req, seen, today, cleanup>>
  /\ UNCHANGED <<ledger, cache, paid, day>>

Lock(t) ==
  /\ At(t, "locking")
  /\ \/ unlocked' = FALSE /\ AfterCleanup(t)
     \/ /\ \/ "wallet" \in Faults /\ unlocked' = unlocked
           \/ "ambiguous" \in Faults /\ unlocked' = FALSE
        /\ Goto(t, "log_lock")
        /\ UNCHANGED <<req, locals>>
  /\ UNCHANGED <<ledger, cache, paid, day>>

LogLockFailed(t) ==
  /\ At(t, "log_lock")
  /\ Audit("log_lock", req[t].key)
  /\ AfterCleanup(t)
  /\ UNCHANGED <<cache, wallet, day>>

\* record_btc_transaction looks its key up in autocommit: another writer may use
\* it before the insert.
LookUpTransaction(t) ==
  /\ At(t, "record")
  /\ Goto(t, IF <<"tx", req[t].key, "ok">> \in eventKeys THEN "complete" ELSE "insert")
  /\ UNCHANGED <<ledger, cache, req, locals, wallet, day>>

RecordTransaction(t) ==
  /\ At(t, "insert")
  /\ InsertTransaction(req[t])
  /\ Goto(t, "complete")
  /\ UNCHANGED <<cache, req, locals, wallet, day>>

MarkSent(t) == MarkStatus(t, "complete", "sent", "log_sent")

LogSent(t) ==
  /\ At(t, "log_sent")
  /\ Audit("log_sent", req[t].key)
  /\ Store(req[t], "sent")
  /\ Return(t)
  /\ UNCHANGED <<wallet, day>>

-----------------------------------------------------------------------------
(* The world: faults, time, and the client that records spend requests.      *)

\* A ledger call raises: nothing is committed, the exception leaves the
\* handler, through the finally block while the wallet is unlocked.  After the
\* finally block (cleanup "record", or in the block itself) it just leaves.
LedgerFails(t) ==
  /\ "ledger" \in Faults
  /\ pc[t] \in LedgerSteps
  /\ IF cleanup[t] # "no" /\ pc[t] \in {"failing", "log_fail"}
     THEN /\ Goto(t, "locking")
          /\ cleanup' = [cleanup EXCEPT ![t] = "raise"]
          /\ UNCHANGED <<req, seen, today, why>>
     ELSE Return(t)
  /\ UNCHANGED <<ledger, cache, wallet, day>>

\* The wallet's answer is not JSON: nothing catches what that raises, and the
\* call may have taken effect.
AnswerEscapes(t) ==
  /\ "ambiguous" \in Faults
  /\ \/ At(t, "consult") /\ unlocked' = unlocked
     \/ At(t, "unlock") /\ unlocked' \in {unlocked, TRUE}
     \/ At(t, "locking") /\ unlocked' \in {unlocked, FALSE}
  /\ Return(t)
  /\ UNCHANGED <<ledger, cache, paid, day>>

\* The service process dies and is started again.
Crash ==
  /\ "crash" \in Faults
  /\ cache' = [k \in Keys |-> None]
  /\ pc' = [t \in Threads |-> "idle"] /\ req' = [t \in Threads |-> None]
  /\ seen' = [t \in Threads |-> "absent"] /\ today' = [t \in Threads |-> 0]
  /\ why' = [t \in Threads |-> "ok"] /\ cleanup' = [t \in Threads |-> "no"]
  /\ UNCHANGED <<ledger, wallet, day>>

\* The passphrase timeout (max_unlock_seconds) relocks the wallet.
UnlockExpires ==
  /\ unlocked
  /\ unlocked' = FALSE
  /\ UNCHANGED <<ledger, cache, threads, paid, day>>

NextDay ==
  /\ day < MaxDay
  /\ day' = day + 1
  /\ UNCHANGED <<ledger, cache, threads, wallet>>

\* The insert of record_spend_request, called by the wallet client before it posts.
\* Of two calls under one key that overlap the later writes its row without an event.
InsertRequest(s, event) ==
  /\ event \/ Overlap
  /\ status[s] = "absent"
  /\ status' = [status EXCEPT ![s] = "proposed"]
  /\ logged' = IF event THEN [logged EXCEPT ![s] = "proposed"] ELSE logged
  /\ UNCHANGED <<eventKeys, txs, spentOn, spentWithin, cache, threads, wallet, day>>

Propose(s) == \E event \in BOOLEAN : InsertRequest(s, event)

ThreadStep(t) ==
  \/ LogReceived(t) \/ LogValidating(t) \/ ReadRequest(t) \/ Validate(t)
  \/ Consult(t) \/ CheckDaily(t) \/ CheckWeekly(t)
  \/ WriteRejection(t) \/ LogRejection(t)
  \/ MarkApproved(t) \/ MarkSending(t) \/ LogSendStarted(t)
  \/ Unlock(t) \/ SendToAddress(t) \/ StoreFailure(t) \/ LogFailure(t)
  \/ Lock(t) \/ LogLockFailed(t)
  \/ LookUpTransaction(t) \/ RecordTransaction(t) \/ MarkSent(t) \/ LogSent(t)

Next ==
  \/ \E t \in Threads, r \in Requests : Receive(t, r) \/ Replay(t, r) \/ Conflict(t, r)
  \/ \E t \in Threads : ThreadStep(t) \/ LedgerFails(t) \/ AnswerEscapes(t)
  \/ Crash \/ UnlockExpires \/ NextDay
  \/ \E s \in Spends : Propose(s)

Spec == Init /\ [][Next]_vars

\* A worker thread that has a request runs it to its end: every ledger call
\* and every wallet call returns or raises within a timeout of its own.
FairSpec == Spec /\ \A t \in Threads : WF_vars(ThreadStep(t))

-----------------------------------------------------------------------------
(* Properties.                                                               *)

\* A payment for a spend request leaves the wallet at most once, whatever is
\* retried, lost or restarted (service.py: the status goes to sending before
\* send_to_address, and a bundle that shows sending or a transaction is refused).
AtMostOneBroadcast == \A s \in Spends : broadcasts[s] <= 1

\* What the tables say of a payment is what happened: a transaction row, or
\* the status sent, stands for exactly one payment, and sent has its row.
RecordsAreTrue == \A s \in Spends :
  /\ HasTransaction(s) => broadcasts[s] = 1 /\ status[s] \in {"sending", "sent", "failed"}
  /\ status[s] = "sent" => HasTransaction(s)

\* The day totals and the totals of every weekly window stay within the policy
\* limits although the clock moves on between the check and the record.
RecordedWithinLimits ==
  \A d \in Days : spentOn[d] <= MaxDaily /\ spentWithin[d] <= MaxWeekly

\* No money moves before the ledger holds the sending status and the audit event
\* that announce it, also when ledger writes fail on the way.
AnnouncedBeforePaid == \A s \in Spends : broadcasts[s] > 0 =>
  \E r \in Requests : /\ r.spend = s
                      /\ <<"sending", r.key, "ok">> \in eventKeys
                      /\ <<"log_start", r.key, "ok">> \in eventKeys

\* The event log and the status table agree although an event whose key is used
\* is skipped while the row is still written.
EveryStatusLogged == \A s \in Spends : logged[s] = status[s]

\* An answer "sent" that is given, now or on a replay, is one the ledger bears
\* out and keeps bearing out.
SentAnswerIsTrue == \A k \in Keys : cache[k] # None /\ cache[k].outcome = "sent" =>
  LET s == cache[k].request.spend
  IN status[s] = "sent" /\ [key |-> k, spend |-> s] \in txs

\* While the process lives a key keeps its first answer: conflicts and replays
\* never replace it.
AnswersAreStable ==
  [][\A k \in Keys : cache[k] # None /\ cache'[k] # None => cache'[k] = cache[k]]_cache

\* The service, seen through the status table and the wallet, is the spend
\* lifecycle of the design document.
Lifecycle == INSTANCE SpendLifecycle
RefinesLifecycle == Lifecycle!Spec

\* Without ambiguous answers, crashes or lost ledger writes, a refused or failed
\* request was not paid, whatever else the wallet refuses to do.
RefusedIsUnpaid == \A s \in Spends : status[s] \in {"rejected", "failed"} => broadcasts[s] = 0

\* The wallet is unlocked only while a thread is between unlock and the lock of
\* its finally block, or after a lock failure that the ledger reports.
UnlockedIsGuarded == unlocked =>
  \/ \E t \in Threads : cleanup[t] # "no" /\ pc[t] \in {"send", "failing", "log_fail", "locking", "log_lock"}
  \/ \E k \in Keys : <<"log_lock", k, "ok">> \in eventKeys

\* A request that reached sending ends sent or failed.
SendingSettles == \A s \in Spends : status[s] = "sending" ~> status[s] \in {"sent", "failed"}

\* What really leaves the wallet on a day stays within the daily limit.
PaidWithinDailyLimit == \A d \in Days : paidOn[d] <= MaxDaily

\* One idempotency key pays for one spend request.
KeyPaysOnce == \A s, u \in Spends : s # u => payers[s] \cap payers[u] = {}
=============================================================================
