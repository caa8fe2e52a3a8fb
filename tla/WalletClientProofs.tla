-------------------------- MODULE WalletClientProofs --------------------------
(***************************************************************************)
(* The wallet client in front of the governor, for any number of callers,  *)
(* threads, keys and attempts.  The client is a caller as the governor's   *)
(* specification has them; because each attempt names a spend request of   *)
(* its own, no two threads are ever at the same one, and the assumption    *)
(* about overlapping requests that the governor's own theorems need is not *)
(* needed here.  And what the client reports to its caller stays true.     *)
(***************************************************************************)
EXTENDS WalletClient, WalletGovernorProofs

ClientSteps == {"idle", "reject", "look_up", "insert", "post", "wait", "answer"}
Responses == {"none", "sent", "rejected", "error"}

\* A call under way is for an id that was issued; a thread answers a caller that waits.
Calling ==
  /\ call \in [Clients -> [step : ClientSteps, request : Requests \cup {None}, response : Responses]]
  /\ serves \in [Threads -> Clients \cup {Nobody}]
  /\ issued \subseteq Spends
  /\ \A c \in Clients : call[c].step # "idle" =>
       call[c].request \in Requests /\ call[c].request.spend \in issued
  /\ \A t \in Threads : serves[t] # Nobody => call[serves[t]].step = "wait"
  /\ \A t, u \in Threads : t # u /\ serves[t] # Nobody => serves[t] # serves[u]

\* The request has not reached the service yet.
Unposted(c) == call[c].step \in {"look_up", "insert", "post"}

\* Nor has its row been written.
Early(c) == call[c].step \in {"look_up", "insert"}

\* An id that no thread has seen belongs to one call, and nothing has happened to it.
FreshIds ==
  /\ \A t \in Threads : pc[t] # "idle" =>
       /\ req[t].spend \in issued
       /\ \A c \in Clients : Unposted(c) => call[c].request.spend # req[t].spend
  /\ \A c, d \in Clients : c # d /\ Unposted(c) /\ Unposted(d) =>
       call[c].request.spend # call[d].request.spend
  /\ \A s \in Spends : s \notin issued => status[s] = "absent"
  /\ \A c \in Clients : Early(c) => status[call[c].request.spend] = "absent"

\* key is the idempotency key of the attempt that an id was issued for: one id has at
\* most one key.  A row that is written, or still may be, without looking at another row
\* under its key is abreast of it.
Owned(key) ==
  /\ \A c \in Clients : call[c].step # "idle" => call[c].request.key = key[call[c].request.spend]
  /\ \A t \in Threads : pc[t] # "idle" => req[t].key = key[req[t].spend]
  /\ \A s \in Spends : payers[s] \subseteq {key[s]} /\ (payers[s] # {} => broadcasts[s] = 1)
  /\ \A s \in Spends : status[s] # "absent" => key[s] \in spendKeys
  /\ \A s, u \in Spends :
       s # u /\ status[s] # "absent" /\ status[u] # "absent" /\ key[s] = key[u] => {s, u} \in abreast
  /\ \A s \in Spends, c \in Clients :
       status[s] # "absent" /\ call[c].step = "insert" /\ key[s] = call[c].request.key
         => {s, call[c].request.spend} \in abreast
  /\ \A c, d \in Clients :
       c # d /\ Early(c) /\ Early(d) /\ call[c].request.key = call[d].request.key
         => {call[c].request.spend, call[d].request.spend} \in abreast

ClientInv ==
  PayInv /\ Calling /\ FreshIds /\ \E key \in [Spends -> Keys \cup {None}] : Owned(key)

-----------------------------------------------------------------------------
(* The client is a caller of the governor.                                   *)

LEMMA StepOfGovernor ==
  ASSUME ClientInv, [ClientNext]_clientVars
  PROVE  [Next]_vars
<1>1. CASE UNCHANGED clientVars
  BY <1>1 DEF clientVars
<1>2. ASSUME NEW c \in Clients, Spend(c) \/ RejectCall(c) \/ LookUpKey(c) \/ Unreachable(c) \/ AnswerCaller(c) \/ CallRaises(c)
      PROVE  UNCHANGED vars
  BY <1>2 DEF Spend, RejectCall, LookUpKey, Unreachable, AnswerCaller, CallRaises
<1>3. ASSUME NEW c \in Clients, InsertRow(c)
      PROVE  Next
  <2> DEFINE s == call[c].request.spend
  <2>1. s \in Spends
    BY <1>3 DEF InsertRow, ClientInv, Calling
  <2>2. Propose(s)
    <3>1. \E event \in BOOLEAN : InsertRequest(s, event)
      BY <1>3 DEF InsertRow
    <3>2. QED
      BY <3>1 DEF Propose
  <2>3. QED
    BY <2>1, <2>2 DEF Next
<1>4. ASSUME NEW c \in Clients, NEW t \in Threads, Post(c, t)
      PROVE  Next
  <2>1. call[c].request \in Requests
    BY <1>4 DEF Post, ClientInv, Calling
  <2>2. QED
    BY <1>4, <2>1 DEF Post, Next
<1>5. ASSUME NEW t \in Threads, Serve(t)
      PROVE  Next
  BY <1>5 DEF Serve, Next
<1>6. CASE Restart \/ Environment
  BY <1>6 DEF Restart, Environment, Next
<1>7. QED
  BY <1>1, <1>2, <1>3, <1>4, <1>5, <1>6 DEF ClientNext

-----------------------------------------------------------------------------
(* What a step of the service may change.                                    *)

\* No step of a thread gives a spend request a row.
LEMMA RowsAreOld ==
  ASSUME PayInv, NEW t \in Threads, ThreadStep(t) \/ LedgerFails(t) \/ AnswerEscapes(t), NEW s \in Spends
  PROVE  status'[s] # "absent" => status[s] # "absent"
<1> USE Known
<1>1. CASE WriteRejection(t) \/ MarkApproved(t) \/ MarkSending(t) \/ StoreFailure(t) \/ MarkSent(t)
  <2>1. req[t].spend \in Spends /\ status[req[t].spend] # "absent"
    BY <1>1 DEF WriteRejection, MarkApproved, MarkSending, StoreFailure, MarkSent, MarkStatus, At,
                PayInv, Stage, SpendSteps, Steps, LedgerSteps
  <2>2. \E to : status' = [status EXCEPT ![req[t].spend] = to]
    BY <1>1 DEF WriteRejection, MarkApproved, MarkSending, StoreFailure, MarkSent, MarkStatus, WriteStatus
  <2>3. QED
    BY <2>1, <2>2
<1>2. CASE LogReceived(t) \/ LogValidating(t) \/ LogSendStarted(t) \/ LogRejection(t)
           \/ LogFailure(t) \/ LogLockFailed(t) \/ LogSent(t)
  BY <1>2 DEF LogReceived, LogValidating, LogSendStarted, LogStep, LogRejection, LogFailure,
              LogLockFailed, LogSent, Audit
<1>3. CASE ReadRequest(t) \/ Validate(t) \/ Consult(t) \/ CheckDaily(t) \/ CheckWeekly(t)
           \/ Unlock(t) \/ Lock(t) \/ SendToAddress(t) \/ LedgerFails(t) \/ AnswerEscapes(t)
  BY <1>3 DEF ReadRequest, Validate, Consult, CheckDaily, CheckWeekly, Unlock, Lock, SendToAddress,
              LedgerFails, AnswerEscapes, ledger
<1>4. CASE LookUpTransaction(t) \/ RecordTransaction(t)
  BY <1>4 DEF LookUpTransaction, RecordTransaction, InsertTransaction, ledger
<1>5. QED
  BY <1>1, <1>2, <1>3, <1>4 DEF ThreadStep

\* A payment is made by a thread for the spend request and under the key of its request.
LEMMA PayersAreKnown ==
  ASSUME PayInv, NEW t \in Threads, ThreadStep(t) \/ LedgerFails(t) \/ AnswerEscapes(t)
  PROVE  \/ UNCHANGED <<broadcasts, payers>>
         \/ Broadcast(req[t]) /\ req[t].spend \in Spends
<1>1. CASE SendToAddress(t)
  <2>1. req[t].spend \in Spends
    BY <1>1, Known DEF SendToAddress, At, SpendSteps, Steps, WalletSteps
  <2>2. QED
    BY <1>1, <2>1 DEF SendToAddress, paid
<1>2. CASE LogReceived(t) \/ LogValidating(t) \/ LogSendStarted(t) \/ LogRejection(t)
           \/ LogFailure(t) \/ LogLockFailed(t) \/ LogSent(t)
  BY <1>2 DEF LogReceived, LogValidating, LogSendStarted, LogStep, LogRejection, LogFailure,
              LogLockFailed, LogSent, wallet, paid
<1>3. CASE ReadRequest(t) \/ Validate(t) \/ Consult(t) \/ CheckDaily(t) \/ CheckWeekly(t)
           \/ Unlock(t) \/ Lock(t) \/ LedgerFails(t) \/ AnswerEscapes(t)
           \/ LookUpTransaction(t) \/ RecordTransaction(t)
  BY <1>3 DEF ReadRequest, Validate, Consult, CheckDaily, CheckWeekly, Unlock, Lock,
              LedgerFails, AnswerEscapes, LookUpTransaction, RecordTransaction, wallet, paid
<1>4. CASE WriteRejection(t) \/ MarkApproved(t) \/ MarkSending(t) \/ StoreFailure(t) \/ MarkSent(t)
  BY <1>4 DEF WriteRejection, MarkApproved, MarkSending, StoreFailure, MarkSent, MarkStatus, wallet, paid
<1>5. QED
  BY <1>1, <1>2, <1>3, <1>4 DEF ThreadStep

LEMMA PayInvStays ==
  ASSUME PayInv, TypeInv', UNCHANGED <<ledger, threads, paid>>
  PROVE  PayInv'
BY DEF PayInv, Alone, Stage, PaidWhileSending, ledger, threads, locals, paid

-----------------------------------------------------------------------------
(* Steps of the client that the governor does not see.                       *)

\* Every call goes on with its request, towards the answer, or ends.
GoOn ==
  /\ call' \in [Clients -> [step : ClientSteps, request : Requests \cup {None}, response : Responses]]
  /\ \A c \in Clients :
       call'[c].step # "idle" =>
         /\ call[c].step # "idle" /\ call'[c].request = call[c].request
         /\ Unposted(c)' => Unposted(c)
         /\ Early(c)' => Early(c)
         /\ call'[c].step = "insert" => call[c].step = "insert" \/ call[c].request.key \notin spendKeys

LEMMA OwnedStays ==
  ASSUME NEW key, Owned(key), GoOn, UNCHANGED <<spendKeys, abreast>>,
         \A s \in Spends : status'[s] # "absent" => status[s] # "absent",
         \A t \in Threads : pc'[t] # "idle" => pc[t] # "idle" /\ req'[t] = req[t],
         \A s \in Spends : payers'[s] \subseteq {key[s]} /\ (payers'[s] # {} => broadcasts'[s] = 1)
  PROVE  Owned(key)'
<1>1. \A c \in Clients : call'[c].step # "idle" => call'[c].request.key = key[call'[c].request.spend]
  BY DEF Owned, GoOn
<1>2. \A t \in Threads : pc'[t] # "idle" => req'[t].key = key[req'[t].spend]
  BY DEF Owned
<1>3. /\ \A s \in Spends : status'[s] # "absent" => key[s] \in spendKeys
      /\ \A s, u \in Spends :
           s # u /\ status'[s] # "absent" /\ status'[u] # "absent" /\ key[s] = key[u] => {s, u} \in abreast
  BY DEF Owned
<1>4. ASSUME NEW s \in Spends, NEW c \in Clients,
             status'[s] # "absent", call'[c].step = "insert", key[s] = call'[c].request.key
      PROVE  {s, call'[c].request.spend} \in abreast
  <2>1. /\ call'[c].request = call[c].request /\ status[s] # "absent"
        /\ call[c].step = "insert" \/ call[c].request.key \notin spendKeys
    BY <1>4 DEF GoOn
  <2>2. QED
    BY <1>4, <2>1 DEF Owned
<1>5. ASSUME NEW c \in Clients, NEW d \in Clients, c # d, Early(c)', Early(d)',
             call'[c].request.key = call'[d].request.key
      PROVE  {call'[c].request.spend, call'[d].request.spend} \in abreast
  <2>1. /\ call'[c].request = call[c].request /\ Early(c)
        /\ call'[d].request = call[d].request /\ Early(d)
    BY <1>5 DEF GoOn, Early
  <2>2. QED
    BY <1>5, <2>1 DEF Owned
<1>6. QED
  BY <1>1, <1>2, <1>3, <1>4, <1>5 DEF Owned

LEMMA CallsGoOn ==
  ASSUME ClientInv, GoOn, UNCHANGED <<vars, spendKeys, issued, abreast>>,
         serves' \in [Threads -> Clients \cup {Nobody}],
         \A t \in Threads : serves'[t] # Nobody => serves'[t] = serves[t] /\ call'[serves[t]].step = "wait"
  PROVE  ClientInv'
<1>1. PayInv'
  <2>1. TypeInv'
    BY NextTypeInv DEF ClientInv, PayInv
  <2>2. QED
    BY <2>1, PayInvStays DEF ClientInv, vars, wallet
<1>2. UNCHANGED <<pc, req, status, broadcasts, payers>>
  BY DEF vars, ledger, threads, wallet, paid
<1>3. Calling'
  BY DEF ClientInv, Calling, GoOn
<1>4. FreshIds'
  BY <1>2 DEF ClientInv, Calling, FreshIds, GoOn, Unposted, Early
<1>5. PICK key \in [Spends -> Keys \cup {None}] : Owned(key)
  BY DEF ClientInv
<1>6. Owned(key)'
  <2>1. \A s \in Spends : payers'[s] \subseteq {key[s]} /\ (payers'[s] # {} => broadcasts'[s] = 1)
    BY <1>2, <1>5 DEF Owned
  <2>2. QED
    BY <1>2, <1>5, <2>1, OwnedStays
<1>7. QED
  BY <1>1, <1>3, <1>4, <1>5, <1>6 DEF ClientInv

LEMMA CallsEnd ==
  ASSUME ClientInv, NEW c \in Clients, RejectCall(c) \/ LookUpKey(c) \/ Unreachable(c) \/ AnswerCaller(c) \/ CallRaises(c)
  PROVE  ClientInv'
<1>1. /\ call \in [Clients -> [step : ClientSteps, request : Requests \cup {None}, response : Responses]]
      /\ \A t \in Threads : serves[t] # Nobody => call[serves[t]].step = "wait"
      /\ serves \in [Threads -> Clients \cup {Nobody}]
  BY DEF ClientInv, Calling
<1>2. UNCHANGED <<vars, spendKeys, issued, abreast>>
  BY DEF RejectCall, LookUpKey, Unreachable, AnswerCaller, CallRaises
<1>3. CASE RejectCall(c) \/ AnswerCaller(c) \/ CallRaises(c)
  <2>1. call' = [call EXCEPT ![c] = NoCall] /\ serves' = serves /\ call[c].step \notin {"wait"}
    BY <1>3 DEF RejectCall, AnswerCaller, CallRaises, Report
  <2>2. GoOn
    BY <1>1, <2>1 DEF GoOn, NoCall, ClientSteps, Responses, Unposted, Early
  <2>3. \A t \in Threads : serves'[t] # Nobody => serves'[t] = serves[t] /\ call'[serves[t]].step = "wait"
    BY <1>1, <2>1
  <2>4. serves' \in [Threads -> Clients \cup {Nobody}]
    BY <1>1, <2>1
  <2>5. QED
    BY <1>2, <2>2, <2>3, <2>4, CallsGoOn
<1>6. CASE LookUpKey(c)
  <2>1. /\ call[c].step = "look_up" /\ serves' = serves
        /\ \/ call' = [call EXCEPT ![c].step = "post"]
           \/ call[c].request.key \notin spendKeys /\ call' = [call EXCEPT ![c].step = "insert"]
    BY <1>6 DEF LookUpKey, Step
  <2>2. GoOn
    BY <1>1, <2>1 DEF GoOn, ClientSteps, Unposted, Early
  <2>3. \A t \in Threads : serves'[t] # Nobody => serves'[t] = serves[t] /\ call'[serves[t]].step = "wait"
    BY <1>1, <2>1
  <2>4. serves' \in [Threads -> Clients \cup {Nobody}]
    BY <1>1, <2>1
  <2>5. QED
    BY <1>2, <2>2, <2>3, <2>4, CallsGoOn
<1>4. CASE Unreachable(c)
  <2>1. /\ call[c].step \in {"post", "wait"}
        /\ call' = [call EXCEPT ![c] = [[call[c] EXCEPT !.step = "answer"] EXCEPT !.response = "error"]]
        /\ serves' = [t \in Threads |-> IF serves[t] = c THEN Nobody ELSE serves[t]]
    BY <1>4 DEF Unreachable, Respond, LostAnswer
  <2>2. GoOn
    BY <1>1, <2>1 DEF GoOn, ClientSteps, Responses, Unposted, Early
  <2>3. \A t \in Threads : serves'[t] # Nobody => serves'[t] = serves[t] /\ call'[serves[t]].step = "wait"
    BY <1>1, <2>1
  <2>4. serves' \in [Threads -> Clients \cup {Nobody}]
    BY <1>1, <2>1
  <2>5. QED
    BY <1>2, <2>2, <2>3, <2>4, CallsGoOn
<1>5. QED
  BY <1>3, <1>4, <1>6

\* The id of an attempt is a new one, so its key can be anything.
LEMMA AttemptBegins ==
  ASSUME ClientInv, NEW c \in Clients, Spend(c)
  PROVE  ClientInv'
<1>1. PICK r \in Requests :
        /\ r.spend \notin issued \cup {None}
        /\ call' = [call EXCEPT ![c] = [step |-> IF PreflightRefuses(r) THEN "reject" ELSE "look_up",
                                        request |-> r, response |-> "none"]]
        /\ issued' = issued \cup {r.spend}
        /\ abreast' = abreast \cup {{r.spend, call[d].request.spend} : d \in Unwritten(r.key)}
  BY DEF Spend
<1>2. /\ call[c] = NoCall /\ UNCHANGED <<vars, serves, spendKeys>>
      /\ UNCHANGED <<pc, req, status, broadcasts, payers>>
  BY DEF Spend, vars, ledger, threads, wallet, paid
<1>3. r.spend \in Spends /\ r.key \in Keys
  BY <1>1, RequestsAssumption
<1>4. PayInv'
  <2>1. TypeInv'
    BY <1>2, NextTypeInv DEF ClientInv, PayInv
  <2>2. QED
    BY <1>2, <2>1, PayInvStays DEF ClientInv, vars, wallet
<1>5. /\ call'[c].request = r /\ call'[c].step \in {"reject", "look_up"}
      /\ \A d \in Clients \ {c} : call'[d] = call[d]
      /\ call' \in [Clients -> [step : ClientSteps, request : Requests \cup {None}, response : Responses]]
  BY <1>1 DEF ClientInv, Calling, ClientSteps, Responses
<1>6. call[c].step = "idle"
  BY <1>2 DEF NoCall
<1>7. Calling'
  BY <1>1, <1>2, <1>3, <1>5, <1>6 DEF ClientInv, Calling
<1>8. FreshIds'
  BY <1>1, <1>2, <1>3, <1>5 DEF ClientInv, Calling, FreshIds, Unposted, Early
<1>9. PICK key \in [Spends -> Keys \cup {None}] : Owned(key)
  BY DEF ClientInv
<1> DEFINE new == [key EXCEPT ![r.spend] = r.key]
<1>10. new \in [Spends -> Keys \cup {None}]
  BY <1>3
<1>11. status[r.spend] = "absent" /\ payers[r.spend] = {}
  <2>1. status[r.spend] = "absent"
    BY <1>1, <1>3 DEF ClientInv, FreshIds
  <2>2. broadcasts[r.spend] # 1
    BY <1>3, <2>1 DEF ClientInv, PayInv, PaidWhileSending
  <2>3. QED
    BY <1>3, <1>9, <2>1, <2>2 DEF Owned
<1>12. Owned(new)'
  <2>1. \A d \in Clients : call'[d].step # "idle" => call'[d].request.key = new[call'[d].request.spend]
    BY <1>1, <1>3, <1>5, <1>9 DEF Owned, ClientInv, Calling
  <2>2. \A t \in Threads : pc[t] # "idle" => req[t].key = new[req[t].spend]
    BY <1>1, <1>9 DEF Owned, ClientInv, Calling, FreshIds
  <2>3. /\ \A s \in Spends : payers[s] \subseteq {new[s]} /\ (payers[s] # {} => broadcasts[s] = 1)
        /\ \A s \in Spends : status[s] # "absent" => new[s] = key[s] /\ key[s] \in spendKeys
        /\ \A s, u \in Spends :
             s # u /\ status[s] # "absent" /\ status[u] # "absent" /\ new[s] = new[u] => {s, u} \in abreast
    BY <1>3, <1>9, <1>11 DEF Owned
  <2>4. \A s \in Spends, d \in Clients :
          status[s] # "absent" /\ call'[d].step = "insert" /\ new[s] = call'[d].request.key
            => {s, call'[d].request.spend} \in abreast
    BY <1>5, <1>9, <2>3 DEF Owned
  <2>5. ASSUME NEW d \in Clients, NEW e \in Clients, d # e, Early(d)', Early(e)',
               call'[d].request.key = call'[e].request.key
        PROVE  {call'[d].request.spend, call'[e].request.spend} \in abreast'
    <3>1. CASE d # c /\ e # c
      BY <1>1, <1>5, <1>9, <2>5, <3>1 DEF Owned, Early
    <3>2. ASSUME NEW f \in Clients \ {c}, Early(f)', call'[f].request.key = r.key
          PROVE  {r.spend, call'[f].request.spend} \in abreast'
      BY <1>1, <1>5, <3>2 DEF Early, Unwritten
    <3>3. QED
      BY <1>5, <2>5, <3>1, <3>2
  <2>6. abreast \subseteq abreast'
    BY <1>1
  <2>7. QED
    BY <1>2, <2>1, <2>2, <2>3, <2>4, <2>5, <2>6 DEF Owned
<1>13. QED
  BY <1>4, <1>7, <1>8, <1>10, <1>12 DEF ClientInv

-----------------------------------------------------------------------------
(* Steps that the governor sees.                                             *)

LEMMA RowIsWritten ==
  ASSUME ClientInv, NEW c \in Clients, InsertRow(c)
  PROVE  ClientInv'
<1> DEFINE r == call[c].request
<1>1. r \in Requests /\ r.spend \in issued /\ r.spend \in Spends /\ status[r.spend] = "absent"
  BY DEF InsertRow, ClientInv, Calling, FreshIds, Early
<1>2. /\ call[c].step = "insert" /\ call' = [call EXCEPT ![c].step = "post"]
      /\ UNCHANGED <<cache, threads, wallet, day, serves, issued, abreast>>
      /\ UNCHANGED <<pc, req, broadcasts, payers>>
      /\ spendKeys' = spendKeys \cup {r.key}
      /\ status' = [status EXCEPT ![r.spend] = "proposed"]
  BY DEF InsertRow, InsertRequest, Step, threads, wallet, paid
<1>3. PayInv
  BY DEF ClientInv
<1>4. status \in [Spends -> Statuses] /\ \A s \in Spends : s # r.spend => status'[s] = status[s]
  <2>1. status \in [Spends -> Statuses]
    BY <1>3 DEF PayInv, TypeInv, TypeOK, LedgerTypeOK
  <2>2. QED
    BY <1>1, <1>2, <2>1
<1>5. PayInv'
  <2>1. TypeInv'
    BY <1>3, StepOfGovernor, NextTypeInv DEF PayInv, ClientNext
  <2>2. Alone'
    BY <1>2, <1>3 DEF PayInv, Alone
  <2>3. ASSUME NEW t \in Threads PROVE Stage(t)'
    <3>1. pc[t] # "idle" => req[t].spend # r.spend
      BY <1>2 DEF ClientInv, FreshIds, Unposted
    <3>2. pc[t] \in SpendSteps \/ (pc[t] = "read_txs" /\ seen[t] # "absent") =>
            status'[req[t].spend] = status[req[t].spend]
      BY <1>3, <1>4, <3>1, Known DEF SpendSteps
    <3>3. Stage(t) /\ UNCHANGED <<pc, req, seen, cleanup, broadcasts>>
      BY <1>2, <1>3 DEF PayInv, threads, locals
    <3>4. QED
      BY <1>3, <3>2, <3>3, Known DEF Stage, SpendSteps, Steps, LedgerSteps, WalletSteps
  <2>4. PaidWhileSending'
    BY <1>1, <1>2, <1>3, <1>4 DEF PayInv, PaidWhileSending
  <2>5. QED
    BY <2>1, <2>2, <2>3, <2>4 DEF PayInv
<1>6. /\ call' \in [Clients -> [step : ClientSteps, request : Requests \cup {None}, response : Responses]]
      /\ call'[c].request = r /\ call'[c].step = "post" /\ \A d \in Clients \ {c} : call'[d] = call[d]
  BY <1>2 DEF ClientInv, Calling, ClientSteps
<1>7. Calling'
  BY <1>1, <1>2, <1>6 DEF ClientInv, Calling
<1>8. FreshIds'
  <2>1. \A d \in Clients : Unposted(d)' => Unposted(d) /\ call'[d].request = call[d].request
    BY <1>2, <1>6 DEF Unposted
  <2>2. \A d \in Clients : Early(d)' =>
          d # c /\ Early(d) /\ call[d].request.spend \in Spends
          /\ call[d].request.spend # r.spend
    BY <1>2, <1>6 DEF ClientInv, Calling, FreshIds, Unposted, Early
  <2>3. \A s \in Spends : s \notin issued => s # r.spend
    BY <1>1
  <2>4. QED
    BY <1>2, <1>4, <1>6, <2>1, <2>2, <2>3 DEF ClientInv, FreshIds
<1>9. PICK key \in [Spends -> Keys \cup {None}] : Owned(key)
  BY DEF ClientInv
<1>10. Owned(key)'
  <2>1. r.key = key[r.spend]
    BY <1>2, <1>9 DEF Owned
  <2>2. \A d \in Clients : call'[d].step # "idle" => call'[d].request.key = key[call'[d].request.spend]
    BY <1>2, <1>6, <1>9 DEF Owned
  <2>3. \A s \in Spends : status'[s] # "absent" => key[s] \in spendKeys'
    BY <1>2, <1>4, <1>9, <2>1 DEF Owned
  <2>4. \A d \in Clients : Early(d)' => d # c /\ Early(d) /\ call'[d] = call[d]
    BY <1>6 DEF Early
  <2>5. ASSUME NEW s \in Spends, NEW u \in Spends, s # u,
               status'[s] # "absent", status'[u] # "absent", key[s] = key[u]
        PROVE  {s, u} \in abreast
    <3>1. ASSUME NEW v \in Spends, v # r.spend, status'[v] # "absent", key[v] = r.key
          PROVE  {v, r.spend} \in abreast
      BY <1>2, <1>4, <1>9, <3>1 DEF Owned
    <3>2. QED
      BY <1>4, <1>9, <2>1, <2>5, <3>1 DEF Owned
  <2>6. ASSUME NEW s \in Spends, NEW d \in Clients,
               status'[s] # "absent", call'[d].step = "insert", key[s] = call'[d].request.key
        PROVE  {s, call'[d].request.spend} \in abreast
    <3>1. d # c /\ call'[d] = call[d] /\ Early(d) /\ Early(c)
      BY <1>2, <1>6, <2>6 DEF Early
    <3>2. CASE s # r.spend
      BY <1>4, <1>9, <2>6, <3>1, <3>2 DEF Owned
    <3>3. CASE s = r.spend
      BY <1>9, <2>1, <2>6, <3>1, <3>3 DEF Owned
    <3>4. QED
      BY <3>2, <3>3
  <2>7. QED
    BY <1>2, <1>9, <2>2, <2>3, <2>4, <2>5, <2>6 DEF Owned
<1>11. QED
  BY <1>5, <1>7, <1>8, <1>9, <1>10 DEF ClientInv

LEMMA RequestIsPosted ==
  ASSUME ClientInv, NEW c \in Clients, NEW t \in Threads, Post(c, t)
  PROVE  ClientInv'
<1> DEFINE r == call[c].request
<1>1. /\ r \in Requests /\ r.spend \in issued /\ issued \subseteq Spends /\ call[c].step = "post"
      /\ call \in [Clients -> [step : ClientSteps, request : Requests \cup {None}, response : Responses]]
      /\ \A u \in Threads : serves[u] # Nobody => call[serves[u]].step = "wait"
      /\ serves \in [Threads -> Clients \cup {Nobody}]
  BY DEF Post, ClientInv, Calling
<1>2. CASE Replay(t, r) /\ Respond(c, cache[r.key].outcome) /\ UNCHANGED serves
  <2>1. UNCHANGED <<vars, spendKeys, issued, abreast>>
    BY <1>2 DEF Post, Replay
  <2>2. cache[r.key].outcome \in Responses
    <3>1. r.key \in Keys /\ cache[r.key] \in Cached \cup {None} /\ cache[r.key] # None
      BY <1>1, <1>2, RequestsAssumption DEF Replay, ClientInv, PayInv, TypeInv, TypeOK, ServiceTypeOK
    <3>2. QED
      BY <3>1 DEF Cached, Responses
  <2>3. GoOn
    BY <1>1, <1>2, <2>2 DEF Respond, GoOn, ClientSteps, Unposted, Early
  <2>4. \A u \in Threads : serves'[u] # Nobody => serves'[u] = serves[u] /\ call'[serves[u]].step = "wait"
    BY <1>1, <1>2 DEF Respond
  <2>5. serves' \in [Threads -> Clients \cup {Nobody}]
    BY <1>1, <1>2
  <2>6. QED
    BY <2>1, <2>3, <2>4, <2>5, CallsGoOn
<1>3. CASE /\ Receive(t, r) \/ Conflict(t, r)
           /\ Step(c, "wait") /\ serves' = [serves EXCEPT ![t] = c]
  <2>1. /\ pc[t] = "idle" /\ UNCHANGED <<ledger, seen, cleanup, paid, spendKeys, issued, abreast>>
        /\ UNCHANGED <<status, broadcasts, payers>>
        /\ \E step \in {"received", "log_reject"} : pc' = [pc EXCEPT ![t] = step]
        /\ req' = [req EXCEPT ![t] = r]
    BY <1>3 DEF Post, Receive, Conflict, Begin, MayStart, At, Goto, wallet, paid, ledger
  <2>2. PayInv
    BY DEF ClientInv
  <2>3. \A u \in Threads \ {t} : pc'[u] = pc[u] /\ req'[u] = req[u]
    BY <2>1
  <2>4. pc'[t] \in {"received", "log_reject"} /\ req'[t] = r
    BY <2>1, <2>2, Known
  <2>5. \A u \in Threads \ {t} : pc[u] # "idle" => req[u].spend # r.spend
    BY <1>1 DEF ClientInv, FreshIds, Unposted
  <2>6. PayInv'
    <3>1. TypeInv'
      BY <2>2, StepOfGovernor, NextTypeInv DEF PayInv, ClientNext
    <3>2. Alone'
      BY <2>2, <2>3, <2>4, <2>5 DEF PayInv, Alone
    <3>3. \A u \in Threads : Stage(u)'
      BY <2>1, <2>2, <2>3, <2>4, Known DEF PayInv, Stage
    <3>4. PaidWhileSending'
      BY <2>1, <2>2 DEF PayInv, PaidWhileSending
    <3>5. QED
      BY <3>1, <3>2, <3>3, <3>4 DEF PayInv
  <2>7. /\ call' \in [Clients -> [step : ClientSteps, request : Requests \cup {None}, response : Responses]]
        /\ call'[c].request = r /\ call'[c].step = "wait" /\ \A d \in Clients \ {c} : call'[d] = call[d]
    BY <1>1, <1>3 DEF Step, ClientSteps
  <2>8. /\ serves'[t] = c /\ serves' \in [Threads -> Clients \cup {Nobody}]
        /\ \A u \in Threads \ {t} : serves'[u] = serves[u] /\ serves[u] # c
    <3>1. \A u \in Threads : serves[u] # c
      BY <1>1, ClientsAssumption
    <3>2. QED
      BY <1>1, <1>3, <3>1
  <2>9. Calling'
    <3>1. \A u \in Threads : serves'[u] # Nobody => call'[serves'[u]].step = "wait"
      BY <1>1, <2>7, <2>8
    <3>2. \A u, v \in Threads : u # v /\ serves'[u] # Nobody => serves'[u] # serves'[v]
      BY <2>8 DEF ClientInv, Calling
    <3>3. \A d \in Clients : call'[d].step # "idle" =>
            call'[d].request \in Requests /\ call'[d].request.spend \in issued
      BY <1>1, <2>7 DEF ClientInv, Calling
    <3>4. QED
      BY <1>1, <2>1, <2>7, <2>8, <3>1, <3>2, <3>3 DEF Calling
  <2>10. FreshIds'
    <3>1. \A d \in Clients : Unposted(d)' => d # c /\ Unposted(d) /\ call'[d] = call[d]
      BY <2>7 DEF Unposted
    <3>2. \A d \in Clients : d # c /\ Unposted(d) => call[d].request.spend # r.spend
      BY <1>1 DEF ClientInv, FreshIds, Unposted
    <3>3. \A d \in Clients : Early(d)' => Early(d) /\ call'[d] = call[d]
      BY <2>7 DEF Early
    <3>4. QED
      BY <1>1, <2>1, <2>3, <2>4, <3>1, <3>2, <3>3 DEF ClientInv, FreshIds
  <2>11. PICK key \in [Spends -> Keys \cup {None}] : Owned(key)
    BY DEF ClientInv
  <2>12. Owned(key)'
    <3>1. /\ \A d \in Clients : call'[d].step # "idle" =>
               call[d].step # "idle" /\ call'[d].request = call[d].request
          /\ \A d \in Clients : Early(d)' => Early(d) /\ call'[d] = call[d]
          /\ \A d \in Clients : call'[d].step = "insert" => call'[d] = call[d]
      BY <1>1, <2>7 DEF Early
    <3>2. \A d \in Clients : call'[d].step # "idle" => call'[d].request.key = key[call'[d].request.spend]
      BY <2>11, <3>1 DEF Owned
    <3>3. r.key = key[r.spend]
      BY <1>1, <2>11 DEF Owned
    <3>4. \A u \in Threads : pc'[u] # "idle" => req'[u].key = key[req'[u].spend]
      BY <2>3, <2>4, <2>11, <3>3 DEF Owned
    <3>5. /\ \A s \in Spends, d \in Clients :
               status[s] # "absent" /\ call'[d].step = "insert" /\ key[s] = call'[d].request.key
                 => {s, call'[d].request.spend} \in abreast
          /\ \A d, e \in Clients :
               d # e /\ Early(d)' /\ Early(e)' /\ call'[d].request.key = call'[e].request.key
                 => {call'[d].request.spend, call'[e].request.spend} \in abreast
      BY <2>11, <3>1 DEF Owned
    <3>6. QED
      BY <2>1, <2>11, <3>2, <3>4, <3>5 DEF Owned
  <2>13. QED
    BY <2>6, <2>9, <2>10, <2>11, <2>12 DEF ClientInv
<1>4. QED
  BY <1>2, <1>3 DEF Post

LEMMA ThreadServes ==
  ASSUME ClientInv, NEW t \in Threads, Serve(t)
  PROVE  ClientInv'
<1>1. /\ ThreadStep(t) \/ LedgerFails(t) \/ AnswerEscapes(t)
      /\ UNCHANGED <<spendKeys, issued, abreast>>
      /\ \E reply \in {"sent", "rejected", "error"} : Answered(t, reply)
  BY DEF Serve, Reply
<1>2. PayInv /\ Calling
  BY DEF ClientInv
<1>3. Local(t) /\ Stage(t)' /\ PaidWhileSending'
  BY <1>1, <1>2, ThreadSteps
<1>4. PayInv'
  <2>1. TypeInv'
    BY <1>2, StepOfGovernor, NextTypeInv DEF PayInv, ClientNext
  <2>2. \A u \in Threads \ {t} : Stage(u)'
    BY <1>2, <1>3, OtherStages DEF PayInv
  <2>3. Alone'
    BY <1>2, <1>3, StillAlone DEF PayInv
  <2>4. QED
    BY <1>3, <2>1, <2>2, <2>3 DEF PayInv
<1>5. PICK reply \in {"sent", "rejected", "error"} : Answered(t, reply)
  BY <1>1
<1>6. \/ UNCHANGED <<call, serves>>
      \/ /\ serves' = [serves EXCEPT ![t] = Nobody]
         /\ \/ serves[t] = Nobody /\ UNCHANGED call
            \/ /\ serves[t] # Nobody
               /\ call' = [call EXCEPT ![serves[t]] =
                            [[call[serves[t]] EXCEPT !.step = "answer"] EXCEPT !.response = reply]]
  BY <1>5 DEF Answered, Respond
<1>7. /\ GoOn
      /\ serves' \in [Threads -> Clients \cup {Nobody}]
      /\ \A u \in Threads : serves'[u] # Nobody => serves'[u] = serves[u] /\ call'[serves[u]].step = "wait"
  <2>1. CASE UNCHANGED <<call, serves>>
    BY <1>2, <2>1 DEF Calling, GoOn, Unposted, Early
  <2>2. CASE serves' = [serves EXCEPT ![t] = Nobody] /\ UNCHANGED call
    BY <1>2, <2>2 DEF Calling, GoOn, Unposted, Early
  <2>3. CASE /\ serves' = [serves EXCEPT ![t] = Nobody] /\ serves[t] # Nobody
             /\ call' = [call EXCEPT ![serves[t]] =
                           [[call[serves[t]] EXCEPT !.step = "answer"] EXCEPT !.response = reply]]
    <3>1. serves[t] \in Clients /\ call[serves[t]].step = "wait"
      BY <1>2, <2>3 DEF Calling
    <3>2. GoOn
      BY <1>2, <2>3, <3>1 DEF Calling, GoOn, ClientSteps, Responses, Unposted, Early
    <3>3. serves' \in [Threads -> Clients \cup {Nobody}]
      BY <1>2, <2>3 DEF Calling
    <3>4. ASSUME NEW u \in Threads, serves'[u] # Nobody
          PROVE  serves'[u] = serves[u] /\ call'[serves[u]].step = "wait"
      <4>1. u # t /\ serves'[u] = serves[u]
        BY <1>2, <2>3, <3>4 DEF Calling
      <4>2. serves[u] # serves[t] /\ call[serves[u]].step = "wait" /\ serves[u] \in Clients
        BY <1>2, <2>3, <3>4, <4>1 DEF Calling
      <4>3. QED
        BY <1>2, <2>3, <4>1, <4>2 DEF Calling
    <3>5. QED
      BY <3>2, <3>3, <3>4
  <2>4. QED
    BY <1>6, <2>1, <2>2, <2>3
<1>8. Calling'
  BY <1>1, <1>2, <1>7 DEF Calling, GoOn
<1>9. \A u \in Threads : pc'[u] # "idle" => pc[u] # "idle" /\ req'[u] = req[u]
  BY <1>3 DEF Local, Frame
<1>10. \A s \in Spends : status'[s] # "absent" => status[s] # "absent"
  BY <1>1, <1>2, RowsAreOld
<1>11. FreshIds'
  <2>1. \A c \in Clients : Early(c)' => status'[call'[c].request.spend] = "absent"
    <3>1. ASSUME NEW c \in Clients, Early(c)'
          PROVE  /\ Early(c) /\ call'[c].request = call[c].request
                 /\ call[c].request.spend \in Spends
      BY <1>2, <1>7, <3>1 DEF GoOn, Calling, Early
    <3>2. QED
      BY <1>10, <3>1 DEF ClientInv, FreshIds
  <2>2. \A c \in Clients : Unposted(c)' => Unposted(c) /\ call'[c].request = call[c].request
    BY <1>7 DEF GoOn, Unposted
  <2>3. \A s \in Spends : s \notin issued => status'[s] = "absent"
    BY <1>10 DEF ClientInv, FreshIds
  <2>4. QED
    BY <1>1, <1>9, <2>1, <2>2, <2>3 DEF ClientInv, FreshIds
<1>12. PICK key \in [Spends -> Keys \cup {None}] : Owned(key)
  BY DEF ClientInv
<1>13. Owned(key)'
  <2>3. \A s \in Spends : payers'[s] \subseteq {key[s]} /\ (payers'[s] # {} => broadcasts'[s] = 1)
    <3>1. CASE UNCHANGED <<broadcasts, payers>>
      BY <1>12, <3>1 DEF Owned
    <3>2. CASE Broadcast(req[t]) /\ req[t].spend \in Spends
      <4>1. req[t].key = key[req[t].spend]
        BY <1>3, <1>12 DEF Owned, Local
      <4>2. /\ broadcasts' = [broadcasts EXCEPT ![req[t].spend] = @ + 1]
            /\ payers' = [payers EXCEPT ![req[t].spend] = @ \cup {req[t].key}]
        BY <3>2 DEF Broadcast
      <4>3. broadcasts \in [Spends -> Nat] /\ payers \in [Spends -> SUBSET Keys]
        BY <1>2, LimitsAssumption DEF PayInv, TypeInv, TypeOK, WalletTypeOK
      <4>4. broadcasts'[req[t].spend] = 1
        BY <1>3, <3>2, <4>2, <4>3 DEF PaidWhileSending
      <4>5. QED
        BY <1>12, <3>2, <4>1, <4>2, <4>3, <4>4 DEF Owned
    <3>3. QED
      BY <1>1, <1>2, <3>1, <3>2, PayersAreKnown
  <2>4. QED
    BY <1>1, <1>7, <1>9, <1>10, <1>12, <2>3, OwnedStays
<1>14. QED
  BY <1>4, <1>8, <1>11, <1>12, <1>13 DEF ClientInv

LEMMA ServiceRestarts ==
  ASSUME ClientInv, Restart
  PROVE  ClientInv'
<1>1. /\ \A t \in Threads : pc'[t] = "idle" /\ serves'[t] = Nobody
      /\ serves' \in [Threads -> Clients \cup {Nobody}]
      /\ UNCHANGED <<status, broadcasts, payers, spendKeys, issued, abreast>>
  BY DEF Restart, Crash, ledger, wallet, paid
<1>2. PayInv'
  <2>1. TypeInv'
    BY StepOfGovernor, NextTypeInv DEF ClientInv, PayInv, ClientNext
  <2>2. \A t \in Threads : Stage(t)'
    BY DEF Restart, Crash, Stage
  <2>3. Alone' /\ PaidWhileSending'
    BY <1>1 DEF ClientInv, PayInv, PaidWhileSending, Alone
  <2>4. QED
    BY <2>1, <2>2, <2>3 DEF PayInv
<1>3. GoOn
  BY DEF ClientInv, Calling, Restart, LostAnswer, GoOn, ClientSteps, Responses, Unposted, Early
<1>4. Calling'
  BY <1>1, <1>3 DEF ClientInv, Calling, GoOn
<1>5. FreshIds'
  BY <1>1, <1>3 DEF ClientInv, FreshIds, GoOn, Unposted, Early
<1>6. PICK key \in [Spends -> Keys \cup {None}] : Owned(key)
  BY DEF ClientInv
<1>7. Owned(key)'
  <2>1. \A s \in Spends : payers'[s] \subseteq {key[s]} /\ (payers'[s] # {} => broadcasts'[s] = 1)
    BY <1>1, <1>6 DEF Owned
  <2>2. QED
    BY <1>1, <1>3, <1>6, <2>1, OwnedStays
<1>8. QED
  BY <1>2, <1>4, <1>5, <1>6, <1>7 DEF ClientInv

LEMMA WorldMoves ==
  ASSUME ClientInv, Environment
  PROVE  ClientInv'
<1>1. UNCHANGED <<ledger, threads, paid, call, serves, spendKeys, issued, abreast>>
  BY DEF Environment, UnlockExpires, NextDay, wallet, client
<1>2. UNCHANGED <<pc, req, status, broadcasts, payers>>
  BY <1>1 DEF ledger, threads, paid
<1>3. PayInv'
  <2>1. TypeInv'
    BY StepOfGovernor, NextTypeInv DEF ClientInv, PayInv, ClientNext
  <2>2. QED
    BY <1>1, <2>1, PayInvStays DEF ClientInv
<1>4. Calling' /\ FreshIds'
  BY <1>1, <1>2 DEF ClientInv, Calling, FreshIds, Unposted, Early
<1>5. PICK key \in [Spends -> Keys \cup {None}] : Owned(key)
  BY DEF ClientInv
<1>6. Owned(key)'
  BY <1>1, <1>2, <1>5 DEF Owned, Early
<1>7. QED
  BY <1>3, <1>4, <1>5, <1>6 DEF ClientInv

-----------------------------------------------------------------------------
LEMMA InitClientInv == ClientInit => ClientInv
<1> SUFFICES ASSUME ClientInit PROVE ClientInv
  OBVIOUS
<1>1. PayInv
  BY InitPayInv DEF ClientInit
<1>2. Calling
  BY DEF ClientInit, Calling, NoCall, ClientSteps, Responses
<1>3. FreshIds
  BY DEF ClientInit, Init, FreshIds, Unposted, Early, NoCall
<1> DEFINE key == [s \in Spends |-> None]
<1>4. key \in [Spends -> Keys \cup {None}] /\ Owned(key)
  BY DEF ClientInit, Init, Owned, NoCall, Early
<1>5. QED
  BY <1>1, <1>2, <1>3, <1>4 DEF ClientInv

LEMMA NextClientInv == ClientInv /\ [ClientNext]_clientVars => ClientInv'
<1> SUFFICES ASSUME ClientInv, [ClientNext]_clientVars PROVE ClientInv'
  OBVIOUS
<1>1. CASE UNCHANGED clientVars
  <2>1. UNCHANGED <<vars, call, serves, spendKeys, issued, abreast>>
    BY <1>1 DEF clientVars, client
  <2>2. GoOn
    BY <2>1 DEF GoOn, ClientInv, Calling, Unposted, Early
  <2>3. QED
    BY <2>1, <2>2, CallsGoOn DEF ClientInv, Calling
<1>2. CASE ClientNext
  BY <1>2, AttemptBegins, RowIsWritten, RequestIsPosted, CallsEnd, ThreadServes, ServiceRestarts,
     WorldMoves DEF ClientNext
<1>3. QED
  BY <1>1, <1>2

LEMMA ClientInvariant == ClientSpec => []ClientInv
BY InitClientInv, NextClientInv, PTL DEF ClientSpec

\* The client does nothing that the specification of the governor does not expect of a
\* caller: spend records a spend request only while it has no row, and posts only then.
THEOREM ClientKeepsToSpec == ClientSpec => Spec
<1>1. ClientInit => Init
  BY DEF ClientInit
<1>2. ClientInv /\ [ClientNext]_clientVars => [Next]_vars
  BY StepOfGovernor
<1>3. QED
  BY <1>1, <1>2, ClientInvariant, PTL DEF ClientSpec, Spec

\* Each attempt pays at most once, however many time out, are repeated or are cut short by
\* restarts.  Two attempts pay under one key only if each began before the other had its
\* row: record_spend_request looks the key up first, and only what found it unused gets a
\* row (repository.py:539-580, runner.py:197-225).
THEOREM AttemptsPayOnceInAll == ClientSpec => []AttemptsPayOnce
<1>1. ClientInv => AttemptsPayOnce
  <2> SUFFICES ASSUME ClientInv, NEW k \in Keys, NEW s \in Spends, NEW u \in Spends,
                      k \in payers[s], k \in payers[u]
               PROVE  broadcasts[s] = 1 /\ (s # u => {s, u} \in abreast)
    BY DEF AttemptsPayOnce
  <2>1. PICK key \in [Spends -> Keys \cup {None}] : Owned(key)
    BY DEF ClientInv
  <2>2. key[s] = key[u] /\ broadcasts[s] = 1 /\ broadcasts[u] = 1
    BY <2>1 DEF Owned
  <2>3. status[s] # "absent" /\ status[u] # "absent"
    BY <2>2 DEF ClientInv, PayInv, PaidWhileSending
  <2>4. QED
    BY <2>1, <2>2, <2>3 DEF Owned
<1>2. QED
  BY <1>1, ClientInvariant, PTL

\* Behind the client the governor implements the spend lifecycle and pays each spend
\* request at most once, with no assumption about requests that overlap.
THEOREM ClientPaysOnce == ClientSpec => []AtMostOneBroadcast /\ RefinesLifecycle
<1>1. ClientInit => Lifecycle!Init
  BY DEF ClientInit, Init, Lifecycle!Init
<1>2. ClientInv /\ [ClientNext]_clientVars => [Lifecycle!Next]_(Lifecycle!vars)
  BY StepOfGovernor, StepOfLifecycle DEF ClientInv
<1>3. ClientInv => AtMostOneBroadcast
  BY DEF ClientInv, PayInv, PaidWhileSending, AtMostOneBroadcast
<1>4. QED
  BY <1>1, <1>2, <1>3, ClientInvariant, PTL DEF ClientSpec, RefinesLifecycle, Lifecycle!Spec

-----------------------------------------------------------------------------
(* What a caller has been told stays true.  An answer is given when nothing  *)
(* works on the spend request any more, and its id is never used again.      *)

\* The steps of a thread that come before it may pay.
BeforePaying ==
  { "received", "validating", "read_request", "read_txs", "consult", "daily", "weekly",
    "rejecting", "log_reject", "approve", "start", "log_start", "unlock", "send" }

\* No two calls under way are about the same id.
OwnIds == \A c, d \in Clients :
  c # d /\ call[c].step # "idle" /\ call[d].step # "idle"
    => call[c].request.spend # call[d].request.spend

\* Nothing works on the spend request any more, and nothing will.
Settled(s) ==
  /\ s \in issued
  /\ \A t \in Threads : pc[t] # "idle" => req[t].spend # s
  /\ \A c \in Clients : Unposted(c) => call[c].request.spend # s

\* What an answer says is true and will stay true.
Kept(s, answer) ==
  /\ answer \in {"sent", "rejected"} => Settled(s)
  /\ answer = "sent" => status[s] = "sent" /\ broadcasts[s] = 1
  /\ answer = "rejected" => broadcasts[s] = 0

\* A call that has not been posted has not been paid for, and no thread has its id.
NotBegun == \A c \in Clients : call[c].step \in {"reject", "look_up", "insert", "post"} =>
  /\ broadcasts[call[c].request.spend] = 0
  /\ \A t \in Threads : pc[t] # "idle" => req[t].spend # call[c].request.spend

\* What a thread that is about to reject or to answer knows of its spend request.
Assured(t) ==
  LET s == req[t].spend
  IN  /\ pc[t] \in BeforePaying => broadcasts[s] = 0
      /\ pc[t] = "log_sent" => status[s] = "sent" /\ broadcasts[s] = 1

\* A thread works on the request of the caller it will answer.
Serving == \A t \in Threads : serves[t] # Nobody =>
  pc[t] # "idle" /\ req[t] = call[serves[t]].request

\* The service remembers no answer for a request that has not reached it.
NoReplays == \A k \in Keys : cache[k] # None =>
  /\ cache[k].request.spend \in issued
  /\ \A c \in Clients : Unposted(c) => call[c].request.spend # cache[k].request.spend

AnswersKept == \A c \in Clients :
  call[c].step = "answer" => Kept(call[c].request.spend, call[c].response)

ReportsKept == \A report \in reports :
  /\ Kept(report.spend, report.status)
  /\ report.status = "sent" => [key |-> report.key, spend |-> report.spend] \in txs

ReportInv ==
  /\ OwnIds /\ NotBegun /\ (\A t \in Threads : Assured(t)) /\ Serving /\ NoReplays
  /\ AnswersKept /\ ReportsKept

\* What a step leaves of a spend request that is settled.
StaysSettled(s) ==
  /\ issued \subseteq issued'
  /\ status'[s] = status[s] /\ broadcasts'[s] = broadcasts[s]
  /\ \A t \in Threads : pc'[t] # "idle" => req'[t].spend # s
  /\ \A c \in Clients : Unposted(c)' => call'[c].request.spend # s

LEMMA CallTypes ==
  ASSUME ClientInv
  PROVE  /\ call \in [Clients -> [step : ClientSteps, request : Requests \cup {None}, response : Responses]]
         /\ serves \in [Threads -> Clients \cup {Nobody}] /\ issued \subseteq Spends
         /\ pc \in [Threads -> Steps] /\ req \in [Threads -> Requests \cup {None}]
         /\ cache \in [Keys -> Cached \cup {None}]
         /\ status \in [Spends -> Statuses] /\ broadcasts \in [Spends -> Nat]
         /\ \A c \in Clients : call[c].step # "idle" =>
              call[c].request \in Requests /\ call[c].request.spend \in issued
         /\ \A t \in Threads : pc[t] # "idle" => req[t].spend \in issued
         /\ \A s \in Spends : status[s] \in {"absent", "proposed"} => broadcasts[s] = 0
<1>1. Calling /\ FreshIds /\ PayInv /\ TypeOK
  BY DEF ClientInv, PayInv, TypeInv
<1>2. broadcasts \in [Spends -> 0 .. MaxBroadcasts] /\ 0 .. MaxBroadcasts \subseteq Nat
  BY <1>1, LimitsAssumption DEF TypeOK, WalletTypeOK
<1>3. broadcasts \in [Spends -> Nat]
  BY <1>2
<1>4. ASSUME NEW s \in Spends, status[s] \in {"absent", "proposed"} PROVE broadcasts[s] = 0
  BY <1>1, <1>3, <1>4 DEF PayInv, PaidWhileSending
<1>5. QED
  BY <1>1, <1>3, <1>4 DEF Calling, FreshIds, TypeOK, LedgerTypeOK, ServiceTypeOK

LEMMA WhatIsSettledStays ==
  ASSUME ClientInv, [ClientNext]_clientVars, NEW s, Settled(s)
  PROVE  StaysSettled(s)
<1> s \in Spends
  BY CallTypes DEF Settled
<1> USE CallTypes
<1>1. ASSUME UNCHANGED vars, issued \subseteq issued',
             \A c \in Clients : Unposted(c)' =>
               \/ Unposted(c) /\ call'[c].request = call[c].request
               \/ call'[c].request.spend \notin issued
      PROVE  StaysSettled(s)
  BY <1>1 DEF Settled, StaysSettled, vars, ledger, threads, wallet, paid
<1>2. CASE UNCHANGED clientVars
  BY <1>1, <1>2 DEF clientVars, client, Unposted
<1>3. ASSUME NEW c \in Clients, Spend(c) PROVE StaysSettled(s)
  BY <1>1, <1>3 DEF Spend, Unposted
<1>4. ASSUME NEW c \in Clients, RejectCall(c) \/ LookUpKey(c) \/ Unreachable(c) \/ AnswerCaller(c) \/ CallRaises(c)
      PROVE  StaysSettled(s)
  <2>1. UNCHANGED vars /\ UNCHANGED issued
    BY <1>4 DEF RejectCall, LookUpKey, Unreachable, AnswerCaller, CallRaises
  <2>2. \A d \in Clients : Unposted(d)' => Unposted(d) /\ call'[d].request = call[d].request
    BY <1>4 DEF RejectCall, LookUpKey, Unreachable, AnswerCaller, CallRaises, Report, Respond, Step, NoCall, Unposted
  <2>3. QED
    BY <1>1, <2>1, <2>2
<1>5. ASSUME NEW c \in Clients, InsertRow(c) PROVE StaysSettled(s)
  <2>1. /\ call[c].request.spend # s /\ call[c].step = "insert"
        /\ UNCHANGED <<threads, paid, issued>>
        /\ status' = [status EXCEPT ![call[c].request.spend] = "proposed"]
        /\ call' = [call EXCEPT ![c].step = "post"]
    BY <1>5 DEF InsertRow, InsertRequest, Step, Settled, Unposted, wallet
  <2>2. status'[s] = status[s]
    BY <2>1
  <2>3. \A d \in Clients : Unposted(d)' => Unposted(d) /\ call'[d].request = call[d].request
    BY <2>1 DEF Unposted
  <2>4. QED
    BY <2>1, <2>2, <2>3 DEF Settled, StaysSettled, threads, paid
<1>6. ASSUME NEW c \in Clients, NEW t \in Threads, Post(c, t) PROVE StaysSettled(s)
  <2>1. call[c].step = "post" /\ call[c].request.spend # s
    BY <1>6 DEF Post, Settled, Unposted
  <2>2. CASE Replay(t, call[c].request) /\ Respond(c, cache[call[c].request.key].outcome)
    <3>1. UNCHANGED vars /\ UNCHANGED issued
      BY <1>6, <2>2 DEF Post, Replay
    <3>2. \A d \in Clients : Unposted(d)' => Unposted(d) /\ call'[d].request = call[d].request
      BY <2>2 DEF Respond, Unposted
    <3>3. QED
      BY <1>1, <3>1, <3>2
  <2>3. CASE (Receive(t, call[c].request) \/ Conflict(t, call[c].request)) /\ Step(c, "wait")
    <3>1. /\ UNCHANGED <<status, broadcasts, issued>>
          /\ \E step : pc' = [pc EXCEPT ![t] = step]
          /\ req' = [req EXCEPT ![t] = call[c].request]
      BY <1>6, <2>3 DEF Post, Receive, Conflict, Begin, Goto, ledger, wallet, paid
    <3>2. \A u \in Threads : pc'[u] # "idle" => req'[u].spend # s
      BY <2>1, <3>1 DEF Settled
    <3>3. \A d \in Clients : Unposted(d)' => Unposted(d) /\ call'[d].request = call[d].request
      BY <2>3 DEF Step, Unposted
    <3>4. QED
      BY <3>1, <3>2, <3>3 DEF Settled, StaysSettled
  <2>4. QED
    BY <1>6, <2>2, <2>3 DEF Post
<1>7. ASSUME NEW t \in Threads, Serve(t) PROVE StaysSettled(s)
  <2>1. ThreadStep(t) \/ LedgerFails(t) \/ AnswerEscapes(t)
    BY <1>7 DEF Serve
  <2>2. Local(t)
    BY <2>1, ThreadSteps DEF ClientInv
  <2>3. req[t].spend # s
    BY <2>2 DEF Local, Settled
  <2>4. UNCHANGED issued
    BY <1>7 DEF Serve
  <2>5. \A d \in Clients : Unposted(d)' => Unposted(d) /\ call'[d].request = call[d].request
    BY <1>7 DEF Serve, Answered, Respond, Unposted
  <2>6. QED
    BY <2>2, <2>3, <2>4, <2>5 DEF Settled, StaysSettled, Local, Frame, Elsewhere
<1>8. CASE Restart
  <2>1. /\ \A t \in Threads : pc'[t] = "idle"
        /\ UNCHANGED <<status, broadcasts, issued>>
    BY <1>8 DEF Restart, Crash, ledger, wallet, paid
  <2>2. \A d \in Clients : Unposted(d)' => Unposted(d) /\ call'[d].request = call[d].request
    BY <1>8 DEF Restart, Unposted
  <2>3. QED
    BY <2>1, <2>2 DEF Settled, StaysSettled
<1>9. CASE Environment
  BY <1>9 DEF Environment, UnlockExpires, NextDay, ledger, threads, wallet, paid, client,
              Settled, StaysSettled, Unposted
<1>10. QED
  BY <1>2, <1>3, <1>4, <1>5, <1>6, <1>7, <1>8, <1>9 DEF ClientNext

LEMMA KeptStays ==
  ASSUME ClientInv, [ClientNext]_clientVars, NEW s, NEW answer, Kept(s, answer)
  PROVE  Kept(s, answer)'
<1>1. Settled(s) => StaysSettled(s)
  BY WhatIsSettledStays
<1>2. QED
  BY <1>1 DEF Kept, Settled, StaysSettled


\* What is promised stays so if the new answers and reports are.
LEMMA PromisesStay ==
  ASSUME ClientInv, ReportInv, [ClientNext]_clientVars, txs \subseteq txs',
         \A c \in Clients : call'[c].step = "answer" =>
           call'[c] = call[c] \/ Kept(call[c].request.spend, call[c].response)',
         \A report \in reports' : report \in reports \/
           (/\ Kept(report.spend, report.status)
            /\ report.status = "sent" => [key |-> report.key, spend |-> report.spend] \in txs)
  PROVE  AnswersKept' /\ ReportsKept'
<1>1. ASSUME NEW s, NEW answer, Kept(s, answer) PROVE Kept(s, answer)'
  BY <1>1, KeptStays
<1>2. AnswersKept'
  <2> SUFFICES ASSUME NEW c \in Clients, call'[c].step = "answer", call'[c] = call[c]
               PROVE  Kept(call[c].request.spend, call[c].response)'
    BY DEF AnswersKept
  <2>1. PICK s, answer : s = call[c].request.spend /\ answer = call[c].response
    OBVIOUS
  <2>2. Kept(s, answer)
    BY <2>1 DEF ReportInv, AnswersKept
  <2>3. Kept(s, answer)'
    BY <1>1, <2>2
  <2>4. QED
    BY <2>1, <2>3 DEF Kept
<1>3. ReportsKept'
  <2> SUFFICES ASSUME NEW report \in reports'
               PROVE  /\ Kept(report.spend, report.status)'
                      /\ report.status = "sent" => [key |-> report.key, spend |-> report.spend] \in txs'
    BY DEF ReportsKept
  <2>1. /\ Kept(report.spend, report.status)
        /\ report.status = "sent" => [key |-> report.key, spend |-> report.spend] \in txs
    BY DEF ReportInv, ReportsKept
  <2>2. Kept(report.spend, report.status)'
    BY <1>1, <2>1
  <2>3. QED
    BY <2>1, <2>2
<1>4. QED
  BY <1>2, <1>3

\* Calls go on with their requests or end; none is new.
Onward == \A c \in Clients : call'[c].step # "idle" =>
  /\ call[c].step # "idle" /\ call'[c].request = call[c].request
  /\ call'[c].step \in {"reject", "look_up", "insert", "post"} => call[c].step \in {"reject", "look_up", "insert", "post"}
  /\ Unposted(c)' => Unposted(c)

\* As long as no id is new to the service, what is said of ids stays true.
LEMMA IdsStay ==
  ASSUME ClientInv, ReportInv, Onward, UNCHANGED issued,
         \A t \in Threads : pc'[t] # "idle" => pc[t] # "idle" /\ req'[t] = req[t],
         \A s \in Spends : broadcasts'[s] = broadcasts[s]
                            \/ \E t \in Threads : pc[t] # "idle" /\ req[t].spend = s,
         \A k \in Keys : cache'[k] # None =>
           cache'[k] = cache[k] \/ \E t \in Threads : pc[t] # "idle" /\ cache'[k].request = req[t]
  PROVE  OwnIds' /\ NotBegun' /\ NoReplays'
<1>1. OwnIds'
  BY DEF ReportInv, OwnIds, Onward
<1>2. NotBegun'
  <2> SUFFICES ASSUME NEW c \in Clients, call'[c].step \in {"reject", "look_up", "insert", "post"}
               PROVE  /\ broadcasts'[call'[c].request.spend] = 0
                      /\ \A t \in Threads : pc'[t] # "idle" => req'[t].spend # call'[c].request.spend
    BY DEF NotBegun
  <2>1. /\ call[c].step \in {"reject", "look_up", "insert", "post"} /\ call'[c].request = call[c].request
        /\ call[c].request.spend \in Spends
    BY CallTypes DEF Onward
  <2>2. QED
    BY <2>1 DEF ReportInv, NotBegun
<1>3. NoReplays'
  <2> SUFFICES ASSUME NEW k \in Keys, cache'[k] # None
               PROVE  /\ cache'[k].request.spend \in issued'
                      /\ \A c \in Clients : Unposted(c)' => call'[c].request.spend # cache'[k].request.spend
    BY DEF NoReplays
  <2>1. \A c \in Clients : Unposted(c)' => Unposted(c) /\ call'[c].request = call[c].request
    BY DEF Onward, Unposted
  <2>2. CASE cache'[k] = cache[k]
    BY <2>1, <2>2 DEF ReportInv, NoReplays
  <2>3. ASSUME NEW t \in Threads, pc[t] # "idle", cache'[k].request = req[t]
        PROVE  /\ cache'[k].request.spend \in issued'
               /\ \A c \in Clients : Unposted(c)' => call'[c].request.spend # cache'[k].request.spend
    BY <2>1, <2>3 DEF ClientInv, FreshIds
  <2>4. QED
    BY <2>2, <2>3
<1>4. QED
  BY <1>1, <1>2, <1>3

-----------------------------------------------------------------------------
(* The steps that lead to a report.                                          *)

LEMMA ClientReports ==
  ASSUME ClientInv, ReportInv, NEW c \in Clients,
         RejectCall(c) \/ LookUpKey(c) \/ Unreachable(c) \/ AnswerCaller(c) \/ CallRaises(c)
  PROVE  ReportInv'
<1> USE CallTypes
<1>1. /\ UNCHANGED <<vars, issued>>
      /\ UNCHANGED <<pc, req, status, broadcasts, txs, cache>>
      /\ [ClientNext]_clientVars
  BY DEF RejectCall, LookUpKey, Unreachable, AnswerCaller, CallRaises, vars, ledger, threads, wallet, paid, ClientNext
<1>2. Onward
  BY DEF RejectCall, LookUpKey, Unreachable, AnswerCaller, CallRaises, Report, Respond, Step, NoCall, Unposted, Onward
<1>3. OwnIds' /\ NotBegun' /\ NoReplays'
  BY <1>1, <1>2, IdsStay
<1>4. \A t \in Threads : Assured(t)'
  BY <1>1 DEF ReportInv, Assured
<1>5. \A d \in Clients : call'[d].step = "answer" =>
        call'[d] = call[d] \/ Kept(call[d].request.spend, call[d].response)'
  <2>1. CASE RejectCall(c) \/ AnswerCaller(c) \/ CallRaises(c)
    BY <2>1 DEF RejectCall, AnswerCaller, CallRaises, Report, NoCall
  <2>2. CASE Unreachable(c)
    BY <2>2 DEF Unreachable, Respond, LostAnswer, Kept
  <2>3. CASE LookUpKey(c)
    BY <2>3 DEF LookUpKey, Step
  <2>4. QED
    BY <2>1, <2>2, <2>3
<1>6. Serving'
  <2>1. CASE RejectCall(c) \/ LookUpKey(c) \/ AnswerCaller(c) \/ CallRaises(c)
    <3>1. call[c].step # "wait" /\ UNCHANGED serves /\ \A d \in Clients \ {c} : call'[d] = call[d]
      BY <2>1 DEF RejectCall, LookUpKey, AnswerCaller, CallRaises, Report, Step
    <3>2. \A t \in Threads : serves[t] # Nobody => serves[t] \in Clients \ {c}
      BY <3>1 DEF ClientInv, Calling
    <3>3. QED
      BY <1>1, <3>1, <3>2 DEF ReportInv, Serving
  <2>2. CASE Unreachable(c)
    <3>1. /\ \A t \in Threads : serves'[t] # Nobody => serves'[t] = serves[t] /\ serves[t] # c
          /\ \A d \in Clients \ {c} : call'[d] = call[d]
      BY <2>2 DEF Unreachable, Respond
    <3>2. QED
      BY <1>1, <3>1 DEF ReportInv, Serving
  <2>3. QED
    BY <2>1, <2>2
<1>7. \A report \in reports' : report \in reports \/
        (/\ Kept(report.spend, report.status)
         /\ report.status = "sent" => [key |-> report.key, spend |-> report.spend] \in txs)
  <2> DEFINE r == call[c].request
             told(answer) == [key |-> r.key, spend |-> r.spend, status |-> answer]
  <2>1. CASE RejectCall(c)
    <3>1. reports' = reports \cup {told("rejected")} /\ call[c].step = "reject"
      BY <2>1 DEF RejectCall, Report
    <3>2. Kept(r.spend, "rejected")
      BY <3>1 DEF ReportInv, NotBegun, OwnIds, Kept, Settled, Unposted
    <3>3. QED
      BY <3>1, <3>2
  <2>2. CASE AnswerCaller(c)
    <3>1. PICK answer :
            /\ reports' = reports \cup {told(answer)}
            /\ \/ answer = call[c].response
                  /\ (answer = "sent" => [key |-> r.key, spend |-> r.spend] \in txs)
               \/ answer = "error"
      BY <2>2 DEF AnswerCaller, Report
    <3>2. Kept(r.spend, call[c].response)
      BY <2>2 DEF AnswerCaller, ReportInv, AnswersKept
    <3>3. Kept(r.spend, answer) /\ (answer = "sent" => [key |-> r.key, spend |-> r.spend] \in txs)
      BY <3>1, <3>2 DEF Kept
    <3>4. QED
      BY <3>1, <3>3
  <2>3. CASE LookUpKey(c) \/ Unreachable(c) \/ CallRaises(c)
    BY <2>3 DEF LookUpKey, Unreachable, CallRaises
  <2>4. QED
    BY <2>1, <2>2, <2>3
<1>8. AnswersKept' /\ ReportsKept'
  BY <1>1, <1>5, <1>7, PromisesStay
<1>9. QED
  BY <1>3, <1>4, <1>6, <1>8 DEF ReportInv

LEMMA AttemptsReport ==
  ASSUME ClientInv, ReportInv, NEW c \in Clients, Spend(c)
  PROVE  ReportInv'
<1> USE CallTypes
<1>1. PICK r \in Requests :
        /\ r.spend \notin issued \cup {None}
        /\ call' = [call EXCEPT ![c] = [step |-> IF PreflightRefuses(r) THEN "reject" ELSE "look_up",
                                        request |-> r, response |-> "none"]]
        /\ issued' = issued \cup {r.spend}
  BY DEF Spend
<1>2. /\ call[c].step = "idle" /\ UNCHANGED <<serves, reports>>
      /\ UNCHANGED <<pc, req, status, broadcasts, txs, cache>>
  BY DEF Spend, NoCall, vars, ledger, threads, wallet, paid
<1>3. /\ call'[c].step \in {"reject", "look_up"} /\ call'[c].request = r
      /\ \A d \in Clients \ {c} : call'[d] = call[d]
  BY <1>1
<1>4. r.spend \in Spends /\ broadcasts[r.spend] = 0
  <2>1. r.spend \in Spends
    BY <1>1, RequestsAssumption
  <2>2. QED
    BY <1>1, <2>1 DEF ClientInv, FreshIds
<1>5. OwnIds'
  BY <1>1, <1>3 DEF ReportInv, OwnIds
<1>6. NotBegun'
  BY <1>1, <1>2, <1>3, <1>4 DEF ReportInv, NotBegun
<1>7. \A t \in Threads : Assured(t)'
  BY <1>2 DEF ReportInv, Assured
<1>8. Serving'
  <2>1. \A t \in Threads : serves[t] # Nobody => serves[t] \in Clients \ {c}
    BY <1>2 DEF ClientInv, Calling
  <2>2. QED
    BY <1>2, <1>3, <2>1 DEF ReportInv, Serving
<1>9. NoReplays'
  BY <1>1, <1>2, <1>3 DEF ReportInv, NoReplays, Unposted
<1>10. AnswersKept' /\ ReportsKept'
  <2>1. [ClientNext]_clientVars
    BY DEF ClientNext
  <2>2. QED
    BY <1>2, <1>3, <2>1, PromisesStay
<1>11. QED
  BY <1>5, <1>6, <1>7, <1>8, <1>9, <1>10 DEF ReportInv

LEMMA RowsReport ==
  ASSUME ClientInv, ReportInv, NEW c \in Clients, InsertRow(c)
  PROVE  ReportInv'
<1> USE CallTypes
<1> DEFINE r == call[c].request
<1>1. /\ call[c].step = "insert" /\ call' = [call EXCEPT ![c].step = "post"]
      /\ UNCHANGED <<pc, req, broadcasts, txs, cache, serves, issued, reports>>
      /\ status' = [status EXCEPT ![r.spend] = "proposed"]
      /\ [ClientNext]_clientVars
  BY DEF InsertRow, InsertRequest, Step, threads, wallet, paid, ClientNext
<1>2. Onward
  BY <1>1 DEF Onward, Unposted
<1>3. OwnIds' /\ NotBegun' /\ NoReplays'
  BY <1>1, <1>2, IdsStay
<1>4. \A t \in Threads : Assured(t)'
  <2>1. \A t \in Threads : pc[t] # "idle" => req[t].spend # r.spend /\ req[t].spend \in Spends
    BY <1>1 DEF ReportInv, NotBegun
  <2>2. \A t \in Threads : pc[t] # "idle" => status'[req[t].spend] = status[req[t].spend]
    BY <1>1, <2>1
  <2>3. QED
    BY <1>1, <2>2 DEF ReportInv, Assured
<1>5. Serving'
  BY <1>1 DEF ReportInv, Serving, ClientInv, Calling
<1>6. AnswersKept' /\ ReportsKept'
  BY <1>1, PromisesStay
<1>7. QED
  BY <1>3, <1>4, <1>5, <1>6 DEF ReportInv

\* No answer is given from the cache: the ids of repeated attempts differ.
LEMMA PostsReport ==
  ASSUME ClientInv, ReportInv, NEW c \in Clients, NEW t \in Threads, Post(c, t)
  PROVE  ReportInv'
<1> USE CallTypes
<1> DEFINE r == call[c].request
<1>1. call[c].step = "post" /\ r \in Requests /\ r.spend \in Spends /\ Unposted(c)
  BY DEF Post, Unposted
<1>2. ~Replay(t, r)
  BY <1>1, RequestsAssumption DEF ReportInv, NoReplays, Replay
<1>3. /\ \E step \in {"received", "log_reject"} : pc' = [pc EXCEPT ![t] = step]
      /\ req' = [req EXCEPT ![t] = r]
      /\ pc[t] = "idle" /\ call' = [call EXCEPT ![c].step = "wait"] /\ serves' = [serves EXCEPT ![t] = c]
      /\ UNCHANGED <<status, broadcasts, txs, cache, issued, reports>>
      /\ [ClientNext]_clientVars
  BY <1>2 DEF Post, Step, Receive, Conflict, Begin, MayStart, At, Goto, ledger, wallet, paid, ClientNext
<1>4. /\ pc'[t] \in {"received", "log_reject"} /\ req'[t] = r
      /\ \A u \in Threads \ {t} : pc'[u] = pc[u] /\ req'[u] = req[u] /\ serves'[u] = serves[u]
      /\ call'[c].step = "wait" /\ call'[c].request = r /\ \A d \in Clients \ {c} : call'[d] = call[d]
      /\ serves'[t] = c
  BY <1>3
<1>5. OwnIds'
  BY <1>1, <1>4 DEF ReportInv, OwnIds
<1>6. NotBegun'
  <2>1. \A d \in Clients : call'[d].step \in {"reject", "look_up", "insert", "post"} =>
          d # c /\ call'[d] = call[d] /\ call[d].request.spend # r.spend
    BY <1>1, <1>4 DEF ReportInv, OwnIds
  <2>2. QED
    BY <1>3, <1>4, <2>1 DEF ReportInv, NotBegun
<1>7. \A u \in Threads : Assured(u)'
  <2>1. Assured(t)'
    BY <1>1, <1>3, <1>4 DEF ReportInv, NotBegun, Assured
  <2>2. \A u \in Threads \ {t} : Assured(u)'
    BY <1>3, <1>4 DEF ReportInv, Assured
  <2>3. QED
    BY <2>1, <2>2
<1>8. Serving'
  <2>1. \A u \in Threads : serves[u] # Nobody => serves[u] \in Clients \ {c}
    BY <1>1 DEF ClientInv, Calling
  <2>2. QED
    BY <1>4, <2>1 DEF ReportInv, Serving
<1>9. NoReplays'
  BY <1>3, <1>4 DEF ReportInv, NoReplays, Unposted
<1>10. AnswersKept' /\ ReportsKept'
  BY <1>3, <1>4, PromisesStay
<1>11. QED
  BY <1>5, <1>6, <1>7, <1>8, <1>9, <1>10 DEF ReportInv

\* What the steps of a thread do to the ledger and to the stored answers.
LEMMA ServiceSteps ==
  ASSUME ClientInv, NEW t \in Threads, ThreadStep(t) \/ LedgerFails(t) \/ AnswerEscapes(t)
  PROVE  /\ txs \subseteq txs'
         /\ \A k \in Keys : cache'[k] = cache[k] \/ cache'[k].request = req[t]
         /\ pc'[t] \in BeforePaying => pc[t] \in BeforePaying /\ broadcasts' = broadcasts
         /\ pc'[t] = "log_sent" =>
              status'[req[t].spend] = "sent" /\ broadcasts'[req[t].spend] = 1
<1> DEFINE Goal ==
         /\ txs \subseteq txs'
         /\ \A k \in Keys : cache'[k] = cache[k] \/ cache'[k].request = req[t]
         /\ pc'[t] \in BeforePaying => pc[t] \in BeforePaying /\ broadcasts' = broadcasts
         /\ pc'[t] = "log_sent" =>
              status'[req[t].spend] = "sent" /\ broadcasts'[req[t].spend] = 1
<1> USE CallTypes DEF BeforePaying, At, Goto
<1>1. CASE LogReceived(t) \/ LogValidating(t) \/ LogSendStarted(t)
  BY <1>1 DEF LogReceived, LogValidating, LogSendStarted, LogStep, Audit, wallet, paid
<1>2. CASE ReadRequest(t) \/ Validate(t) \/ Consult(t)
  BY <1>2 DEF ReadRequest, Validate, Consult, Refuse, RejectStep, ledger, wallet, paid
<1>3. CASE CheckDaily(t) \/ CheckWeekly(t)
  BY <1>3 DEF CheckDaily, CheckWeekly, Refuse, ledger, wallet, paid
<1>4. CASE WriteRejection(t) \/ MarkApproved(t) \/ MarkSending(t)
  BY <1>4 DEF WriteRejection, MarkApproved, MarkSending, MarkStatus, WriteStatus, wallet, paid
<1>5. CASE LogRejection(t) \/ LogSent(t)
  <2>1. txs' = txs /\ pc'[t] = "idle"
    BY <1>5 DEF LogRejection, LogSent, Audit, Return
  <2>2. \A k \in Keys : cache'[k] = cache[k] \/ cache'[k].request = req[t]
    BY <1>5 DEF LogRejection, LogSent, Store
  <2>3. QED
    BY <2>1, <2>2
<1>6. CASE Unlock(t)
  BY <1>6 DEF Unlock, Refuse, ledger, paid
<1>7. CASE SendToAddress(t)
  <2>1. UNCHANGED <<ledger, cache>> /\ pc'[t] \in {"locking", "failing"}
    BY <1>7 DEF SendToAddress, SendFails, SendEscapes, Refuse
  <2>2. QED
    BY <2>1 DEF ledger
<1>8. CASE StoreFailure(t)
  <2>1. txs' = txs /\ pc'[t] = "log_fail"
    BY <1>8 DEF StoreFailure, WriteStatus
  <2>2. \A k \in Keys : cache'[k] = cache[k] \/ cache'[k].request = req[t]
    BY <1>8 DEF StoreFailure, Store
  <2>3. QED
    BY <2>1, <2>2
<1>9. CASE LogFailure(t) \/ Lock(t) \/ LogLockFailed(t)
  <2>1. /\ pc'[t] \in {"idle", "locking", "log_lock", "record"}
        /\ txs' = txs /\ cache' = cache
    BY <1>9 DEF LogFailure, Lock, LogLockFailed, AfterCleanup, Audit, Return, ledger
  <2>2. QED
    BY <2>1
<1>10. CASE LookUpTransaction(t) \/ RecordTransaction(t)
  <2>1. txs \subseteq txs' /\ pc'[t] \in {"insert", "complete"} /\ cache' = cache
    BY <1>10 DEF LookUpTransaction, RecordTransaction, InsertTransaction, ledger
  <2>2. QED
    BY <2>1
<1>11. CASE MarkSent(t)
  <2>1. /\ txs' = txs /\ cache' = cache /\ broadcasts' = broadcasts /\ pc'[t] = "log_sent"
        /\ status' = [status EXCEPT ![req[t].spend] = "sent"]
    BY <1>11 DEF MarkSent, MarkStatus, WriteStatus, wallet, paid
  <2>2. broadcasts[req[t].spend] = 1 /\ req[t].spend \in Spends
    BY <1>11 DEF MarkSent, MarkStatus, ClientInv, PayInv, Stage
  <2>3. QED
    BY <2>1, <2>2
<1>12. CASE LedgerFails(t)
  <2>1. pc'[t] \in {"idle", "locking"} /\ UNCHANGED <<ledger, cache>>
    BY <1>12 DEF LedgerFails, Return
  <2>2. QED
    BY <2>1 DEF ledger
<1>13. CASE AnswerEscapes(t)
  <2>1. pc'[t] = "idle" /\ UNCHANGED <<ledger, cache>>
    BY <1>13 DEF AnswerEscapes, Return
  <2>2. QED
    BY <2>1 DEF ledger
<1>14. QED
  BY <1>1, <1>2, <1>3, <1>4, <1>5, <1>6, <1>7, <1>8, <1>9, <1>10, <1>11, <1>12, <1>13 DEF ThreadStep

LEMMA ServiceReports ==
  ASSUME ClientInv, ReportInv, NEW t \in Threads, Serve(t)
  PROVE  ReportInv'
<1> USE CallTypes
<1>1. /\ ThreadStep(t) \/ LedgerFails(t) \/ AnswerEscapes(t)
      /\ UNCHANGED <<issued, reports>>
      /\ \E reply \in {"sent", "rejected", "error"} :
           /\ Answered(t, reply)
           /\ reply = "sent" => pc[t] = "log_sent"
           /\ reply = "rejected" => pc[t] = "log_reject"
  BY DEF Serve, Reply, At
<1>2. Local(t) /\ [ClientNext]_clientVars
  <2>1. Local(t)
    BY <1>1, ThreadSteps DEF ClientInv
  <2>2. QED
    BY <2>1 DEF ClientNext
<1>3. /\ txs \subseteq txs'
      /\ \A k \in Keys : cache'[k] = cache[k] \/ cache'[k].request = req[t]
      /\ pc'[t] \in BeforePaying => pc[t] \in BeforePaying /\ broadcasts' = broadcasts
      /\ pc'[t] = "log_sent" => status'[req[t].spend] = "sent" /\ broadcasts'[req[t].spend] = 1
  BY <1>1, ServiceSteps
<1>4. PICK reply \in {"sent", "rejected", "error"} :
        /\ Answered(t, reply)
        /\ reply = "sent" => pc[t] = "log_sent"
        /\ reply = "rejected" => pc[t] = "log_reject"
  BY <1>1
<1>5. \/ pc'[t] # "idle" /\ UNCHANGED <<call, serves>>
      \/ /\ pc'[t] = "idle" /\ serves' = [serves EXCEPT ![t] = Nobody]
         /\ \/ serves[t] = Nobody /\ UNCHANGED call
            \/ /\ serves[t] \in Clients /\ call[serves[t]].step = "wait"
               /\ call' = [call EXCEPT ![serves[t]] =
                            [[call[serves[t]] EXCEPT !.step = "answer"] EXCEPT !.response = reply]]
  BY <1>4 DEF Answered, Respond, ClientInv, Calling
<1>6. \A c \in Clients : call'[c] = call[c] \/
        /\ c = serves[t] /\ pc'[t] = "idle" /\ call[c].step = "wait"
        /\ call'[c].step = "answer" /\ call'[c].request = call[c].request /\ call'[c].response = reply
  <2>1. CASE UNCHANGED call
    BY <2>1
  <2>2. CASE /\ pc'[t] = "idle" /\ serves[t] \in Clients /\ call[serves[t]].step = "wait"
             /\ call' = [call EXCEPT ![serves[t]] =
                           [[call[serves[t]] EXCEPT !.step = "answer"] EXCEPT !.response = reply]]
    <3>1. call[serves[t]] \in [step : ClientSteps, request : Requests \cup {None}, response : Responses]
      BY <2>2
    <3>2. \A c \in Clients : c # serves[t] => call'[c] = call[c]
      BY <2>2
    <3>3. call'[serves[t]] = [[call[serves[t]] EXCEPT !.step = "answer"] EXCEPT !.response = reply]
      BY <2>2
    <3>4. QED
      BY <2>2, <3>1, <3>2, <3>3
  <2>3. QED
    BY <1>5, <2>1, <2>2
<1> Onward
  BY <1>6 DEF Onward, Unposted
<1>7. OwnIds' /\ NotBegun' /\ NoReplays'
  BY <1>1, <1>2, <1>3, IdsStay DEF Local, Frame, Elsewhere
<1>8. \A u \in Threads : Assured(u)'
  <2>1. Assured(t)'
    <3>1. pc'[t] # "idle" => req'[t] = req[t]
      BY <1>2 DEF Local
    <3>2. QED
      BY <1>3, <3>1 DEF ReportInv, Assured, BeforePaying
  <2>2. ASSUME NEW u \in Threads \ {t} PROVE Assured(u)'
    <3>1. pc'[u] = pc[u] /\ req'[u] = req[u]
      BY <1>2 DEF Local, Frame
    <3>2. pc[u] # "idle" => req[u].spend \in Spends /\ req[u].spend # req[t].spend
      BY <1>2 DEF ClientInv, PayInv, Alone, Local
    <3>3. pc[u] # "idle" => status'[req[u].spend] = status[req[u].spend]
                            /\ broadcasts'[req[u].spend] = broadcasts[req[u].spend]
      BY <1>2, <3>2 DEF Local, Elsewhere
    <3>4. QED
      BY <3>1, <3>3 DEF ReportInv, Assured, BeforePaying
  <2>3. QED
    BY <2>1, <2>2
<1>9. Serving'
  <2> SUFFICES ASSUME NEW u \in Threads, serves'[u] # Nobody
               PROVE  pc'[u] # "idle" /\ req'[u] = call'[serves'[u]].request
    BY DEF Serving
  <2>1. serves'[u] = serves[u] /\ (u = t => pc'[t] # "idle")
    BY <1>5
  <2>2. pc[u] # "idle" /\ req[u] = call[serves[u]].request
    BY <2>1 DEF ReportInv, Serving
  <2>3. pc'[u] # "idle" /\ req'[u] = req[u]
    BY <1>2, <2>1, <2>2 DEF Local, Frame
  <2>4. call'[serves[u]].request = call[serves[u]].request
    BY <1>6, <2>1 DEF ClientInv, Calling
  <2>5. QED
    BY <2>1, <2>2, <2>3, <2>4
<1>10. \A c \in Clients : call'[c].step = "answer" =>
         call'[c] = call[c] \/ Kept(call[c].request.spend, call[c].response)'
  <2> SUFFICES ASSUME NEW c \in Clients, c = serves[t], pc'[t] = "idle",
                      call'[c].request = call[c].request, call'[c].response = reply
               PROVE  Kept(call[c].request.spend, call[c].response)'
    BY <1>6
  <2> PICK s : s = req[t].spend
    OBVIOUS
  <2>1. pc[t] # "idle" /\ call'[c].request.spend = s /\ call'[c].response = reply /\ s \in Spends
    BY ClientsAssumption DEF ReportInv, Serving
  <2>2. Settled(s)'
    <3>1. s \in issued'
      BY <1>1, <2>1
    <3>2. \A u \in Threads : pc'[u] # "idle" => req'[u].spend # s
      BY <1>2, <2>1 DEF Local, Frame, ClientInv, PayInv, Alone
    <3>3. \A d \in Clients : Unposted(d)' => call'[d].request.spend # s
      BY <2>1 DEF Onward, Unposted, ClientInv, FreshIds
    <3>4. QED
      BY <3>1, <3>2, <3>3 DEF Settled
  <2>3. reply \in {"sent", "rejected"} => UNCHANGED <<status, broadcasts>>
    <3>1. pc[t] \in {"log_sent", "log_reject"} => UNCHANGED <<status, broadcasts>>
      BY <1>1 DEF ThreadStep, LogReceived, LogValidating, LogSendStarted, LogStep, ReadRequest, Validate,
                  Consult, CheckDaily, CheckWeekly, WriteRejection, MarkApproved, MarkSending, MarkStatus,
                  LogRejection, LogSent, Audit, Unlock, SendToAddress, StoreFailure, LogFailure, Lock,
                  LogLockFailed, LookUpTransaction, RecordTransaction, MarkSent, LedgerFails, AnswerEscapes, At,
                  ledger, wallet, paid
    <3>2. QED
      BY <1>4, <3>1
  <2>4. /\ reply = "sent" => status'[s] = "sent" /\ broadcasts'[s] = 1
        /\ reply = "rejected" => broadcasts'[s] = 0
    BY <1>4, <2>3 DEF ReportInv, Assured, BeforePaying
  <2>5. QED
    BY <2>1, <2>2, <2>4 DEF Kept, Settled
<1>11. AnswersKept' /\ ReportsKept'
  BY <1>1, <1>2, <1>3, <1>10, PromisesStay
<1>12. QED
  BY <1>7, <1>8, <1>9, <1>11 DEF ReportInv

LEMMA RestartReports ==
  ASSUME ClientInv, ReportInv, Restart
  PROVE  ReportInv'
<1> USE CallTypes
<1>1. /\ \A t \in Threads : pc'[t] = "idle" /\ serves'[t] = Nobody
      /\ \A k \in Keys : cache'[k] = None
      /\ UNCHANGED <<status, broadcasts, txs, issued, reports>>
  BY DEF Restart, Crash, ledger, wallet, paid
<1>2. /\ [ClientNext]_clientVars
      /\ \A c \in Clients : call'[c].step = "answer" =>
           call'[c] = call[c] \/ Kept(call[c].request.spend, call[c].response)'
  <2>1. [ClientNext]_clientVars
    BY DEF ClientNext
  <2>2. QED
    BY <2>1 DEF Restart, LostAnswer, Kept
<1>3. Onward
  BY DEF Restart, Onward, Unposted
<1>4. OwnIds' /\ NotBegun' /\ NoReplays'
  BY <1>1, <1>3, IdsStay
<1>5. (\A t \in Threads : Assured(t)') /\ Serving'
  BY <1>1 DEF Assured, BeforePaying, Serving
<1>6. AnswersKept' /\ ReportsKept'
  BY <1>1, <1>2, PromisesStay
<1>7. QED
  BY <1>4, <1>5, <1>6 DEF ReportInv

LEMMA NextReportInv ==
  ASSUME ClientInv, ReportInv, [ClientNext]_clientVars
  PROVE  ReportInv'
<1>1. ASSUME UNCHANGED <<pc, req, status, broadcasts, txs, call, serves, issued, reports>>,
             UNCHANGED cache
      PROVE  ReportInv'
  BY <1>1 DEF ReportInv, OwnIds, NotBegun, Assured, Serving, NoReplays, AnswersKept, ReportsKept,
              Kept, Settled, Unposted
<1>2. CASE UNCHANGED clientVars
  BY <1>1, <1>2 DEF clientVars, client, vars, ledger, threads, wallet, paid
<1>3. CASE Environment
  BY <1>1, <1>3 DEF Environment, UnlockExpires, NextDay, client, ledger, threads, wallet, paid
<1>4. CASE ClientNext /\ ~Environment
  BY <1>4, ClientReports, AttemptsReport, RowsReport, PostsReport, ServiceReports, RestartReports
     DEF ClientNext
<1>5. QED
  BY <1>2, <1>3, <1>4

\* What a caller has been told of a spend request is true for good: "sent" has its payment,
\* its status and its row, and what was refused is never paid for, whatever other attempts,
\* timeouts and restarts come before or after (_reject, the answers of spend, capped_send).
THEOREM ReportsStayTrue == ClientSpec => []ReportsAreTrue
<1>1. ClientInit => ReportInv
  <2> SUFFICES ASSUME ClientInit PROVE ReportInv
    OBVIOUS
  <2>1. OwnIds /\ NotBegun /\ Serving /\ AnswersKept /\ ReportsKept
    BY DEF ClientInit, NoCall, OwnIds, NotBegun, Serving, AnswersKept, ReportsKept
  <2>2. (\A t \in Threads : Assured(t)) /\ NoReplays
    BY DEF ClientInit, Init, Assured, BeforePaying, NoReplays
  <2>3. QED
    BY <2>1, <2>2 DEF ReportInv
<1>2. ClientInv /\ ReportInv /\ [ClientNext]_clientVars => ReportInv'
  BY NextReportInv
<1>3. ReportInv => ReportsAreTrue
  BY DEF ReportInv, ReportsKept, Kept, ReportsAreTrue
<1>4. QED
  BY <1>1, <1>2, <1>3, ClientInvariant, PTL DEF ClientSpec
=============================================================================
