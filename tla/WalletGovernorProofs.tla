------------------------ MODULE WalletGovernorProofs ------------------------
(***************************************************************************)
(* The wallet governor for every number of threads, requests, keys, limits *)
(* and days, and every set of faults: its types, the order of its audit    *)
(* records, the limits of one worker, and, from Alone on, that it          *)
(* implements the spend lifecycle and pays at most once.                   *)
(***************************************************************************)
EXTENDS WalletGovernor, TLAPS

\* Steps at which the request is known to name a spend request.
SpendSteps == Steps \ {"idle", "received", "validating", "read_request", "read_txs", "log_reject"}

\* A thread at work has a request; past the bundle checks it names a spend
\* request; a bundle that shows a status belongs to a spend request.
Working == \A t \in Threads :
  /\ pc[t] # "idle" => req[t] \in Requests
  /\ pc[t] \in SpendSteps => req[t].spend \in Spends
  /\ pc[t] = "read_txs" /\ seen[t] # "absent" => req[t].spend \in Spends

TypeInv == TypeOK /\ Working

-----------------------------------------------------------------------------
(* What the helpers do to the types.                                         *)

LEMMA AuditTyped ==
  ASSUME LedgerTypeOK, NEW name, NEW k \in Keys, Audit(name, k)
  PROVE  LedgerTypeOK'
BY RequestsAssumption DEF LedgerTypeOK, Audit, KeptAudits, EventNames, CodeReasons

LEMMA WriteStatusTyped ==
  ASSUME LedgerTypeOK, NEW s \in Spends, NEW to \in Statuses \cap EventNames,
         NEW k \in Keys, NEW reason \in Reasons, WriteStatus(s, to, k, reason)
  PROVE  LedgerTypeOK'
BY DEF LedgerTypeOK, WriteStatus

LEMMA InsertTyped ==
  ASSUME LedgerTypeOK, day \in Days, NEW r \in Requests, r.spend \in Spends, InsertTransaction(r)
  PROVE  LedgerTypeOK'
<1> USE RequestsAssumption DEF InsertTransaction, LedgerTypeOK
<1>1. eventKeys' \subseteq EventNames \X Keys \X Reasons
  BY DEF EventNames, CodeReasons
<1>2. txs' \subseteq [key: Keys, spend: Spends]
  OBVIOUS
<1>3. spentOn' \in [Days -> Nat]
  OBVIOUS
<1>4. spentWithin' \in [Days -> Nat]
  OBVIOUS
<1>5. QED
  BY <1>1, <1>2, <1>3, <1>4

LEMMA ReturnTyped ==
  ASSUME ServiceTypeOK, NEW t \in Threads, Return(t), cache' \in [Keys -> Cached \cup {None}]
  PROVE  ServiceTypeOK'
BY LimitsAssumption, RequestsAssumption
   DEF ServiceTypeOK, Return, Goto, Steps, Days, Statuses, CodeReasons

LEMMA AfterCleanupTyped ==
  ASSUME ServiceTypeOK, NEW t \in Threads, AfterCleanup(t), UNCHANGED cache
  PROVE  ServiceTypeOK'
<1>1. CASE Return(t)
  BY <1>1, ReturnTyped DEF ServiceTypeOK
<1>2. CASE Goto(t, "record") /\ UNCHANGED <<req, locals>>
  BY <1>2 DEF Goto, locals, ServiceTypeOK, Steps, LedgerSteps
<1>3. QED
  BY <1>1, <1>2 DEF AfterCleanup

-----------------------------------------------------------------------------
(* The type invariant is inductive.                                          *)

LEMMA InitTypeInv == Init => TypeInv
<1> SUFFICES ASSUME Init PROVE TypeInv
  OBVIOUS
<1> USE RequestsAssumption, LimitsAssumption DEF Init, Days, Statuses, CodeReasons
<1>1. LedgerTypeOK
  BY DEF LedgerTypeOK
<1>2. ServiceTypeOK
  BY DEF ServiceTypeOK, Steps
<1>3. WalletTypeOK
  <2>1. broadcasts \in [Spends -> 0 .. MaxBroadcasts]
    OBVIOUS
  <2>2. paidOn \in [Days -> Nat] /\ payers \in [Spends -> SUBSET Keys]
    OBVIOUS
  <2>3. unlocked \in BOOLEAN
    OBVIOUS
  <2>4. day \in Days
    OBVIOUS
  <2>5. QED
    BY <2>1, <2>2, <2>3, <2>4 DEF WalletTypeOK
<1>4. Working
  BY DEF Working, SpendSteps
<1>5. QED
  BY <1>1, <1>2, <1>3, <1>4 DEF TypeInv, TypeOK

LEMMA NextTypeInv == TypeInv /\ [Next]_vars => TypeInv'
<1> SUFFICES ASSUME TypeInv, [Next]_vars PROVE TypeInv'
  OBVIOUS
<1> USE RequestsAssumption, LimitsAssumption
    DEF TypeInv, TypeOK, CodeReasons, At, Goto, ledger, locals, threads, wallet, paid
<1>1. ASSUME NEW t \in Threads, NEW r \in Requests, Receive(t, r) PROVE TypeInv'
  <2> USE <1>1 DEF Receive, Begin
  <2>1. LedgerTypeOK'
    BY DEF LedgerTypeOK
  <2>2. ServiceTypeOK'
    BY DEF ServiceTypeOK, Steps, LedgerSteps, WalletSteps
  <2>3. WalletTypeOK'
    BY DEF WalletTypeOK
  <2>4. Working'
    BY DEF Working, ServiceTypeOK, SpendSteps, Steps, LedgerSteps, WalletSteps
  <2>5. QED
    BY <2>1, <2>2, <2>3, <2>4
<1>2. ASSUME NEW t \in Threads, NEW r \in Requests, Conflict(t, r) PROVE TypeInv'
  <2> USE <1>2 DEF Conflict, Begin
  <2>1. LedgerTypeOK'
    BY DEF LedgerTypeOK
  <2>2. ServiceTypeOK'
    BY DEF ServiceTypeOK, Steps, LedgerSteps, WalletSteps
  <2>3. WalletTypeOK'
    BY DEF WalletTypeOK
  <2>4. Working'
    BY DEF Working, ServiceTypeOK, SpendSteps, Steps, LedgerSteps, WalletSteps
  <2>5. QED
    BY <2>1, <2>2, <2>3, <2>4
<1>3. ASSUME NEW t \in Threads, LogReceived(t) PROVE TypeInv'
  <2> USE <1>3 DEF LogReceived, LogStep
  <2>1. LedgerTypeOK'
    BY AuditTyped DEF Working, ServiceTypeOK
  <2>2. ServiceTypeOK'
    BY DEF ServiceTypeOK, Steps, LedgerSteps, WalletSteps
  <2>3. WalletTypeOK'
    BY DEF WalletTypeOK
  <2>4. Working'
    BY DEF Working, ServiceTypeOK, SpendSteps, Steps, LedgerSteps, WalletSteps
  <2>5. QED
    BY <2>1, <2>2, <2>3, <2>4
<1>4. ASSUME NEW t \in Threads, LogValidating(t) PROVE TypeInv'
  <2> USE <1>4 DEF LogValidating, LogStep
  <2>1. LedgerTypeOK'
    BY AuditTyped DEF Working, ServiceTypeOK
  <2>2. ServiceTypeOK'
    BY DEF ServiceTypeOK, Steps, LedgerSteps, WalletSteps
  <2>3. WalletTypeOK'
    BY DEF WalletTypeOK
  <2>4. Working'
    BY DEF Working, ServiceTypeOK, SpendSteps, Steps, LedgerSteps, WalletSteps
  <2>5. QED
    BY <2>1, <2>2, <2>3, <2>4
<1>5. ASSUME NEW t \in Threads, LogSendStarted(t) PROVE TypeInv'
  <2> USE <1>5 DEF LogSendStarted, LogStep
  <2>1. LedgerTypeOK'
    BY AuditTyped DEF Working, ServiceTypeOK
  <2>2. ServiceTypeOK'
    BY DEF ServiceTypeOK, Steps, LedgerSteps, WalletSteps
  <2>3. WalletTypeOK'
    BY DEF WalletTypeOK
  <2>4. Working'
    BY DEF Working, ServiceTypeOK, SpendSteps, Steps, LedgerSteps, WalletSteps
  <2>5. QED
    BY <2>1, <2>2, <2>3, <2>4
<1>6. ASSUME NEW t \in Threads, ReadRequest(t) PROVE TypeInv'
  <2> USE <1>6 DEF ReadRequest
  <2>1. LedgerTypeOK'
    BY DEF LedgerTypeOK
  <2>2. ServiceTypeOK'
    BY DEF ServiceTypeOK, LedgerTypeOK, Working, Statuses, Steps, LedgerSteps, WalletSteps
  <2>3. WalletTypeOK'
    BY DEF WalletTypeOK
  <2>4. Working'
    BY DEF Working, ServiceTypeOK, SpendSteps, Steps, LedgerSteps, WalletSteps
  <2>5. QED
    BY <2>1, <2>2, <2>3, <2>4
<1>7. ASSUME NEW t \in Threads, Validate(t) PROVE TypeInv'
  <2> USE <1>7 DEF Validate, Refuse
  <2>1. LedgerTypeOK'
    BY DEF LedgerTypeOK
  <2>2. ServiceTypeOK'
    <3> DEFINE refusal == Refusal(req[t], seen[t], HasTransaction(req[t].spend))
    <3>1. CASE refusal = "ok"
      BY <3>1 DEF ServiceTypeOK, Steps, LedgerSteps, WalletSteps
    <3>2. CASE refusal # "ok"
      <4>1. Refuse(t, refusal, RejectStep(seen[t])) /\ req[t] \in Requests
        BY <3>2 DEF Working
      <4>2. refusal \in Reasons /\ RejectStep(seen[t]) \in Steps
        BY <4>1 DEF Refusal, RejectStep, Steps, LedgerSteps, WalletSteps
      <4> HIDE DEF refusal
      <4>3. QED
        BY <4>1, <4>2 DEF ServiceTypeOK
    <3>3. QED
      BY <3>1, <3>2
  <2>3. WalletTypeOK'
    BY DEF WalletTypeOK
  <2>4. Working'
    BY DEF Working, ServiceTypeOK, SpendSteps, Steps, LedgerSteps, WalletSteps,
           Refusal, RejectStep, TerminalStatuses, EligibleStatuses
  <2>5. QED
    BY <2>1, <2>2, <2>3, <2>4
<1>8. ASSUME NEW t \in Threads, Consult(t) PROVE TypeInv'
  <2> USE <1>8 DEF Consult, Refuse
  <2>1. LedgerTypeOK'
    BY DEF LedgerTypeOK
  <2>2. ServiceTypeOK'
    BY DEF ServiceTypeOK, Steps, LedgerSteps, WalletSteps
  <2>3. WalletTypeOK'
    BY DEF WalletTypeOK
  <2>4. Working'
    BY DEF Working, ServiceTypeOK, SpendSteps, Steps, LedgerSteps, WalletSteps
  <2>5. QED
    BY <2>1, <2>2, <2>3, <2>4
<1>9. ASSUME NEW t \in Threads, CheckDaily(t) PROVE TypeInv'
  <2> USE <1>9 DEF CheckDaily, Refuse
  <2>1. LedgerTypeOK'
    BY DEF LedgerTypeOK
  <2>2. ServiceTypeOK'
    BY DEF ServiceTypeOK, WalletTypeOK, Steps, LedgerSteps, WalletSteps
  <2>3. WalletTypeOK'
    BY DEF WalletTypeOK
  <2>4. Working'
    BY DEF Working, ServiceTypeOK, SpendSteps, Steps, LedgerSteps, WalletSteps
  <2>5. QED
    BY <2>1, <2>2, <2>3, <2>4
<1>10. ASSUME NEW t \in Threads, CheckWeekly(t) PROVE TypeInv'
  <2> USE <1>10 DEF CheckWeekly, Refuse
  <2>1. LedgerTypeOK'
    BY DEF LedgerTypeOK
  <2>2. ServiceTypeOK'
    BY DEF ServiceTypeOK, Steps, LedgerSteps, WalletSteps
  <2>3. WalletTypeOK'
    BY DEF WalletTypeOK
  <2>4. Working'
    BY DEF Working, ServiceTypeOK, SpendSteps, Steps, LedgerSteps, WalletSteps
  <2>5. QED
    BY <2>1, <2>2, <2>3, <2>4
<1>11. ASSUME NEW t \in Threads, WriteRejection(t) PROVE TypeInv'
  <2> USE <1>11 DEF WriteRejection
  <2>1. LedgerTypeOK'
    BY WriteStatusTyped
    DEF Working, ServiceTypeOK, SpendSteps, Steps, LedgerSteps, WalletSteps, Statuses, EventNames
  <2>2. ServiceTypeOK'
    BY DEF ServiceTypeOK, Steps, LedgerSteps, WalletSteps
  <2>3. WalletTypeOK'
    BY DEF WalletTypeOK
  <2>4. Working'
    BY DEF Working, ServiceTypeOK, SpendSteps, Steps, LedgerSteps, WalletSteps
  <2>5. QED
    BY <2>1, <2>2, <2>3, <2>4
<1>12. ASSUME NEW t \in Threads, LogRejection(t) PROVE TypeInv'
  <2> USE <1>12 DEF LogRejection
  <2>1. LedgerTypeOK'
    BY AuditTyped DEF Working, ServiceTypeOK
  <2>2. ServiceTypeOK'
    <3>1. req[t] \in Requests
      BY DEF Working
    <3>2. cache' \in [Keys -> Cached \cup {None}]
      BY <3>1 DEF ServiceTypeOK, Store, Cached
    <3>3. QED
      BY <3>2, ReturnTyped
  <2>3. WalletTypeOK'
    BY DEF WalletTypeOK
  <2>4. Working'
    BY DEF Return, Working, ServiceTypeOK, SpendSteps, Steps, LedgerSteps, WalletSteps
  <2>5. QED
    BY <2>1, <2>2, <2>3, <2>4
<1>13. ASSUME NEW t \in Threads, MarkApproved(t) PROVE TypeInv'
  <2> USE <1>13 DEF MarkApproved, MarkStatus
  <2>1. LedgerTypeOK'
    BY WriteStatusTyped
    DEF Working, ServiceTypeOK, SpendSteps, Steps, LedgerSteps, WalletSteps, Statuses, EventNames
  <2>2. ServiceTypeOK'
    BY DEF ServiceTypeOK, Steps, LedgerSteps, WalletSteps
  <2>3. WalletTypeOK'
    BY DEF WalletTypeOK
  <2>4. Working'
    BY DEF Working, ServiceTypeOK, SpendSteps, Steps, LedgerSteps, WalletSteps
  <2>5. QED
    BY <2>1, <2>2, <2>3, <2>4
<1>14. ASSUME NEW t \in Threads, MarkSending(t) PROVE TypeInv'
  <2> USE <1>14 DEF MarkSending, MarkStatus
  <2>1. LedgerTypeOK'
    BY WriteStatusTyped
    DEF Working, ServiceTypeOK, SpendSteps, Steps, LedgerSteps, WalletSteps, Statuses, EventNames
  <2>2. ServiceTypeOK'
    BY DEF ServiceTypeOK, Steps, LedgerSteps, WalletSteps
  <2>3. WalletTypeOK'
    BY DEF WalletTypeOK
  <2>4. Working'
    BY DEF Working, ServiceTypeOK, SpendSteps, Steps, LedgerSteps, WalletSteps
  <2>5. QED
    BY <2>1, <2>2, <2>3, <2>4
<1>15. ASSUME NEW t \in Threads, Unlock(t) PROVE TypeInv'
  <2> USE <1>15 DEF Unlock, Refuse
  <2>1. LedgerTypeOK'
    BY DEF LedgerTypeOK
  <2>2. ServiceTypeOK'
    BY DEF ServiceTypeOK, Steps, LedgerSteps, WalletSteps
  <2>3. WalletTypeOK'
    BY DEF WalletTypeOK
  <2>4. Working'
    BY DEF Working, ServiceTypeOK, SpendSteps, Steps, LedgerSteps, WalletSteps
  <2>5. QED
    BY <2>1, <2>2, <2>3, <2>4
<1>16. ASSUME NEW t \in Threads, SendToAddress(t) PROVE TypeInv'
  <2> USE <1>16 DEF SendToAddress, SendFails, SendEscapes, Refuse
  <2>1. LedgerTypeOK'
    BY DEF LedgerTypeOK
  <2>2. ServiceTypeOK'
    BY DEF ServiceTypeOK, Steps, LedgerSteps, WalletSteps
  <2>3. WalletTypeOK'
    <3>1. CASE UNCHANGED paid
      BY <3>1 DEF WalletTypeOK
    <3>2. CASE Broadcast(req[t])
      <4>1. req[t] \in Requests /\ req[t].spend \in Spends
        BY DEF Working, SpendSteps, Steps, WalletSteps
      <4>2. QED
        BY <3>2, <4>1 DEF Broadcast, WalletTypeOK
    <3>3. QED
      BY <3>1, <3>2
  <2>4. Working'
    BY DEF Working, ServiceTypeOK, SpendSteps, Steps, LedgerSteps, WalletSteps
  <2>5. QED
    BY <2>1, <2>2, <2>3, <2>4
<1>17. ASSUME NEW t \in Threads, StoreFailure(t) PROVE TypeInv'
  <2> USE <1>17 DEF StoreFailure
  <2>1. LedgerTypeOK'
    BY WriteStatusTyped
    DEF Working, ServiceTypeOK, SpendSteps, Steps, LedgerSteps, WalletSteps, Statuses, EventNames
  <2>2. ServiceTypeOK'
    <3>1. req[t] \in Requests
      BY DEF Working
    <3>2. QED
      BY <3>1 DEF ServiceTypeOK, Store, Cached, Steps, LedgerSteps
  <2>3. WalletTypeOK'
    BY DEF WalletTypeOK
  <2>4. Working'
    BY DEF Working, ServiceTypeOK, SpendSteps, Steps, LedgerSteps, WalletSteps
  <2>5. QED
    BY <2>1, <2>2, <2>3, <2>4
<1>18. ASSUME NEW t \in Threads, LogFailure(t) PROVE TypeInv'
  <2> USE <1>18 DEF LogFailure
  <2>1. LedgerTypeOK'
    BY AuditTyped DEF Working, ServiceTypeOK
  <2>2. ServiceTypeOK'
    <3>1. CASE Return(t)
      BY <3>1, ReturnTyped DEF ServiceTypeOK
    <3>2. CASE Goto(t, "locking") /\ UNCHANGED <<req, locals>>
      BY <3>2 DEF ServiceTypeOK, Steps, WalletSteps
    <3>3. QED
      BY <3>1, <3>2
  <2>3. WalletTypeOK'
    BY DEF WalletTypeOK
  <2>4. Working'
    BY DEF Return, Working, ServiceTypeOK, SpendSteps, Steps, LedgerSteps, WalletSteps
  <2>5. QED
    BY <2>1, <2>2, <2>3, <2>4
<1>19. ASSUME NEW t \in Threads, Lock(t) PROVE TypeInv'
  <2> USE <1>19 DEF Lock
  <2>1. LedgerTypeOK'
    BY DEF LedgerTypeOK
  <2>2. ServiceTypeOK'
    <3>1. CASE AfterCleanup(t)
      BY <3>1, AfterCleanupTyped
    <3>2. CASE Goto(t, "log_lock") /\ UNCHANGED <<req, locals>>
      BY <3>2 DEF ServiceTypeOK, Steps, LedgerSteps
    <3>3. QED
      BY <3>1, <3>2
  <2>3. WalletTypeOK'
    BY DEF WalletTypeOK
  <2>4. Working'
    BY DEF AfterCleanup, Return, Working, ServiceTypeOK, SpendSteps, Steps, LedgerSteps, WalletSteps
  <2>5. QED
    BY <2>1, <2>2, <2>3, <2>4
<1>20. ASSUME NEW t \in Threads, LogLockFailed(t) PROVE TypeInv'
  <2> USE <1>20 DEF LogLockFailed
  <2>1. LedgerTypeOK'
    BY AuditTyped DEF Working, ServiceTypeOK
  <2>2. ServiceTypeOK'
    BY AfterCleanupTyped
  <2>3. WalletTypeOK'
    BY DEF WalletTypeOK
  <2>4. Working'
    BY DEF AfterCleanup, Return, Working, ServiceTypeOK, SpendSteps, Steps, LedgerSteps, WalletSteps
  <2>5. QED
    BY <2>1, <2>2, <2>3, <2>4
<1>32. ASSUME NEW t \in Threads, LookUpTransaction(t) PROVE TypeInv'
  <2> USE <1>32 DEF LookUpTransaction
  <2>1. LedgerTypeOK'
    BY DEF LedgerTypeOK
  <2>2. ServiceTypeOK'
    BY DEF ServiceTypeOK, Steps, LedgerSteps, WalletSteps
  <2>3. WalletTypeOK'
    BY DEF WalletTypeOK
  <2>4. Working'
    BY DEF Working, ServiceTypeOK, SpendSteps, Steps, LedgerSteps, WalletSteps
  <2>5. QED
    BY <2>1, <2>2, <2>3, <2>4
<1>21. ASSUME NEW t \in Threads, RecordTransaction(t) PROVE TypeInv'
  <2> USE <1>21 DEF RecordTransaction
  <2>1. LedgerTypeOK'
    BY InsertTyped DEF Working, SpendSteps, Steps, LedgerSteps, WalletTypeOK
  <2>2. ServiceTypeOK'
    BY DEF ServiceTypeOK, Steps, LedgerSteps, WalletSteps
  <2>3. WalletTypeOK'
    BY DEF WalletTypeOK
  <2>4. Working'
    BY DEF Working, ServiceTypeOK, SpendSteps, Steps, LedgerSteps, WalletSteps
  <2>5. QED
    BY <2>1, <2>2, <2>3, <2>4
<1>22. ASSUME NEW t \in Threads, MarkSent(t) PROVE TypeInv'
  <2> USE <1>22 DEF MarkSent, MarkStatus
  <2>1. LedgerTypeOK'
    BY WriteStatusTyped
    DEF Working, ServiceTypeOK, SpendSteps, Steps, LedgerSteps, WalletSteps, Statuses, EventNames
  <2>2. ServiceTypeOK'
    BY DEF ServiceTypeOK, Steps, LedgerSteps, WalletSteps
  <2>3. WalletTypeOK'
    BY DEF WalletTypeOK
  <2>4. Working'
    BY DEF Working, ServiceTypeOK, SpendSteps, Steps, LedgerSteps, WalletSteps
  <2>5. QED
    BY <2>1, <2>2, <2>3, <2>4
<1>23. ASSUME NEW t \in Threads, LogSent(t) PROVE TypeInv'
  <2> USE <1>23 DEF LogSent
  <2>1. LedgerTypeOK'
    BY AuditTyped DEF Working, ServiceTypeOK
  <2>2. ServiceTypeOK'
    <3>1. req[t] \in Requests
      BY DEF Working
    <3>2. cache' \in [Keys -> Cached \cup {None}]
      BY <3>1 DEF ServiceTypeOK, Store, Cached
    <3>3. QED
      BY <3>2, ReturnTyped
  <2>3. WalletTypeOK'
    BY DEF WalletTypeOK
  <2>4. Working'
    BY DEF Return, Working, ServiceTypeOK, SpendSteps, Steps, LedgerSteps, WalletSteps
  <2>5. QED
    BY <2>1, <2>2, <2>3, <2>4
<1>24. ASSUME NEW t \in Threads, LedgerFails(t) PROVE TypeInv'
  <2> USE <1>24 DEF LedgerFails
  <2>1. LedgerTypeOK'
    BY DEF LedgerTypeOK
  <2>2. ServiceTypeOK'
    <3>1. CASE Return(t)
      BY <3>1, ReturnTyped DEF ServiceTypeOK
    <3>2. CASE ~Return(t)
      BY <3>2 DEF ServiceTypeOK, Steps, WalletSteps
    <3>3. QED
      BY <3>1, <3>2
  <2>3. WalletTypeOK'
    BY DEF WalletTypeOK
  <2>4. Working'
    BY DEF Return, Working, ServiceTypeOK, SpendSteps, Steps, LedgerSteps, WalletSteps
  <2>5. QED
    BY <2>1, <2>2, <2>3, <2>4
<1>25. ASSUME Crash PROVE TypeInv'
  <2> USE <1>25 DEF Crash
  <2>1. LedgerTypeOK'
    BY DEF LedgerTypeOK
  <2>2. ServiceTypeOK'
    BY DEF ServiceTypeOK, Steps, Days, Statuses
  <2>3. WalletTypeOK'
    BY DEF WalletTypeOK
  <2>4. Working'
    BY DEF Working, SpendSteps
  <2>5. QED
    BY <2>1, <2>2, <2>3, <2>4
<1>26. ASSUME UnlockExpires PROVE TypeInv'
  <2> USE <1>26 DEF UnlockExpires
  <2>1. LedgerTypeOK'
    BY DEF LedgerTypeOK
  <2>2. ServiceTypeOK'
    BY DEF ServiceTypeOK
  <2>3. WalletTypeOK'
    BY DEF WalletTypeOK
  <2>4. Working'
    BY DEF Working
  <2>5. QED
    BY <2>1, <2>2, <2>3, <2>4
<1>27. ASSUME NextDay PROVE TypeInv'
  <2> USE <1>27 DEF NextDay
  <2>1. LedgerTypeOK'
    BY DEF LedgerTypeOK
  <2>2. ServiceTypeOK'
    BY DEF ServiceTypeOK
  <2>3. WalletTypeOK'
    BY DEF WalletTypeOK, Days
  <2>4. Working'
    BY DEF Working
  <2>5. QED
    BY <2>1, <2>2, <2>3, <2>4
<1>28. ASSUME NEW s \in Spends, Propose(s) PROVE TypeInv'
  <2> USE <1>28 DEF Propose, InsertRequest
  <2>1. LedgerTypeOK'
    BY DEF LedgerTypeOK, Statuses
  <2>2. ServiceTypeOK'
    BY DEF ServiceTypeOK
  <2>3. WalletTypeOK'
    BY DEF WalletTypeOK
  <2>4. Working'
    BY DEF Working
  <2>5. QED
    BY <2>1, <2>2, <2>3, <2>4
<1>29. ASSUME NEW t \in Threads, AnswerEscapes(t) PROVE TypeInv'
  <2> USE <1>29 DEF AnswerEscapes
  <2>1. LedgerTypeOK'
    BY DEF LedgerTypeOK
  <2>2. ServiceTypeOK'
    BY ReturnTyped DEF ServiceTypeOK
  <2>3. WalletTypeOK'
    BY DEF WalletTypeOK
  <2>4. Working'
    BY DEF Return, Working, ServiceTypeOK, SpendSteps, Steps, LedgerSteps, WalletSteps
  <2>5. QED
    BY <2>1, <2>2, <2>3, <2>4
<1>30. CASE UNCHANGED vars \/ \E t \in Threads, r \in Requests : Replay(t, r)
  BY <1>30 DEF vars, Replay, LedgerTypeOK, ServiceTypeOK, WalletTypeOK, Working
<1>31. QED
  BY <1>1, <1>2, <1>3, <1>4, <1>5, <1>6, <1>7, <1>8, <1>9, <1>10, <1>11, <1>12,
     <1>13, <1>14, <1>15, <1>16, <1>17, <1>18, <1>19, <1>20, <1>21, <1>22, <1>23,
     <1>24, <1>25, <1>26, <1>27, <1>28, <1>29, <1>30, <1>32
  DEF Next, ThreadStep

\* Every variable keeps its type: statuses are lifecycle statuses, rows name
\* spend requests, totals are naturals.
THEOREM TypeCorrect == Spec => []TypeOK
<1>1. Spec => []TypeInv
  BY InitTypeInv, NextTypeInv, PTL DEF Spec
<1>2. TypeInv => TypeOK
  BY DEF TypeInv
<1>3. QED
  BY <1>1, <1>2, PTL

-----------------------------------------------------------------------------
(* The announcement in the ledger precedes the payment.                      *)

Announcement == {"log_start", "unlock", "send"}

\* A thread on its way to the wallet has written the sending status and, past
\* log_start, the audit event.
Announcing(t) ==
  /\ pc[t] \in Announcement => <<"sending", req[t].key, "ok">> \in eventKeys
  /\ pc[t] \in {"unlock", "send"} => <<"log_start", req[t].key, "ok">> \in eventKeys

AnnounceInv == TypeInv /\ (\A t \in Threads : Announcing(t)) /\ AnnouncedBeforePaid

\* A step of a thread that neither announces nor pays.
Aside(t) ==
  /\ \A u \in Threads \ {t} : pc'[u] = pc[u] /\ req'[u] = req[u]
  /\ pc'[t] \notin Announcement
  /\ eventKeys \subseteq eventKeys' /\ UNCHANGED broadcasts

LEMMA AsideKeeps ==
  ASSUME AnnounceInv, TypeInv', NEW t \in Threads, Aside(t)
  PROVE  AnnounceInv'
<1>1. ASSUME NEW u \in Threads PROVE Announcing(u)'
  BY DEF AnnounceInv, Announcing, Announcement, Aside
<1>2. AnnouncedBeforePaid'
  BY DEF AnnounceInv, AnnouncedBeforePaid, Aside
<1>3. QED
  BY <1>1, <1>2 DEF AnnounceInv

LEMMA AsideSteps ==
  ASSUME TypeInv, NEW t \in Threads,
         \/ \E r \in Requests : Receive(t, r) \/ Conflict(t, r)
         \/ LogReceived(t) \/ LogValidating(t) \/ ReadRequest(t) \/ Validate(t)
         \/ Consult(t) \/ CheckDaily(t) \/ CheckWeekly(t)
         \/ WriteRejection(t) \/ LogRejection(t) \/ MarkApproved(t)
         \/ StoreFailure(t) \/ LogFailure(t) \/ Lock(t) \/ LogLockFailed(t)
         \/ LookUpTransaction(t) \/ RecordTransaction(t) \/ MarkSent(t) \/ LogSent(t)
         \/ LedgerFails(t) \/ AnswerEscapes(t)
  PROVE  Aside(t)
<1> USE DEF TypeInv, TypeOK, ServiceTypeOK, Aside, Announcement, At, Goto, ledger, wallet, paid
<1>1. CASE \E r \in Requests : Receive(t, r) \/ Conflict(t, r)
  BY <1>1 DEF Receive, Conflict, Begin
<1>2. CASE LogReceived(t) \/ LogValidating(t)
  BY <1>2 DEF LogReceived, LogValidating, LogStep, Audit
<1>3. CASE ReadRequest(t) \/ Validate(t)
  BY <1>3 DEF ReadRequest, Validate, Refuse, RejectStep
<1>4. CASE Consult(t) \/ CheckDaily(t) \/ CheckWeekly(t)
  BY <1>4 DEF Consult, CheckDaily, CheckWeekly, Refuse
<1>5. CASE WriteRejection(t) \/ MarkApproved(t) \/ MarkSent(t)
  BY <1>5 DEF WriteRejection, MarkApproved, MarkSent, MarkStatus, WriteStatus
<1>6. CASE LogRejection(t) \/ LogSent(t)
  BY <1>6 DEF LogRejection, LogSent, Audit, Return
<1>7. CASE StoreFailure(t)
  BY <1>7 DEF StoreFailure, WriteStatus
<1>8. CASE LogFailure(t)
  BY <1>8 DEF LogFailure, Audit, Return
<1>9. CASE Lock(t) \/ LogLockFailed(t)
  BY <1>9 DEF Lock, LogLockFailed, AfterCleanup, Audit, Return
<1>10. CASE LookUpTransaction(t) \/ RecordTransaction(t)
  BY <1>10 DEF LookUpTransaction, RecordTransaction, InsertTransaction
<1>11. CASE LedgerFails(t) \/ AnswerEscapes(t)
  BY <1>11 DEF LedgerFails, AnswerEscapes, Return
<1>12. QED
  BY <1>1, <1>2, <1>3, <1>4, <1>5, <1>6, <1>7, <1>8, <1>9, <1>10, <1>11

LEMMA NextAnnounceInv == AnnounceInv /\ [Next]_vars => AnnounceInv'
<1> SUFFICES ASSUME AnnounceInv, [Next]_vars PROVE AnnounceInv'
  OBVIOUS
<1>1. TypeInv /\ TypeInv'
  BY NextTypeInv DEF AnnounceInv
<1> USE DEF At, Goto, ledger, threads, wallet, paid
<1>2. ASSUME NEW t \in Threads, MarkSending(t) PROVE AnnounceInv'
  <2> USE <1>2 DEF MarkSending, MarkStatus, WriteStatus
  <2>1. ASSUME NEW u \in Threads PROVE Announcing(u)'
    BY <1>1 DEF AnnounceInv, Announcing, Announcement, TypeInv, TypeOK, ServiceTypeOK
  <2>2. AnnouncedBeforePaid'
    BY DEF AnnounceInv, AnnouncedBeforePaid
  <2>3. QED
    BY <1>1, <2>1, <2>2 DEF AnnounceInv
<1>3. ASSUME NEW t \in Threads, LogSendStarted(t) PROVE AnnounceInv'
  <2> USE <1>3 DEF LogSendStarted, LogStep, Audit, KeptAudits
  <2>1. ASSUME NEW u \in Threads PROVE Announcing(u)'
    BY <1>1 DEF AnnounceInv, Announcing, Announcement, TypeInv, TypeOK, ServiceTypeOK
  <2>2. AnnouncedBeforePaid'
    BY DEF AnnounceInv, AnnouncedBeforePaid
  <2>3. QED
    BY <1>1, <2>1, <2>2 DEF AnnounceInv
<1>4. ASSUME NEW t \in Threads, Unlock(t) PROVE AnnounceInv'
  <2> USE <1>4 DEF Unlock, Refuse
  <2>1. ASSUME NEW u \in Threads PROVE Announcing(u)'
    BY <1>1 DEF AnnounceInv, Announcing, Announcement, TypeInv, TypeOK, ServiceTypeOK
  <2>2. AnnouncedBeforePaid'
    BY DEF AnnounceInv, AnnouncedBeforePaid
  <2>3. QED
    BY <1>1, <2>1, <2>2 DEF AnnounceInv
<1>5. ASSUME NEW t \in Threads, SendToAddress(t) PROVE AnnounceInv'
  <2> USE <1>5 DEF SendToAddress, SendFails, SendEscapes, Refuse
  <2>1. ASSUME NEW u \in Threads PROVE Announcing(u)'
    BY <1>1 DEF AnnounceInv, Announcing, Announcement, TypeInv, TypeOK, ServiceTypeOK
  <2>2. ASSUME NEW s \in Spends, broadcasts'[s] > 0
        PROVE  \E r \in Requests : /\ r.spend = s
                                   /\ <<"sending", r.key, "ok">> \in eventKeys'
                                   /\ <<"log_start", r.key, "ok">> \in eventKeys'
    <3>1. CASE s = req[t].spend
      <4>1. req[t] \in Requests
        BY <1>1 DEF TypeInv, Working
      <4>2. /\ <<"sending", req[t].key, "ok">> \in eventKeys'
            /\ <<"log_start", req[t].key, "ok">> \in eventKeys'
        BY DEF AnnounceInv, Announcing, Announcement
      <4>3. QED
        BY <3>1, <4>1, <4>2
    <3>2. CASE s # req[t].spend
      <4>1. broadcasts'[s] = broadcasts[s]
        BY <1>1, <3>2 DEF Broadcast, TypeInv, TypeOK, WalletTypeOK
      <4>2. QED
        BY <2>2, <4>1 DEF AnnounceInv, AnnouncedBeforePaid
    <3>3. QED
      BY <3>1, <3>2
  <2>3. QED
    BY <1>1, <2>1, <2>2 DEF AnnounceInv, AnnouncedBeforePaid
<1>6. CASE Crash
  BY <1>1, <1>6 DEF Crash, AnnounceInv, Announcing, Announcement, AnnouncedBeforePaid
<1>7. CASE UnlockExpires \/ NextDay
  BY <1>1, <1>7 DEF UnlockExpires, NextDay, AnnounceInv, Announcing, AnnouncedBeforePaid
<1>8. ASSUME NEW s \in Spends, Propose(s) PROVE AnnounceInv'
  BY <1>1, <1>8 DEF Propose, InsertRequest, AnnounceInv, Announcing, AnnouncedBeforePaid
<1>9. CASE UNCHANGED vars
  BY <1>1, <1>9 DEF vars, AnnounceInv, Announcing, AnnouncedBeforePaid
<1>10. QED
  BY <1>1, <1>2, <1>3, <1>4, <1>5, <1>6, <1>7, <1>8, <1>9, AsideSteps, AsideKeeps
     DEF Next, ThreadStep, Replay

\* No money moves before the ledger holds the sending status and the audit event
\* that announce it, for any number of threads, overlapping as they may, and
\* under every fault (service.py, capped_send up to send_to_address).
THEOREM PaymentsAreAnnounced == Spec => []AnnouncedBeforePaid
<1>1. Init => AnnounceInv
  <2> SUFFICES ASSUME Init PROVE AnnounceInv
    OBVIOUS
  <2>1. TypeInv
    BY InitTypeInv
  <2>2. QED
    BY <2>1 DEF Init, AnnounceInv, Announcing, Announcement, AnnouncedBeforePaid
<1>2. AnnounceInv => AnnouncedBeforePaid
  BY DEF AnnounceInv
<1>3. QED
  BY <1>1, <1>2, NextAnnounceInv, PTL DEF Spec

-----------------------------------------------------------------------------
(* The wallet is locked again.                                               *)

GuardInv == TypeInv /\ UnlockedIsGuarded

LEMMA NextGuardInv ==
  ASSUME Faults \subseteq {"wallet"}, GuardInv, [Next]_vars
  PROVE  GuardInv'
<1>1. TypeInv /\ TypeInv'
  BY NextTypeInv DEF GuardInv
<1> USE DEF GuardInv, UnlockedIsGuarded, At, Goto, ledger, locals, threads, wallet, paid
\* A thread that neither unlocks nor is past the unlock.
<1>2. ASSUME NEW t \in Threads, unlocked' = unlocked, eventKeys \subseteq eventKeys',
             \A u \in Threads \ {t} : pc'[u] = pc[u] /\ cleanup'[u] = cleanup[u],
             ~ (cleanup[t] # "no" /\ pc[t] \in {"send", "failing", "log_fail", "locking", "log_lock"})
      PROVE  GuardInv'
  BY <1>1, <1>2
<1> USE DEF TypeInv, TypeOK, ServiceTypeOK
<1>3. ASSUME NEW t \in Threads, NEW r \in Requests, Receive(t, r) \/ Conflict(t, r) PROVE GuardInv'
  <2>1. /\ UNCHANGED <<unlocked, eventKeys, cleanup>> /\ pc[t] = "idle"
        /\ \A u \in Threads \ {t} : pc'[u] = pc[u]
    BY <1>1, <1>3 DEF Receive, Conflict, MayStart, Begin
  <2>2. QED
    BY <1>2, <2>1
<1>4. ASSUME NEW t \in Threads,
             \/ LogReceived(t) \/ LogValidating(t) \/ LogSendStarted(t) \/ ReadRequest(t) \/ Validate(t)
             \/ Consult(t) \/ CheckDaily(t) \/ CheckWeekly(t)
      PROVE  GuardInv'
  BY <1>1, <1>2, <1>4
     DEF LogReceived, LogValidating, LogSendStarted, LogStep, Audit, ReadRequest, Validate, Consult,
         CheckDaily, CheckWeekly, Refuse
<1>5. ASSUME NEW t \in Threads,
             WriteRejection(t) \/ MarkApproved(t) \/ MarkSending(t) \/ MarkSent(t)
      PROVE  GuardInv'
  BY <1>1, <1>2, <1>5 DEF WriteRejection, MarkApproved, MarkSending, MarkSent, MarkStatus, WriteStatus
<1>6. ASSUME NEW t \in Threads, LogRejection(t) \/ LogSent(t) PROVE GuardInv'
  BY <1>1, <1>2, <1>6 DEF LogRejection, LogSent, Audit, Return
<1>7. ASSUME NEW t \in Threads, LookUpTransaction(t) \/ RecordTransaction(t) PROVE GuardInv'
  BY <1>1, <1>2, <1>7 DEF LookUpTransaction, RecordTransaction, InsertTransaction
<1>8. ASSUME NEW t \in Threads, Unlock(t) PROVE GuardInv'
  BY <1>1, <1>2, <1>8 DEF Unlock, Refuse
<1>9. ASSUME NEW t \in Threads, SendToAddress(t) PROVE GuardInv'
  BY <1>1, <1>9 DEF SendToAddress, SendFails, SendEscapes, Refuse
<1>10. ASSUME NEW t \in Threads, StoreFailure(t) PROVE GuardInv'
  BY <1>1, <1>10 DEF StoreFailure, WriteStatus
<1>11. ASSUME NEW t \in Threads, LogFailure(t) PROVE GuardInv'
  <2>1. CASE cleanup[t] = "no"
    BY <1>1, <1>2, <1>11, <2>1 DEF LogFailure, Audit, Return
  <2>2. CASE cleanup[t] # "no"
    BY <1>1, <1>11, <2>2 DEF LogFailure, Audit
  <2>3. QED
    BY <2>1, <2>2
<1>12. ASSUME NEW t \in Threads, Lock(t) PROVE GuardInv'
  <2>1. CASE unlocked' = FALSE
    BY <1>1, <2>1
  <2>2. CASE /\ unlocked' = unlocked /\ UNCHANGED <<cleanup, eventKeys>>
             /\ pc' = [pc EXCEPT ![t] = "log_lock"]
    BY <1>1, <1>12, <2>2 DEF Lock
  <2>3. QED
    BY <1>12, <2>1, <2>2 DEF Lock
<1>13. ASSUME NEW t \in Threads, LogLockFailed(t) PROVE GuardInv'
  <2>1. req[t].key \in Keys /\ <<"log_lock", req[t].key, "ok">> \in eventKeys'
    BY <1>1, <1>13, RequestsAssumption DEF LogLockFailed, Audit, KeptAudits, Working
  <2>2. QED
    BY <1>1, <2>1
<1>14. ASSUME NEW t \in Threads, LedgerFails(t) \/ AnswerEscapes(t) PROVE GuardInv'
  BY <1>14 DEF LedgerFails, AnswerEscapes
<1>15. CASE Crash \/ UnlockExpires \/ NextDay
  BY <1>1, <1>15 DEF Crash, UnlockExpires, NextDay
<1>16. ASSUME NEW s \in Spends, Propose(s) PROVE GuardInv'
  BY <1>1, <1>16 DEF Propose, InsertRequest
<1>17. CASE UNCHANGED vars
  BY <1>1, <1>17 DEF vars
<1>18. QED
  BY <1>3, <1>4, <1>5, <1>6, <1>7, <1>8, <1>9, <1>10, <1>11, <1>12, <1>13, <1>14, <1>15, <1>16, <1>17
     DEF Next, ThreadStep, Replay

\* While the process lives and the ledger and the wallet answer, if only with
\* refusals, the wallet is open only for a thread whose finally block will lock
\* it, or after a lock failure that the ledger reports (service.py, capped_send),
\* for any number of threads that share the one wallet.
THEOREM UnlocksAreGuarded ==
  ASSUME Faults \subseteq {"wallet"}
  PROVE  Spec => []UnlockedIsGuarded
<1>1. Init => GuardInv
  <2> SUFFICES ASSUME Init PROVE GuardInv
    OBVIOUS
  <2>1. TypeInv
    BY InitTypeInv
  <2>2. QED
    BY <2>1 DEF Init, GuardInv, UnlockedIsGuarded
<1>2. GuardInv /\ [Next]_vars => GuardInv'
  BY NextGuardInv
<1>3. GuardInv => UnlockedIsGuarded
  BY DEF GuardInv
<1>4. QED
  BY <1>1, <1>2, <1>3, PTL DEF Spec

-----------------------------------------------------------------------------
(* One worker keeps the limits, however often the day changes under it.      *)

\* From the checks to the record nothing else is recorded, and nothing was recorded
\* for a later day: what fits on the day of the check fits on every later one.
Sending == {"approve", "start", "log_start", "unlock", "send", "locking", "log_lock", "record", "insert"}

Committed(t, steps) ==
  pc[t] \notin {"complete", "log_sent"} /\ (cleanup[t] # "no" \/ pc[t] \in steps)

FitsDay(t) ==
  /\ today[t] <= day /\ spentOn[today[t]] + req[t].total <= MaxDaily
  /\ \A d \in Days : d > today[t] => spentOn[d] = 0
  /\ \A d \in Days : d >= today[t] => spentWithin[d] <= spentWithin[today[t]]

FitsWindow(t) == spentWithin[today[t]] + req[t].total <= MaxWeekly

Checked(t) ==
  /\ cleanup[t] # "no" =>
       pc[t] \in {"send", "failing", "log_fail", "locking", "log_lock",
                 "record", "insert", "complete", "log_sent"}
  /\ Committed(t, Sending \cup {"weekly"}) => FitsDay(t)
  /\ Committed(t, Sending) => FitsWindow(t)

\* Nothing is recorded ahead of time.
NothingAhead ==
  /\ \A d \in Days : d > day => spentOn[d] = 0
  /\ \A d, e \in Days : day <= d /\ d <= e => spentWithin[e] <= spentWithin[d]

LimitInv ==
  TypeInv /\ NothingAhead /\ RecordedWithinLimits /\ \A t \in Threads : Checked(t)

LEMMA CheckSteps ==
  ASSUME LimitInv, NEW t \in Threads,
         ThreadStep(t) \/ LedgerFails(t) \/ AnswerEscapes(t), ~RecordTransaction(t)
  PROVE  Checked(t)' /\ UNCHANGED <<spentOn, spentWithin, day>>
<1> DEFINE Goal == Checked(t)' /\ UNCHANGED <<spentOn, spentWithin, day>>
<1>1. /\ pc \in [Threads -> Steps] /\ req \in [Threads -> Requests \cup {None}]
      /\ today \in [Threads -> Days] /\ cleanup \in [Threads -> {"no", "record", "return", "raise"}]
      /\ spentOn \in [Days -> Nat] /\ spentWithin \in [Days -> Nat] /\ day \in Days
      /\ Checked(t)
  BY DEF LimitInv, TypeInv, TypeOK, LedgerTypeOK, ServiceTypeOK, WalletTypeOK
<1>2. pc[t] # "idle" => req[t].total \in Nat
  BY RequestsAssumption DEF LimitInv, TypeInv, Working
<1>3. /\ \A d \in Days : d \in Nat /\ spentOn[d] \in Nat /\ spentWithin[d] \in Nat
      /\ MaxDaily \in Nat /\ MaxWeekly \in Nat /\ day \in Days
  BY <1>1, LimitsAssumption DEF Days
<1>0. cleanup[t] # "no" =>
        pc[t] \in {"send", "failing", "log_fail", "locking", "log_lock",
                  "record", "insert", "complete", "log_sent"}
  BY <1>1 DEF Checked
<1> USE DEF At, Goto, ledger, locals, threads, wallet, paid
<1>4. ASSUME UNCHANGED <<spentOn, spentWithin, day, req, today, cleanup>>,
             pc'[t] \in Sending => pc[t] \in Sending \/ cleanup[t] # "no",
             pc'[t] # "weekly", pc[t] \notin {"complete", "log_sent"},
             cleanup[t] # "no" =>
               pc'[t] \in {"send", "failing", "log_fail", "locking", "log_lock",
                          "record", "insert", "complete", "log_sent"}
      PROVE  Goal
  BY <1>1, <1>4 DEF Checked, Committed, FitsDay, FitsWindow
<1>5. ASSUME UNCHANGED <<spentOn, spentWithin, day>>, Return(t)
      PROVE  Goal
  BY <1>1, <1>5 DEF Checked, Committed, Return, Sending
<1>6. ASSUME LogReceived(t) \/ LogValidating(t) \/ LogSendStarted(t) PROVE Goal
  BY <1>0, <1>1, <1>4, <1>6 DEF LogReceived, LogValidating, LogSendStarted, LogStep, Audit, Sending
<1>7. ASSUME ReadRequest(t) \/ Validate(t) \/ Consult(t) \/ LookUpTransaction(t) PROVE Goal
  BY <1>0, <1>1, <1>4, <1>7 DEF LookUpTransaction, ReadRequest, Validate, Consult, Refuse, RejectStep, Sending
<1>8. ASSUME CheckDaily(t) PROVE Goal
  <2>1. CASE pc'[t] = "weekly"
    <3>1. /\ UNCHANGED <<spentOn, spentWithin, day, req, cleanup>> /\ today' = [today EXCEPT ![t] = day]
          /\ pc[t] = "daily" /\ ~(req[t].total > Remaining(MaxDaily, spentOn[day]))
      BY <1>1, <1>8, <2>1 DEF CheckDaily, Refuse
    <3>2. /\ spentOn[day] <= MaxDaily /\ \A d \in Days : d > day => spentOn[d] = 0
          /\ \A d \in Days : d >= day => spentWithin[d] <= spentWithin[day]
      BY <1>3 DEF LimitInv, RecordedWithinLimits, NothingAhead
    <3>3. spentOn[day] + req[t].total <= MaxDaily
      BY <1>2, <1>3, <3>1, <3>2 DEF Remaining
    <3>4. FitsDay(t)'
      BY <1>1, <1>3, <3>1, <3>2, <3>3 DEF FitsDay
    <3>6. cleanup[t] = "no"
      BY <1>1, <3>1 DEF Checked
    <3>5. ~Committed(t, Sending)'
      BY <2>1, <3>1, <3>6 DEF Committed, Sending
    <3>7. QED
      BY <2>1, <3>1, <3>4, <3>5, <3>6 DEF Checked
  <2>2. CASE pc'[t] = "rejecting"
    BY <1>1, <1>8, <2>2 DEF CheckDaily, Checked, Committed, Refuse, Sending
  <2>3. QED
    BY <1>1, <1>8, <2>1, <2>2 DEF CheckDaily, Refuse
<1>9. ASSUME CheckWeekly(t) PROVE Goal
  <2>1. CASE pc'[t] = "approve"
    <3>1. /\ UNCHANGED <<spentOn, spentWithin, day, req, cleanup, today>>
          /\ pc[t] = "weekly" /\ ~(req[t].total > Remaining(MaxWeekly, spentWithin[today[t]]))
      BY <1>1, <1>9, <2>1 DEF CheckWeekly, Refuse
    <3>2. cleanup[t] = "no" /\ FitsDay(t) /\ today[t] \in Days
      BY <1>1, <3>1 DEF Checked, Committed, Sending
    <3>3. spentWithin[today[t]] + req[t].total <= MaxWeekly
      BY <1>2, <1>3, <3>1, <3>2 DEF Remaining, LimitInv, RecordedWithinLimits
    <3>4. QED
      BY <1>1, <2>1, <3>1, <3>2, <3>3 DEF Checked, Committed, FitsDay, FitsWindow
  <2>2. CASE pc'[t] = "rejecting"
    BY <1>1, <1>9, <2>2 DEF CheckWeekly, Checked, Committed, Refuse, Sending
  <2>3. QED
    BY <1>1, <1>9, <2>1, <2>2 DEF CheckWeekly, Refuse
<1>10. ASSUME WriteRejection(t) \/ MarkApproved(t) \/ MarkSending(t) \/ StoreFailure(t) PROVE Goal
  BY <1>0, <1>1, <1>4, <1>10
     DEF WriteRejection, MarkApproved, MarkSending, MarkStatus, WriteStatus, StoreFailure, Sending
<1>11. ASSUME MarkSent(t) PROVE Goal
  BY <1>1, <1>11 DEF MarkSent, MarkStatus, WriteStatus, Checked, Committed
<1>12. ASSUME LogRejection(t) \/ LogSent(t) PROVE Goal
  BY <1>5, <1>12 DEF LogRejection, LogSent, Audit
<1>13. ASSUME Unlock(t) PROVE Goal
  <2>1. /\ UNCHANGED <<spentOn, spentWithin, day, req, today>>
        /\ pc[t] = "unlock" /\ pc'[t] \in {"send", "failing"}
        /\ cleanup' = cleanup \/ pc'[t] = "send"
    BY <1>1, <1>13 DEF Unlock, Refuse
  <2>2. QED
    BY <1>0, <1>1, <2>1 DEF Checked, Committed, FitsDay, FitsWindow, Sending
<1>14. ASSUME SendToAddress(t) PROVE Goal
  <2>1. /\ UNCHANGED <<spentOn, spentWithin, day, req, today>>
        /\ pc[t] = "send" /\ pc'[t] \in {"locking", "failing"}
    BY <1>1, <1>14 DEF SendToAddress, SendFails, SendEscapes, Refuse
  <2>2. QED
    BY <1>1, <2>1 DEF Checked, Committed, FitsDay, FitsWindow, Sending
<1>15. ASSUME LogFailure(t) PROVE Goal
  BY <1>0, <1>1, <1>4, <1>5, <1>15 DEF LogFailure, Audit, Sending
<1>16. ASSUME Lock(t) \/ LogLockFailed(t) PROVE Goal
  BY <1>0, <1>1, <1>4, <1>5, <1>16 DEF Lock, LogLockFailed, AfterCleanup, Audit, Sending
<1>17. ASSUME LedgerFails(t) PROVE Goal
  <2>1. CASE Return(t)
    BY <1>5, <1>17, <2>1 DEF LedgerFails
  <2>2. CASE ~Return(t)
    <3>1. /\ UNCHANGED <<spentOn, spentWithin, day, req, today>>
          /\ pc[t] \in {"failing", "log_fail"} /\ pc'[t] = "locking" /\ cleanup[t] # "no"
      BY <1>1, <1>17, <2>2 DEF LedgerFails
    <3>2. QED
      BY <1>1, <3>1 DEF Checked, Committed, FitsDay, FitsWindow, Sending
  <2>3. QED
    BY <2>1, <2>2
<1>18. ASSUME AnswerEscapes(t) PROVE Goal
  BY <1>5, <1>18 DEF AnswerEscapes
<1>19. QED
  BY <1>6, <1>7, <1>8, <1>9, <1>10, <1>11, <1>12, <1>13, <1>14, <1>15, <1>16, <1>17, <1>18
     DEF ThreadStep

LEMMA NextLimitInv ==
  ASSUME \A t, u \in Threads : t = u, LimitInv, [Next]_vars
  PROVE  LimitInv'
<1>1. TypeInv /\ TypeInv'
  BY NextTypeInv DEF LimitInv
<1>2. /\ spentOn \in [Days -> Nat] /\ spentWithin \in [Days -> Nat]
      /\ pc \in [Threads -> Steps] /\ day \in Days
      /\ req \in [Threads -> Requests \cup {None}] /\ today \in [Threads -> Days]
      /\ Days \subseteq Nat /\ WindowDays \in Nat /\ MaxDaily \in Nat /\ MaxWeekly \in Nat
  <2>1. Days \subseteq Nat /\ WindowDays \in Nat /\ MaxDaily \in Nat /\ MaxWeekly \in Nat
    BY LimitsAssumption DEF Days
  <2>2. QED
    BY <1>1, <2>1 DEF TypeInv, TypeOK, LedgerTypeOK, ServiceTypeOK, WalletTypeOK
<1>3. ASSUME NEW t \in Threads, RecordTransaction(t)
      PROVE  LimitInv'
  <2> DEFINE total == req[t].total
  <2>1. /\ pc[t] = "insert" /\ pc' = [pc EXCEPT ![t] = "complete"]
        /\ UNCHANGED <<cleanup, day>> /\ InsertTransaction(req[t])
    BY <1>3 DEF RecordTransaction, At, Goto, locals
  <2>2. total \in Nat
    BY <1>1, <2>1, RequestsAssumption DEF TypeInv, Working
  <2>3. /\ today[t] \in Days /\ FitsDay(t) /\ FitsWindow(t)
    BY <1>2, <2>1 DEF LimitInv, Checked, Committed, Sending
  <2> HIDE DEF total
  <2>a. /\ spentOn[today[t]] + total <= MaxDaily /\ spentWithin[today[t]] + total <= MaxWeekly
        /\ today[t] <= day /\ today[t] \in Nat /\ day \in Nat
        /\ \A d \in Days : d > today[t] => spentOn[d] = 0
        /\ \A d \in Days : d >= today[t] => spentWithin[d] <= spentWithin[today[t]]
        /\ spentOn[today[t]] \in Nat /\ spentWithin[today[t]] \in Nat
    BY <1>2, <2>3 DEF FitsDay, FitsWindow, total
  <2>4. \A u \in Threads : Checked(u)'
    BY <1>2, <2>1 DEF LimitInv, Checked, Committed
  <2>5. CASE UNCHANGED <<spentOn, spentWithin>>
    BY <1>1, <2>1, <2>4, <2>5 DEF LimitInv, NothingAhead, RecordedWithinLimits
  <2>6. ASSUME spentOn' = [spentOn EXCEPT ![day] = @ + total],
               spentWithin' = [e \in Days |-> IF day <= e /\ e < day + WindowDays
                                              THEN spentWithin[e] + total ELSE spentWithin[e]]
        PROVE  NothingAhead' /\ RecordedWithinLimits'
    <3>1. \A d \in Days : spentOn'[d] = IF d = day THEN spentOn[d] + total ELSE spentOn[d]
      BY <1>2, <2>6
    <3>2. \A d \in Days :
            spentWithin'[d] = IF day <= d /\ d < day + WindowDays
                              THEN spentWithin[d] + total ELSE spentWithin[d]
      BY <2>6
    <3>3. \A d \in Days : spentOn[d] \in Nat /\ spentWithin[d] \in Nat /\ d \in Nat
      BY <1>2
    <3>4. ASSUME NEW d \in Days PROVE d > day => spentOn'[d] = 0
      BY <1>2, <3>1, <3>3 DEF LimitInv, NothingAhead
    <3>5. ASSUME NEW d \in Days, NEW e \in Days, day <= d, d <= e
          PROVE  spentWithin'[e] <= spentWithin'[d]
      <4>1. spentWithin[e] <= spentWithin[d]
        BY <3>5 DEF LimitInv, NothingAhead
      <4>2. QED
        BY <1>2, <2>2, <3>2, <3>3, <3>5, <4>1
    <3>6. ASSUME NEW d \in Days PROVE spentOn'[d] <= MaxDaily
      <4>1. spentOn[d] <= MaxDaily
        BY DEF LimitInv, RecordedWithinLimits
      <4>2. CASE d = day
        <5>1. spentOn[day] <= spentOn[today[t]]
          BY <1>2, <2>a
        <5>2. QED
          BY <1>2, <2>2, <2>a, <3>1, <3>3, <4>2, <5>1
      <4>3. QED
        BY <3>1, <4>1, <4>2
    <3>7. ASSUME NEW d \in Days PROVE spentWithin'[d] <= MaxWeekly
      <4>1. spentWithin[d] <= MaxWeekly
        BY DEF LimitInv, RecordedWithinLimits
      <4>2. CASE day <= d
        <5>1. spentWithin[d] <= spentWithin[today[t]]
          BY <2>a, <3>3, <4>2
        <5>2. QED
          BY <1>2, <2>2, <2>a, <3>2, <3>3, <4>1, <4>2, <5>1
      <4>3. QED
        BY <3>2, <4>1, <4>2
    <3>8. QED
      BY <2>1, <3>4, <3>5, <3>6, <3>7 DEF NothingAhead, RecordedWithinLimits
  <2>7. QED
    BY <1>1, <2>1, <2>4, <2>5, <2>6 DEF InsertTransaction, LimitInv, total
<1>4. ASSUME NEW t \in Threads, ThreadStep(t) \/ LedgerFails(t) \/ AnswerEscapes(t),
             ~RecordTransaction(t)
      PROVE  LimitInv'
  <2>1. Checked(t)' /\ UNCHANGED <<spentOn, spentWithin, day>>
    BY <1>4, CheckSteps
  <2>2. QED
    BY <1>1, <2>1 DEF LimitInv, NothingAhead, RecordedWithinLimits
<1>5. ASSUME NEW t \in Threads, NEW r \in Requests, Receive(t, r) \/ Conflict(t, r)
      PROVE  LimitInv'
  <2>1. /\ UNCHANGED <<spentOn, spentWithin, day, cleanup, today>> /\ pc[t] = "idle"
        /\ pc'[t] \in {"received", "log_reject"}
    BY <1>2, <1>5 DEF Receive, Conflict, Begin, MayStart, At, Goto, ledger
  <2>2. Checked(t)'
    BY <2>1 DEF LimitInv, Checked, Committed, Sending
  <2>3. QED
    BY <1>1, <2>1, <2>2 DEF LimitInv, NothingAhead, RecordedWithinLimits
<1>6. CASE Crash
  <2>1. \A t \in Threads : Checked(t)'
    BY <1>6 DEF Crash, Checked, Committed, Sending
  <2>2. QED
    BY <1>1, <1>6, <2>1 DEF Crash, LimitInv, NothingAhead, RecordedWithinLimits, ledger
<1>7. CASE NextDay
  <2>1. day' = day + 1 /\ UNCHANGED <<spentOn, spentWithin, pc, req, today, cleanup>>
    BY <1>7 DEF NextDay, ledger, threads, locals
  <2>2. ASSUME NEW t \in Threads PROVE Checked(t)'
    <3>1. Checked(t) /\ today[t] \in Nat /\ day \in Nat
      BY <1>2 DEF LimitInv
    <3>2. QED
      BY <2>1, <3>1 DEF Checked, Committed, FitsDay, FitsWindow
  <2>3. NothingAhead'
    BY <1>2, <2>1 DEF LimitInv, NothingAhead
  <2>4. QED
    BY <1>1, <2>1, <2>2, <2>3 DEF LimitInv, RecordedWithinLimits
<1>8. CASE UNCHANGED <<spentOn, spentWithin, day, threads>>
  BY <1>1, <1>8
     DEF LimitInv, NothingAhead, RecordedWithinLimits, Checked, Committed, FitsDay, FitsWindow,
         threads, locals
<1>9. QED
  BY <1>3, <1>4, <1>5, <1>6, <1>7, <1>8 DEF Next, vars, Replay, UnlockExpires, Propose, InsertRequest, ledger

\* One worker thread keeps the daily limit and that of every weekly window, although
\* the day may change between the checks and the record, and whatever fails or crashes:
\* what is recorded on a later day finds that day and the rest of its windows emptier.
THEOREM OneWorkerKeepsLimits ==
  ASSUME \A t, u \in Threads : t = u
  PROVE  Spec => []RecordedWithinLimits
<1>1. Init => LimitInv
  <2> SUFFICES ASSUME Init PROVE LimitInv
    OBVIOUS
  <2>1. \A d \in Days : spentOn[d] = 0 /\ spentWithin[d] = 0
    BY DEF Init
  <2>2. NothingAhead /\ RecordedWithinLimits
    BY <2>1, LimitsAssumption DEF NothingAhead, RecordedWithinLimits
  <2>3. \A t \in Threads : Checked(t)
    BY DEF Init, Checked, Committed, Sending
  <2>4. QED
    BY <2>2, <2>3, InitTypeInv DEF LimitInv
<1>2. LimitInv /\ [Next]_vars => LimitInv'
  BY NextLimitInv
<1>3. LimitInv => RecordedWithinLimits
  BY DEF LimitInv
<1>4. QED
  BY <1>1, <1>2, <1>3, PTL DEF Spec
-----------------------------------------------------------------------------
(***************************************************************************)
(* As long as no two requests for one spend request, or with one key, are  *)
(* handled at the same time, the governor implements the spend lifecycle   *)
(* and pays at most once, whatever crashes, ledger writes and wallet       *)
(* answers are lost on the way, and for any number of threads and requests.*)
(***************************************************************************)
\* No two threads at work are at the same spend request.
Alone == \A t, u \in Threads :
  t # u /\ pc[t] # "idle" /\ pc[u] # "idle" /\ req[t].spend \in Spends
    => req[u].spend # req[t].spend

\* What a thread may rely on at each step: the status it read is still there,
\* and once it marked the request sending nobody else pays for it.
Stage(t) ==
  LET s == req[t].spend
  IN /\ pc[t] = "read_txs" /\ seen[t] # "absent" => status[s] = seen[t]
     /\ pc[t] = "rejecting" => status[s] = seen[t] /\ seen[t] \in {"proposed", "approved", "sending"}
     /\ pc[t] \in {"consult", "daily", "weekly", "approve"} =>
          status[s] = seen[t] /\ seen[t] \in {"proposed", "approved"}
     /\ pc[t] = "start" => status[s] = "approved"
     /\ pc[t] \in {"log_start", "unlock", "send"} => status[s] = "sending" /\ broadcasts[s] = 0
     /\ pc[t] = "failing" => status[s] \in {"proposed", "approved", "sending"}
     /\ pc[t] \in {"locking", "log_lock", "record", "insert", "complete"} /\ cleanup[t] = "record" =>
          status[s] = "sending" /\ broadcasts[s] = 1
     /\ pc[t] \in {"record", "insert", "complete"} => cleanup[t] = "record"
     /\ cleanup[t] = "record" =>
          pc[t] \in {"send", "locking", "log_lock", "record", "insert", "complete", "log_sent"}

\* A payment is made once, and only of a request that reached sending.
PaidWhileSending == \A s \in Spends :
  /\ broadcasts[s] <= 1
  /\ broadcasts[s] = 1 => status[s] \in {"sending", "sent", "failed"}

PayInv == TypeInv /\ Alone /\ (\A t \in Threads : Stage(t)) /\ PaidWhileSending

-----------------------------------------------------------------------------
(* What the step of one thread leaves alone.                                 *)

\* Every other thread stays where it is.
Frame(t) == \A u \in Threads \ {t} :
  pc'[u] = pc[u] /\ req'[u] = req[u] /\ seen'[u] = seen[u] /\ cleanup'[u] = cleanup[u]

\* Every other spend request stays as it is.
Elsewhere(t) == \A s \in Spends :
  s # req[t].spend => status'[s] = status[s] /\ broadcasts'[s] = broadcasts[s]

\* A step of a thread that is at work, on its own request.
Local(t) ==
  /\ pc[t] # "idle" /\ (pc'[t] = "idle" \/ req'[t] = req[t])
  /\ Frame(t) /\ Elsewhere(t)

LEMMA OtherStages ==
  ASSUME TypeInv, Alone, NEW t \in Threads, NEW u \in Threads \ {t}, Local(t), Stage(u)
  PROVE  Stage(u)'
<1>1. pc[u] \in SpendSteps \/ (pc[u] = "read_txs" /\ seen[u] # "absent") =>
        req[u].spend \in Spends /\ req[u].spend # req[t].spend
  BY DEF TypeInv, Working, Alone, Local, SpendSteps
<1>2. pc[u] \in Steps
  BY DEF TypeInv, TypeOK, ServiceTypeOK
<1>3. QED
  BY <1>1, <1>2 DEF Local, Frame, Elsewhere, Stage, SpendSteps, Steps, LedgerSteps, WalletSteps

LEMMA StillAlone ==
  ASSUME Alone, NEW t \in Threads, Local(t)
  PROVE  Alone'
BY DEF Alone, Local, Frame

-----------------------------------------------------------------------------
(* The invariant.                                                            *)

LEMMA InitPayInv == Init => PayInv
<1> SUFFICES ASSUME Init PROVE PayInv
  OBVIOUS
<1>1. TypeInv
  BY InitTypeInv
<1>2. QED
  BY <1>1 DEF Init, PayInv, Alone, Stage, PaidWhileSending

\* What the steps of a thread rely on.
LEMMA Known ==
  ASSUME PayInv, NEW t \in Threads
  PROVE  /\ pc[t] \in Steps
         /\ pc[t] \in SpendSteps => req[t].spend \in Spends
         /\ pc[t] = "read_txs" /\ seen[t] # "absent" => req[t].spend \in Spends
         /\ status \in [Spends -> Statuses] /\ broadcasts \in [Spends -> 0 .. MaxBroadcasts]
         /\ pc \in [Threads -> Steps] /\ req \in [Threads -> Requests \cup {None}]
         /\ seen \in [Threads -> Statuses]
         /\ cleanup \in [Threads -> {"no", "record", "return", "raise"}]
         /\ \A s \in Spends : status[s] \in {"proposed", "approved"} => broadcasts[s] = 0
BY LimitsAssumption
   DEF PayInv, TypeInv, TypeOK, LedgerTypeOK, ServiceTypeOK, WalletTypeOK, Working, PaidWhileSending

LEMMA ThreadSteps ==
  ASSUME PayInv, NEW t \in Threads, ThreadStep(t) \/ LedgerFails(t) \/ AnswerEscapes(t)
  PROVE  Local(t) /\ Stage(t)' /\ PaidWhileSending'
<1> DEFINE Goal == Local(t) /\ Stage(t)' /\ PaidWhileSending'
<1> USE Known DEF At, Goto, ledger, locals, threads, wallet, paid
<1>1. ASSUME LogReceived(t) PROVE Goal
  <2> USE <1>1 DEF LogReceived, LogStep, Audit
  <2>1. Local(t)
    BY DEF Local, Frame, Elsewhere, SpendSteps, Steps, LedgerSteps, WalletSteps
  <2>2. Stage(t)'
    BY DEF PayInv, Stage, SpendSteps, Steps, LedgerSteps, WalletSteps
  <2>3. PaidWhileSending'
    BY DEF PayInv, PaidWhileSending, Stage, SpendSteps, Steps, LedgerSteps, WalletSteps
  <2>4. QED
    BY <2>1, <2>2, <2>3
<1>2. ASSUME LogValidating(t) PROVE Goal
  <2> USE <1>2 DEF LogValidating, LogStep, Audit
  <2>1. Local(t)
    BY DEF Local, Frame, Elsewhere, SpendSteps, Steps, LedgerSteps, WalletSteps
  <2>2. Stage(t)'
    BY DEF PayInv, Stage, SpendSteps, Steps, LedgerSteps, WalletSteps
  <2>3. PaidWhileSending'
    BY DEF PayInv, PaidWhileSending, Stage, SpendSteps, Steps, LedgerSteps, WalletSteps
  <2>4. QED
    BY <2>1, <2>2, <2>3
<1>3. ASSUME LogSendStarted(t) PROVE Goal
  <2> USE <1>3 DEF LogSendStarted, LogStep, Audit
  <2>1. Local(t)
    BY DEF Local, Frame, Elsewhere, SpendSteps, Steps, LedgerSteps, WalletSteps
  <2>2. Stage(t)'
    BY DEF PayInv, Stage, SpendSteps, Steps, LedgerSteps, WalletSteps
  <2>3. PaidWhileSending'
    BY DEF PayInv, PaidWhileSending, Stage, SpendSteps, Steps, LedgerSteps, WalletSteps
  <2>4. QED
    BY <2>1, <2>2, <2>3
<1>4. ASSUME ReadRequest(t) PROVE Goal
  <2> USE <1>4 DEF ReadRequest
  <2>1. Local(t)
    BY DEF Local, Frame, Elsewhere, SpendSteps, Steps, LedgerSteps, WalletSteps
  <2>2. Stage(t)'
    BY DEF PayInv, Stage, SpendSteps, Steps, LedgerSteps, WalletSteps
  <2>3. PaidWhileSending'
    BY DEF PayInv, PaidWhileSending, Stage, SpendSteps, Steps, LedgerSteps, WalletSteps
  <2>4. QED
    BY <2>1, <2>2, <2>3
<1>5. ASSUME Validate(t) PROVE Goal
  <2> USE <1>5 DEF Validate, Refuse, Refusal, RejectStep, TerminalStatuses, EligibleStatuses, Statuses
  <2>1. Local(t)
    BY DEF Local, Frame, Elsewhere, SpendSteps, Steps, LedgerSteps, WalletSteps
  <2>2. Stage(t)'
    BY DEF PayInv, Stage, SpendSteps, Steps, LedgerSteps, WalletSteps
  <2>3. PaidWhileSending'
    BY DEF PayInv, PaidWhileSending, Stage, SpendSteps, Steps, LedgerSteps, WalletSteps
  <2>4. QED
    BY <2>1, <2>2, <2>3
<1>6. ASSUME Consult(t) PROVE Goal
  <2> USE <1>6 DEF Consult, Refuse
  <2>1. Local(t)
    BY DEF Local, Frame, Elsewhere, SpendSteps, Steps, LedgerSteps, WalletSteps
  <2>2. Stage(t)'
    BY DEF PayInv, Stage, SpendSteps, Steps, LedgerSteps, WalletSteps
  <2>3. PaidWhileSending'
    BY DEF PayInv, PaidWhileSending, Stage, SpendSteps, Steps, LedgerSteps, WalletSteps
  <2>4. QED
    BY <2>1, <2>2, <2>3
<1>7. ASSUME CheckDaily(t) PROVE Goal
  <2> USE <1>7 DEF CheckDaily, Refuse
  <2>1. Local(t)
    BY DEF Local, Frame, Elsewhere, SpendSteps, Steps, LedgerSteps, WalletSteps
  <2>2. Stage(t)'
    BY DEF PayInv, Stage, SpendSteps, Steps, LedgerSteps, WalletSteps
  <2>3. PaidWhileSending'
    BY DEF PayInv, PaidWhileSending, Stage, SpendSteps, Steps, LedgerSteps, WalletSteps
  <2>4. QED
    BY <2>1, <2>2, <2>3
<1>8. ASSUME CheckWeekly(t) PROVE Goal
  <2> USE <1>8 DEF CheckWeekly, Refuse
  <2>1. Local(t)
    BY DEF Local, Frame, Elsewhere, SpendSteps, Steps, LedgerSteps, WalletSteps
  <2>2. Stage(t)'
    BY DEF PayInv, Stage, SpendSteps, Steps, LedgerSteps, WalletSteps
  <2>3. PaidWhileSending'
    BY DEF PayInv, PaidWhileSending, Stage, SpendSteps, Steps, LedgerSteps, WalletSteps
  <2>4. QED
    BY <2>1, <2>2, <2>3
<1>9. ASSUME WriteRejection(t) PROVE Goal
  <2> USE <1>9 DEF WriteRejection, WriteStatus
  <2>1. Local(t)
    BY DEF Local, Frame, Elsewhere, SpendSteps, Steps, LedgerSteps, WalletSteps
  <2>2. Stage(t)'
    BY DEF PayInv, Stage, SpendSteps, Steps, LedgerSteps, WalletSteps
  <2>3. PaidWhileSending'
    BY DEF PayInv, PaidWhileSending, Stage, SpendSteps, Steps, LedgerSteps, WalletSteps
  <2>4. QED
    BY <2>1, <2>2, <2>3
<1>10. ASSUME LogRejection(t) PROVE Goal
  <2> USE <1>10 DEF LogRejection, Audit, Return
  <2>1. Local(t)
    BY DEF Local, Frame, Elsewhere, SpendSteps, Steps, LedgerSteps, WalletSteps
  <2>2. Stage(t)'
    BY DEF PayInv, Stage, SpendSteps, Steps, LedgerSteps, WalletSteps
  <2>3. PaidWhileSending'
    BY DEF PayInv, PaidWhileSending, Stage, SpendSteps, Steps, LedgerSteps, WalletSteps
  <2>4. QED
    BY <2>1, <2>2, <2>3
<1>11. ASSUME MarkApproved(t) PROVE Goal
  <2> USE <1>11 DEF MarkApproved, MarkStatus, WriteStatus
  <2>1. Local(t)
    BY DEF Local, Frame, Elsewhere, SpendSteps, Steps, LedgerSteps, WalletSteps
  <2>2. Stage(t)'
    BY DEF PayInv, Stage, SpendSteps, Steps, LedgerSteps, WalletSteps
  <2>3. PaidWhileSending'
    BY DEF PayInv, PaidWhileSending, Stage, SpendSteps, Steps, LedgerSteps, WalletSteps
  <2>4. QED
    BY <2>1, <2>2, <2>3
<1>12. ASSUME MarkSending(t) PROVE Goal
  <2> USE <1>12 DEF MarkSending, MarkStatus, WriteStatus
  <2>1. Local(t)
    BY DEF Local, Frame, Elsewhere, SpendSteps, Steps, LedgerSteps, WalletSteps
  <2>2. Stage(t)'
    BY DEF PayInv, Stage, SpendSteps, Steps, LedgerSteps, WalletSteps
  <2>3. PaidWhileSending'
    BY DEF PayInv, PaidWhileSending, Stage, SpendSteps, Steps, LedgerSteps, WalletSteps
  <2>4. QED
    BY <2>1, <2>2, <2>3
<1>13. ASSUME Unlock(t) PROVE Goal
  <2> USE <1>13 DEF Unlock, Refuse
  <2>1. Local(t)
    BY DEF Local, Frame, Elsewhere, SpendSteps, Steps, LedgerSteps, WalletSteps
  <2>2. Stage(t)'
    BY DEF PayInv, Stage, SpendSteps, Steps, LedgerSteps, WalletSteps
  <2>3. PaidWhileSending'
    BY DEF PayInv, PaidWhileSending, Stage, SpendSteps, Steps, LedgerSteps, WalletSteps
  <2>4. QED
    BY <2>1, <2>2, <2>3
<1>14. ASSUME SendToAddress(t) PROVE Goal
  <2> USE <1>14 DEF SendToAddress, SendFails, SendEscapes, Refuse, Broadcast
  <2>1. Local(t)
    BY DEF Local, Frame, Elsewhere, SpendSteps, Steps, LedgerSteps, WalletSteps
  <2>2. Stage(t)'
    BY DEF PayInv, Stage, SpendSteps, Steps, LedgerSteps, WalletSteps
  <2>3. PaidWhileSending'
    BY DEF PayInv, PaidWhileSending, Stage, SpendSteps, Steps, LedgerSteps, WalletSteps
  <2>4. QED
    BY <2>1, <2>2, <2>3
<1>15. ASSUME StoreFailure(t) PROVE Goal
  <2> USE <1>15 DEF StoreFailure, WriteStatus
  <2>1. Local(t)
    BY DEF Local, Frame, Elsewhere, SpendSteps, Steps, LedgerSteps, WalletSteps
  <2>2. Stage(t)'
    BY DEF PayInv, Stage, SpendSteps, Steps, LedgerSteps, WalletSteps
  <2>3. PaidWhileSending'
    BY DEF PayInv, PaidWhileSending, Stage, SpendSteps, Steps, LedgerSteps, WalletSteps
  <2>4. QED
    BY <2>1, <2>2, <2>3
<1>16. ASSUME LogFailure(t) PROVE Goal
  <2> USE <1>16 DEF LogFailure, Audit, Return
  <2>1. Local(t)
    BY DEF Local, Frame, Elsewhere, SpendSteps, Steps, LedgerSteps, WalletSteps
  <2>2. Stage(t)'
    BY DEF PayInv, Stage, SpendSteps, Steps, LedgerSteps, WalletSteps
  <2>3. PaidWhileSending'
    BY DEF PayInv, PaidWhileSending, Stage, SpendSteps, Steps, LedgerSteps, WalletSteps
  <2>4. QED
    BY <2>1, <2>2, <2>3
<1>17. ASSUME Lock(t) PROVE Goal
  <2> USE <1>17 DEF Lock, AfterCleanup, Return
  <2>1. Local(t)
    BY DEF Local, Frame, Elsewhere, SpendSteps, Steps, LedgerSteps, WalletSteps
  <2>2. Stage(t)'
    BY DEF PayInv, Stage, SpendSteps, Steps, LedgerSteps, WalletSteps
  <2>3. PaidWhileSending'
    BY DEF PayInv, PaidWhileSending, Stage, SpendSteps, Steps, LedgerSteps, WalletSteps
  <2>4. QED
    BY <2>1, <2>2, <2>3
<1>18. ASSUME LogLockFailed(t) PROVE Goal
  <2> USE <1>18 DEF LogLockFailed, Audit, AfterCleanup, Return
  <2>1. Local(t)
    BY DEF Local, Frame, Elsewhere, SpendSteps, Steps, LedgerSteps, WalletSteps
  <2>2. Stage(t)'
    BY DEF PayInv, Stage, SpendSteps, Steps, LedgerSteps, WalletSteps
  <2>3. PaidWhileSending'
    BY DEF PayInv, PaidWhileSending, Stage, SpendSteps, Steps, LedgerSteps, WalletSteps
  <2>4. QED
    BY <2>1, <2>2, <2>3
<1>19. ASSUME LookUpTransaction(t) \/ RecordTransaction(t) PROVE Goal
  <2> USE <1>19 DEF LookUpTransaction, RecordTransaction, InsertTransaction
  <2>1. Local(t)
    BY DEF Local, Frame, Elsewhere, SpendSteps, Steps, LedgerSteps, WalletSteps
  <2>2. Stage(t)'
    BY DEF PayInv, Stage, SpendSteps, Steps, LedgerSteps, WalletSteps
  <2>3. PaidWhileSending'
    BY DEF PayInv, PaidWhileSending, Stage, SpendSteps, Steps, LedgerSteps, WalletSteps
  <2>4. QED
    BY <2>1, <2>2, <2>3
<1>20. ASSUME MarkSent(t) PROVE Goal
  <2> USE <1>20 DEF MarkSent, MarkStatus, WriteStatus
  <2>1. Local(t)
    BY DEF Local, Frame, Elsewhere, SpendSteps, Steps, LedgerSteps, WalletSteps
  <2>2. Stage(t)'
    BY DEF PayInv, Stage, SpendSteps, Steps, LedgerSteps, WalletSteps
  <2>3. PaidWhileSending'
    BY DEF PayInv, PaidWhileSending, Stage, SpendSteps, Steps, LedgerSteps, WalletSteps
  <2>4. QED
    BY <2>1, <2>2, <2>3
<1>21. ASSUME LogSent(t) PROVE Goal
  <2> USE <1>21 DEF LogSent, Audit, Return
  <2>1. Local(t)
    BY DEF Local, Frame, Elsewhere, SpendSteps, Steps, LedgerSteps, WalletSteps
  <2>2. Stage(t)'
    BY DEF PayInv, Stage, SpendSteps, Steps, LedgerSteps, WalletSteps
  <2>3. PaidWhileSending'
    BY DEF PayInv, PaidWhileSending, Stage, SpendSteps, Steps, LedgerSteps, WalletSteps
  <2>4. QED
    BY <2>1, <2>2, <2>3
<1>22. ASSUME LedgerFails(t) PROVE Goal
  <2> USE <1>22 DEF LedgerFails, Return
  <2>1. Local(t)
    BY DEF Local, Frame, Elsewhere, SpendSteps, Steps, LedgerSteps, WalletSteps
  <2>2. Stage(t)'
    BY DEF PayInv, Stage, SpendSteps, Steps, LedgerSteps, WalletSteps
  <2>3. PaidWhileSending'
    BY DEF PayInv, PaidWhileSending, Stage, SpendSteps, Steps, LedgerSteps, WalletSteps
  <2>4. QED
    BY <2>1, <2>2, <2>3
<1>23. ASSUME AnswerEscapes(t) PROVE Goal
  <2> USE <1>23 DEF AnswerEscapes, Return
  <2>1. Local(t)
    BY DEF Local, Frame, Elsewhere, SpendSteps, Steps, LedgerSteps, WalletSteps
  <2>2. Stage(t)'
    BY DEF PayInv, Stage, SpendSteps, Steps, LedgerSteps, WalletSteps
  <2>3. PaidWhileSending'
    BY DEF PayInv, PaidWhileSending, Stage, SpendSteps, Steps, LedgerSteps, WalletSteps
  <2>4. QED
    BY <2>1, <2>2, <2>3
<1>24. QED
  BY <1>1, <1>2, <1>3, <1>4, <1>5, <1>6, <1>7, <1>8, <1>9, <1>10, <1>11, <1>12,
     <1>13, <1>14, <1>15, <1>16, <1>17, <1>18, <1>19, <1>20, <1>21, <1>22, <1>23
  DEF ThreadStep

LEMMA NextPayInv == ~Overlap => (PayInv /\ [Next]_vars => PayInv')
<1> SUFFICES ASSUME ~Overlap, PayInv, [Next]_vars PROVE PayInv'
  OBVIOUS
<1>0. TypeInv'
  BY NextTypeInv DEF PayInv
<1>1. ASSUME NEW t \in Threads, ThreadStep(t) \/ LedgerFails(t) \/ AnswerEscapes(t) PROVE PayInv'
  <2>1. Local(t) /\ Stage(t)' /\ PaidWhileSending'
    BY <1>1, ThreadSteps
  <2>2. ASSUME NEW u \in Threads \ {t} PROVE Stage(u)'
    BY <2>1, OtherStages DEF PayInv
  <2>3. Alone'
    BY <2>1, StillAlone DEF PayInv
  <2>4. QED
    BY <1>0, <2>1, <2>2, <2>3 DEF PayInv
<1>2. ASSUME NEW t \in Threads, NEW r \in Requests, Receive(t, r) \/ Conflict(t, r)
      PROVE  PayInv'
  <2>1. MayStart(t, r) /\ UNCHANGED <<ledger, seen, cleanup, broadcasts>>
        /\ \E step \in {"received", "log_reject"} : Goto(t, step) /\ req' = [req EXCEPT ![t] = r]
    BY <1>2 DEF Receive, Conflict, Begin, wallet, paid
  <2> USE <2>1, Known DEF MayStart, At, Goto, ledger
  <2>2. Alone'
    <3>1. \A u \in Threads \ {t} : pc[u] # "idle" => req[u] \in Requests /\ ~Shares(req[u], r)
      BY DEF PayInv, TypeInv, Working
    <3>2. \A u \in Threads \ {t} : pc[u] # "idle" =>
            (req[u].spend \in Spends \/ r.spend \in Spends => req[u].spend # r.spend)
      BY <3>1, RequestsAssumption DEF Shares
    <3>3. QED
      BY <3>2 DEF PayInv, Alone
  <2>3. \A u \in Threads : Stage(u)'
    BY DEF PayInv, Stage
  <2>4. PaidWhileSending'
    BY DEF PayInv, PaidWhileSending
  <2>5. QED
    BY <1>0, <2>2, <2>3, <2>4 DEF PayInv
<1>3. ASSUME NEW s \in Spends, Propose(s) PROVE PayInv'
  <2> USE <1>3, Known DEF Propose, InsertRequest, threads, locals, wallet, paid
  <2>1. Alone'
    BY DEF PayInv, Alone
  <2>2. ASSUME NEW t \in Threads PROVE Stage(t)'
    BY DEF PayInv, Stage, SpendSteps, Steps, LedgerSteps, WalletSteps
  <2>3. PaidWhileSending'
    BY DEF PayInv, PaidWhileSending
  <2>4. QED
    BY <1>0, <2>1, <2>2, <2>3 DEF PayInv
<1>4. CASE Crash
  <2> USE <1>4 DEF Crash, ledger, wallet, paid
  <2>1. Alone'
    BY DEF Alone
  <2>2. \A t \in Threads : Stage(t)'
    BY DEF Stage
  <2>3. PaidWhileSending'
    BY DEF PayInv, PaidWhileSending
  <2>4. QED
    BY <1>0, <2>1, <2>2, <2>3 DEF PayInv
<1>5. CASE UNCHANGED <<ledger, threads, paid>>
  BY <1>0, <1>5 DEF PayInv, Alone, Stage, PaidWhileSending, ledger, threads, locals, paid
<1>6. QED
  BY <1>1, <1>2, <1>3, <1>4, <1>5
  DEF Next, vars, Replay, UnlockExpires, NextDay, wallet

-----------------------------------------------------------------------------
(* Every step is a step of the lifecycle.                                    *)

LEMMA StepOfLifecycle == PayInv /\ [Next]_vars => [Lifecycle!Next]_(Lifecycle!vars)
<1> SUFFICES ASSUME PayInv, [Next]_vars PROVE [Lifecycle!Next]_(Lifecycle!vars)
  OBVIOUS
<1> USE DEF At, Goto, ledger, locals, threads, wallet, paid, Lifecycle!vars, Lifecycle!Move
<1>1. ASSUME NEW t \in Threads, WriteRejection(t) PROVE Lifecycle!Next
  <2>1. req[t].spend \in Spends /\ status[req[t].spend] = seen[t]
        /\ seen[t] \in {"proposed", "approved", "sending"}
    BY <1>1, Known DEF WriteRejection, PayInv, Stage, SpendSteps, Steps, LedgerSteps
  <2>2. Lifecycle!Reject(req[t].spend) \/ Lifecycle!Fail(req[t].spend)
    BY <1>1, <2>1 DEF WriteRejection, WriteStatus, Lifecycle!Reject, Lifecycle!Fail
  <2>3. QED
    BY <2>1, <2>2 DEF Lifecycle!Next
<1>2. ASSUME NEW t \in Threads, MarkApproved(t) PROVE Lifecycle!Next
  <2>1. req[t].spend \in Spends /\ status[req[t].spend] \in {"proposed", "approved"}
    BY <1>2, Known DEF MarkApproved, MarkStatus, PayInv, Stage, SpendSteps, Steps, LedgerSteps
  <2>2. Lifecycle!Approve(req[t].spend)
    BY <1>2, <2>1 DEF MarkApproved, MarkStatus, WriteStatus, Lifecycle!Approve
  <2>3. QED
    BY <2>1, <2>2 DEF Lifecycle!Next
<1>3. ASSUME NEW t \in Threads, MarkSending(t) PROVE Lifecycle!Next
  <2>1. req[t].spend \in Spends /\ status[req[t].spend] = "approved"
    BY <1>3, Known DEF MarkSending, MarkStatus, PayInv, Stage, SpendSteps, Steps, LedgerSteps
  <2>2. Lifecycle!StartSending(req[t].spend)
    BY <1>3, <2>1 DEF MarkSending, MarkStatus, WriteStatus, Lifecycle!StartSending
  <2>3. QED
    BY <2>1, <2>2 DEF Lifecycle!Next
<1>4. ASSUME NEW t \in Threads, SendToAddress(t), Broadcast(req[t]) PROVE Lifecycle!Next
  <2>1. /\ req[t].spend \in Spends /\ status[req[t].spend] = "sending"
        /\ broadcasts[req[t].spend] = 0 /\ UNCHANGED status
    BY <1>4, Known DEF SendToAddress, PayInv, Stage, SpendSteps, Steps, WalletSteps
  <2>2. Lifecycle!Pay(req[t].spend)
    BY <1>4, <2>1 DEF Broadcast, Lifecycle!Pay
  <2>3. QED
    BY <2>1, <2>2 DEF Lifecycle!Next
<1>5. ASSUME NEW t \in Threads, StoreFailure(t) PROVE Lifecycle!Next
  <2>1. req[t].spend \in Spends /\ status[req[t].spend] \in {"proposed", "approved", "sending"}
    BY <1>5, Known DEF StoreFailure, PayInv, Stage, SpendSteps, Steps, LedgerSteps
  <2>2. Lifecycle!Fail(req[t].spend)
    BY <1>5, <2>1 DEF StoreFailure, WriteStatus, Lifecycle!Fail
  <2>3. QED
    BY <2>1, <2>2 DEF Lifecycle!Next
<1>6. ASSUME NEW t \in Threads, MarkSent(t) PROVE Lifecycle!Next
  <2>1. /\ req[t].spend \in Spends /\ status[req[t].spend] = "sending"
        /\ broadcasts[req[t].spend] = 1
    BY <1>6, Known DEF MarkSent, MarkStatus, PayInv, Stage, SpendSteps, Steps, LedgerSteps
  <2>2. Lifecycle!Complete(req[t].spend)
    BY <1>6, <2>1 DEF MarkSent, MarkStatus, WriteStatus, Lifecycle!Complete
  <2>3. QED
    BY <2>1, <2>2 DEF Lifecycle!Next
<1>7. ASSUME NEW s \in Spends, Propose(s) PROVE Lifecycle!Next
  BY <1>7 DEF Propose, InsertRequest, Lifecycle!Propose, Lifecycle!Next
<1>8. CASE UNCHANGED <<status, broadcasts>>
  BY <1>8
<1>9. ASSUME NEW t \in Threads, ThreadStep(t) \/ LedgerFails(t) \/ AnswerEscapes(t)
      PROVE  \/ WriteRejection(t) \/ MarkApproved(t) \/ MarkSending(t) \/ StoreFailure(t)
             \/ MarkSent(t) \/ (SendToAddress(t) /\ Broadcast(req[t]))
             \/ UNCHANGED <<status, broadcasts>>
  <2>1. CASE LogReceived(t) \/ LogValidating(t) \/ LogSendStarted(t) \/ LogRejection(t)
             \/ LogFailure(t) \/ LogLockFailed(t) \/ LogSent(t)
    BY <2>1 DEF LogReceived, LogValidating, LogSendStarted, LogStep, LogRejection, LogFailure,
                LogLockFailed, LogSent, Audit
  <2>2. CASE ReadRequest(t) \/ Validate(t) \/ Consult(t) \/ CheckDaily(t) \/ CheckWeekly(t)
             \/ Unlock(t) \/ Lock(t) \/ LedgerFails(t) \/ AnswerEscapes(t)
    BY <2>2 DEF ReadRequest, Validate, Consult, CheckDaily, CheckWeekly, Unlock, Lock, LedgerFails,
                AnswerEscapes
  <2>3. CASE SendToAddress(t)
    BY <2>3 DEF SendToAddress
  <2>4. CASE LookUpTransaction(t) \/ RecordTransaction(t)
    BY <2>4 DEF LookUpTransaction, RecordTransaction, InsertTransaction
  <2>5. QED
    BY <1>9, <2>1, <2>2, <2>3, <2>4 DEF ThreadStep
<1>10. ASSUME NEW t \in Threads, NEW r \in Requests, Receive(t, r) \/ Conflict(t, r) \/ Replay(t, r)
       PROVE  UNCHANGED <<status, broadcasts>>
  BY <1>10 DEF Receive, Conflict, Replay, Begin, vars
<1>11. CASE Crash \/ UnlockExpires \/ NextDay \/ UNCHANGED vars
  BY <1>8, <1>11 DEF Crash, UnlockExpires, NextDay, vars
<1>12. QED
  BY <1>1, <1>2, <1>3, <1>4, <1>5, <1>6, <1>7, <1>8, <1>9, <1>10, <1>11 DEF Next

-----------------------------------------------------------------------------
LEMMA PayInvariant == ASSUME ~Overlap PROVE Spec => []PayInv
<1>1. PayInv /\ [Next]_vars => PayInv'
  BY NextPayInv
<1>2. QED
  BY <1>1, InitPayInv, PTL DEF Spec

\* A payment for a spend request leaves the wallet at most once, for any number
\* of threads and requests and every combination of crashes, failed ledger
\* writes and wallet errors: capped_send writes "sending" before it calls
\* send_to_address and refuses a request that is neither proposed nor approved.
THEOREM PaysOnce == ASSUME ~Overlap PROVE Spec => []AtMostOneBroadcast
<1>1. PayInv => AtMostOneBroadcast
  BY DEF PayInv, PaidWhileSending, AtMostOneBroadcast
<1>2. QED
  BY <1>1, PayInvariant, PTL

\* The governor implements the spend lifecycle: its status writes and payments
\* follow proposed, approved, sending, sent, or end in rejected or failed.
THEOREM ImplementsLifecycle == ASSUME ~Overlap PROVE Spec => RefinesLifecycle
<1>1. Init => Lifecycle!Init
  BY DEF Init, Lifecycle!Init
<1>2. PayInv /\ [Next]_vars => [Lifecycle!Next]_(Lifecycle!vars)
  BY StepOfLifecycle
<1>3. QED
  BY <1>1, <1>2, PayInvariant, PTL DEF Spec, RefinesLifecycle, Lifecycle!Spec

-----------------------------------------------------------------------------
(* What is refused is unpaid.  Without crashes and lost writes a request in  *)
(* sending has the thread that put it there, so no other thread can find it  *)
(* in sending and write failed over a payment.                               *)

Paying == {"log_start", "unlock", "send", "failing", "locking", "log_lock", "record", "insert", "complete"}

\* What a thread knows of its request when it is about to write, or has written,
\* that it failed.
Mine(t) ==
  LET s == req[t].spend
  IN /\ pc[t] \in {"read_txs", "rejecting"} => seen[t] # "sending"
     /\ pc[t] = "failing" => broadcasts[s] = 0
     /\ pc[t] = "log_fail" => status[s] = "failed"
     /\ pc[t] \in {"locking", "log_lock"} /\ cleanup[t] = "return" => status[s] = "failed"
     /\ pc[t] = "send" => cleanup[t] # "return"
     /\ cleanup[t] # "raise"

Attended(s) == status[s] = "sending" => \E t \in Threads : pc[t] \in Paying /\ req[t].spend = s

Unpaid(s) == status[s] \in {"rejected", "failed"} => broadcasts[s] = 0

RefusedInv ==
  /\ PayInv /\ \A t \in Threads : Mine(t)
  /\ \A s \in Spends : Attended(s) /\ Unpaid(s)

\* A thread at work that has not marked its request knows it is not in sending.
LEMMA NotSending ==
  ASSUME RefusedInv, NEW t \in Threads, pc[t] \notin Paying \cup {"idle"}, req[t].spend \in Spends
  PROVE  status[req[t].spend] # "sending"
BY DEF RefusedInv, Attended, PayInv, Alone, Paying

\* A step of one thread concerns the others only through its spend request.
LEMMA OwnRequestOnly ==
  ASSUME RefusedInv, PayInv', NEW t \in Threads, Local(t), Mine(t)',
         NEW s, s = req[t].spend, s \in Spends => Attended(s)' /\ Unpaid(s)'
  PROVE  RefusedInv'
<1>1. ASSUME NEW u \in Threads PROVE Mine(u)'
  <2>1. CASE u = t
    BY <2>1
  <2>2. CASE u # t
    <3>1. pc'[u] = pc[u] /\ req'[u] = req[u] /\ seen'[u] = seen[u] /\ cleanup'[u] = cleanup[u]
      BY <2>2 DEF Local, Frame
    <3>2. pc[u] \in {"failing", "log_fail", "locking", "log_lock"} =>
            req[u].spend \in Spends /\ req[u].spend # req[t].spend
      BY <2>2, Known DEF RefusedInv, PayInv, Alone, Local, SpendSteps, Steps, LedgerSteps, WalletSteps
    <3>3. QED
      BY <3>1, <3>2 DEF RefusedInv, Mine, Local, Elsewhere
  <2>3. QED
    BY <2>1, <2>2
<1>2. ASSUME NEW v \in Spends PROVE Attended(v)' /\ Unpaid(v)'
  <2>1. CASE v = s
    BY <2>1
  <2>2. CASE v # s
    <3>1. status'[v] = status[v] /\ broadcasts'[v] = broadcasts[v]
      BY <2>2 DEF Local, Elsewhere
    <3>2. Unpaid(v)'
      BY <3>1 DEF RefusedInv, Unpaid
    <3>3. Attended(v)'
      BY <2>2, <3>1 DEF RefusedInv, Attended, Local, Frame
    <3>4. QED
      BY <3>2, <3>3
  <2>3. QED
    BY <2>1, <2>2
<1>3. QED
  BY <1>1, <1>2 DEF RefusedInv

LEMMA RefusedThreadSteps ==
  ASSUME Faults \subseteq {"wallet"}, RefusedInv, PayInv', NEW t \in Threads, ThreadStep(t)
  PROVE  RefusedInv'
<1>1. Local(t)
  BY ThreadSteps DEF RefusedInv
<1>2. SUFFICES ASSUME NEW s, s = req[t].spend
               PROVE  Mine(t)' /\ (s \in Spends => Attended(s)' /\ Unpaid(s)')
  BY <1>1, OwnRequestOnly
<1> DEFINE Goal == Mine(t)' /\ (s \in Spends => Attended(s)' /\ Unpaid(s)')
<1>3. PayInv /\ Mine(t) /\ (s \in Spends => Attended(s) /\ Unpaid(s))
  BY DEF RefusedInv
<1>4. Stage(t)
  BY DEF RefusedInv, PayInv
<1>0. /\ pc[t] \in Steps /\ (pc[t] \in SpendSteps => s \in Spends)
      /\ status \in [Spends -> Statuses]
      /\ pc \in [Threads -> Steps] /\ req \in [Threads -> Requests \cup {None}]
      /\ seen \in [Threads -> Statuses]
      /\ cleanup \in [Threads -> {"no", "record", "return", "raise"}]
      /\ \A u \in Spends : status[u] \in {"proposed", "approved"} => broadcasts[u] = 0
  BY <1>2, <1>3, Known
<1> USE <1>2, <1>0 DEF At, Goto, ledger, locals, threads, wallet, paid
\* A thread not yet on its way to the wallet that writes no status.
<1>5. ASSUME pc[t] \notin Paying, pc[t] # "idle", UNCHANGED <<status, broadcasts>>
      PROVE  s \in Spends => Attended(s)' /\ Unpaid(s)'
  BY <1>3, <1>5, NotSending DEF Attended, Unpaid
\* A thread that stays on its way to the wallet and back.
<1>6. ASSUME pc'[t] \in Paying, req' = req
      PROVE  s \in Spends => Attended(s)'
  BY <1>6 DEF Attended
<1>7. CASE LogReceived(t) \/ LogValidating(t)
  <2>1. /\ UNCHANGED <<status, broadcasts, cleanup>> /\ pc[t] \notin Paying /\ pc[t] # "idle"
        /\ pc'[t] \in {"validating", "read_request"}
    BY <1>7, <1>3 DEF LogReceived, LogValidating, LogStep, Audit, Paying
  <2>2. QED
    BY <1>3, <1>5, <2>1 DEF Mine
<1>8. CASE ReadRequest(t)
  <2>1. /\ UNCHANGED <<status, broadcasts, cleanup>> /\ pc[t] = "read_request" /\ pc'[t] = "read_txs"
        /\ seen'[t] = IF s = None THEN "absent" ELSE status[s]
    BY <1>8, <1>3 DEF ReadRequest
  <2>2. s # None => s \in Spends
    BY <2>1, <1>3, RequestsAssumption DEF PayInv, TypeInv, Working
  <2>3. seen'[t] # "sending"
    BY <2>1, <2>2, NotSending DEF Paying
  <2>4. QED
    BY <1>3, <1>5, <2>1, <2>3 DEF Mine, Paying
<1>9. CASE Validate(t) \/ Consult(t) \/ CheckDaily(t) \/ CheckWeekly(t)
  <2>1. /\ UNCHANGED <<status, broadcasts, cleanup, seen, req>> /\ pc[t] \notin Paying /\ pc[t] # "idle"
        /\ pc'[t] \in {"consult", "daily", "weekly", "approve", "rejecting", "log_reject", "failing"}
        /\ pc'[t] = "failing" => pc[t] = "consult"
        /\ pc'[t] = "rejecting" => pc[t] \in {"read_txs", "consult", "daily", "weekly"}
    BY <1>9, <1>3
       DEF Validate, Consult, CheckDaily, CheckWeekly, Refuse, RejectStep, Paying
  <2>2. pc[t] = "consult" => broadcasts[s] = 0
    BY <1>3, <1>4 DEF Stage, SpendSteps, Steps, LedgerSteps, WalletSteps
  <2>3. pc[t] \in {"consult", "daily", "weekly"} => seen[t] # "sending"
    BY <1>4 DEF Stage
  <2>4. Mine(t)'
    BY <1>3, <2>1, <2>2, <2>3 DEF Mine
  <2>5. QED
    BY <1>5, <2>1, <2>4
<1>10. CASE WriteRejection(t)
  <2>1. /\ s \in Spends /\ status[s] \in {"proposed", "approved"} /\ pc[t] = "rejecting"
        /\ UNCHANGED <<broadcasts, cleanup>> /\ pc'[t] = "log_reject"
        /\ status'[s] = "rejected"
    BY <1>3, <1>4, <1>10
       DEF WriteRejection, WriteStatus, Stage, Mine, SpendSteps, Steps, LedgerSteps
  <2>2. QED
    BY <1>3, <2>1 DEF Mine, Attended, Unpaid
<1>11. CASE LogRejection(t) \/ LogSent(t)
  <2>1. /\ UNCHANGED <<status, broadcasts>> /\ pc[t] \notin Paying /\ pc[t] # "idle"
        /\ pc'[t] = "idle" /\ cleanup'[t] = "no"
    BY <1>11 DEF LogRejection, LogSent, Audit, Return, Paying
  <2>2. QED
    BY <1>5, <2>1 DEF Mine
<1>12. CASE MarkApproved(t)
  <2>1. /\ s \in Spends /\ status[s] \in {"proposed", "approved"} /\ UNCHANGED <<broadcasts, cleanup>>
        /\ pc'[t] = "start" /\ status'[s] = "approved"
    BY <1>4, <1>12
       DEF MarkApproved, MarkStatus, WriteStatus, Stage, SpendSteps, Steps, LedgerSteps
  <2>2. QED
    BY <1>3, <2>1 DEF Mine, Attended, Unpaid
<1>13. CASE MarkSending(t)
  <2>1. /\ s \in Spends /\ UNCHANGED <<broadcasts, cleanup, req>>
        /\ pc'[t] = "log_start" /\ status'[s] = "sending"
    BY <1>13 DEF MarkSending, MarkStatus, WriteStatus, SpendSteps, Steps, LedgerSteps
  <2>2. QED
    BY <1>3, <1>6, <2>1 DEF Mine, Unpaid, Paying
<1>14. CASE LogSendStarted(t)
  <2>1. /\ UNCHANGED <<status, broadcasts, cleanup, req>> /\ pc'[t] = "unlock"
    BY <1>14 DEF LogSendStarted, LogStep, Audit
  <2>2. QED
    BY <1>3, <1>6, <2>1 DEF Mine, Unpaid, Paying
<1>15. CASE Unlock(t)
  <2>1. /\ UNCHANGED <<status, broadcasts, req>> /\ pc'[t] \in {"send", "failing"}
        /\ cleanup'[t] \in {cleanup[t], "record"} /\ pc[t] = "unlock"
        /\ pc'[t] = "send" => cleanup'[t] = "record"
    BY <1>15 DEF Unlock, Refuse
  <2>2. broadcasts[s] = 0
    BY <2>1, <1>4 DEF Stage
  <2>3. QED
    BY <1>3, <1>6, <2>1, <2>2 DEF Mine, Unpaid, Paying
<1>16. CASE SendToAddress(t)
  <2>1. /\ UNCHANGED <<status, req>> /\ pc[t] = "send" /\ pc'[t] \in {"locking", "failing"}
        /\ pc'[t] = "failing" => UNCHANGED broadcasts
        /\ pc'[t] = "locking" => cleanup' = cleanup
        /\ cleanup'[t] \in {cleanup[t], "return"}
    BY <1>16 DEF SendToAddress, SendFails, Refuse
  <2>2. broadcasts[s] = 0 /\ status[s] = "sending" /\ cleanup[t] # "raise"
    BY <2>1, <1>3, <1>4 DEF Stage, Mine
  <2>3. Mine(t)'
    <3>1. CASE pc'[t] = "failing"
      BY <2>1, <2>2, <3>1 DEF Mine
    <3>2. CASE pc'[t] = "locking"
      <4>1. cleanup[t] # "return"
        BY <2>1, <1>3 DEF Mine
      <4>2. QED
        BY <2>1, <2>2, <3>2, <4>1 DEF Mine
    <3>3. QED
      BY <2>1, <3>1, <3>2
  <2>4. QED
    BY <1>6, <2>1, <2>2, <2>3 DEF Unpaid, Paying
<1>17. CASE StoreFailure(t)
  <2>1. /\ s \in Spends /\ pc[t] = "failing" /\ UNCHANGED <<broadcasts, cleanup, req>>
        /\ pc'[t] = "log_fail" /\ status'[s] = "failed"
    BY <1>17 DEF StoreFailure, WriteStatus, SpendSteps, Steps, LedgerSteps
  <2>2. QED
    BY <1>3, <2>1 DEF Mine, Attended, Unpaid
<1>18. CASE LogFailure(t)
  <2>1. /\ UNCHANGED <<status, broadcasts>> /\ pc[t] = "log_fail"
        /\ \/ pc'[t] = "idle" /\ cleanup'[t] = "no"
           \/ pc'[t] = "locking" /\ UNCHANGED <<cleanup, req>>
    BY <1>18 DEF LogFailure, Audit, Return
  <2>2. QED
    BY <1>3, <1>5, <2>1 DEF Mine, Paying
<1>19. CASE Lock(t) \/ LogLockFailed(t)
  <2>1. /\ UNCHANGED <<status, broadcasts>> /\ pc[t] \in {"locking", "log_lock"}
        /\ \/ pc'[t] \in {"record", "log_lock"} /\ UNCHANGED <<cleanup, req>>
           \/ pc'[t] = "idle" /\ cleanup'[t] = "no" /\ cleanup[t] \in {"return", "raise"}
    BY <1>19 DEF Lock, LogLockFailed, AfterCleanup, Audit, Return
  <2>2. CASE pc'[t] \in {"record", "log_lock"} /\ UNCHANGED <<cleanup, req>>
    BY <1>3, <1>6, <2>1, <2>2 DEF Mine, Unpaid, Paying
  <2>3. CASE pc'[t] = "idle" /\ cleanup'[t] = "no" /\ cleanup[t] \in {"return", "raise"}
    <3>1. status[s] = "failed"
      BY <1>3, <2>1, <2>3 DEF Mine
    <3>2. QED
      BY <1>3, <2>1, <2>3, <3>1 DEF Mine, Attended, Unpaid
  <2>4. QED
    BY <2>1, <2>2, <2>3
<1>20. CASE LookUpTransaction(t) \/ RecordTransaction(t)
  <2>1. /\ UNCHANGED <<status, broadcasts, cleanup, req>> /\ pc'[t] \in {"insert", "complete"}
        /\ pc[t] \in {"record", "insert"}
    BY <1>20 DEF LookUpTransaction, RecordTransaction, InsertTransaction
  <2>2. QED
    BY <1>3, <1>6, <2>1 DEF Mine, Unpaid, Paying
<1>21. CASE MarkSent(t)
  <2>1. /\ s \in Spends /\ UNCHANGED <<broadcasts, cleanup>> /\ pc'[t] = "log_sent" /\ status'[s] = "sent"
    BY <1>21 DEF MarkSent, MarkStatus, WriteStatus, SpendSteps, Steps, LedgerSteps
  <2>2. QED
    BY <1>3, <2>1 DEF Mine, Attended, Unpaid
<1>22. QED
  BY <1>7, <1>8, <1>9, <1>10, <1>11, <1>12, <1>13, <1>14, <1>15, <1>16, <1>17, <1>18, <1>19, <1>20,
     <1>21 DEF ThreadStep

LEMMA NextRefusedInv ==
  ASSUME ~Overlap, Faults \subseteq {"wallet"}, RefusedInv, [Next]_vars
  PROVE  RefusedInv'
<1>1. PayInv'
  BY NextPayInv DEF RefusedInv
<1>2. ASSUME NEW t \in Threads, ThreadStep(t) PROVE RefusedInv'
  BY <1>1, <1>2, RefusedThreadSteps
<1>3. ASSUME NEW t \in Threads, LedgerFails(t) \/ AnswerEscapes(t) PROVE RefusedInv'
  BY <1>3 DEF LedgerFails, AnswerEscapes
<1>4. ASSUME NEW t \in Threads, NEW r \in Requests, Receive(t, r) \/ Conflict(t, r)
      PROVE  RefusedInv'
  <2>1. /\ UNCHANGED <<status, broadcasts, seen, cleanup>> /\ pc[t] = "idle"
        /\ pc'[t] \in {"received", "log_reject"}
        /\ \A u \in Threads \ {t} : pc'[u] = pc[u] /\ req'[u] = req[u]
    BY <1>4, Known
       DEF RefusedInv, Receive, Conflict, MayStart, Begin, At, Goto, ledger, wallet, paid
  <2>2. \A u \in Threads : Mine(u)'
    BY <2>1 DEF RefusedInv, Mine
  <2>3. \A s \in Spends : Attended(s)' /\ Unpaid(s)'
    BY <2>1 DEF RefusedInv, Attended, Unpaid, Paying
  <2>4. QED
    BY <1>1, <2>2, <2>3 DEF RefusedInv
<1>5. ASSUME NEW s \in Spends, Propose(s) PROVE RefusedInv'
  <2>1. /\ status[s] = "absent" /\ status' = [status EXCEPT ![s] = "proposed"]
        /\ UNCHANGED <<broadcasts, pc, req, seen, cleanup>>
    BY <1>5 DEF Propose, InsertRequest, threads, locals, wallet, paid
  <2>2. status \in [Spends -> Statuses]
    BY Known DEF RefusedInv, PayInv, TypeInv, TypeOK, LedgerTypeOK
  <2>3. \A u \in Threads : Mine(u)'
    BY <2>1, <2>2, Known DEF RefusedInv, Mine, SpendSteps, Steps, LedgerSteps, WalletSteps
  <2>4. \A u \in Spends : Attended(u)' /\ Unpaid(u)'
    BY <2>1, <2>2 DEF RefusedInv, Attended, Unpaid
  <2>5. QED
    BY <1>1, <2>3, <2>4 DEF RefusedInv
<1>6. CASE Crash
  BY <1>6 DEF Crash
<1>7. CASE UNCHANGED <<status, broadcasts, pc, req, seen, cleanup>>
  BY <1>1, <1>7 DEF RefusedInv, Mine, Attended, Unpaid
<1>8. QED
  BY <1>2, <1>3, <1>4, <1>5, <1>6, <1>7
     DEF Next, vars, Replay, UnlockExpires, NextDay, ledger, threads, locals, wallet, paid

\* Without crashes, failing ledger writes and answers that are lost, a request
\* the ledger calls rejected or failed was not paid, for any number of threads,
\* whatever the wallet refuses (service.py, _update_spend_status_for_outcome and
\* _store_failure).
THEOREM RefusalsAreUnpaid ==
  ASSUME ~Overlap, Faults \subseteq {"wallet"}
  PROVE  Spec => []RefusedIsUnpaid
<1>1. Init => RefusedInv
  <2> SUFFICES ASSUME Init PROVE RefusedInv
    OBVIOUS
  <2>1. PayInv
    BY InitPayInv
  <2>2. QED
    BY <2>1 DEF Init, RefusedInv, Mine, Attended, Unpaid
<1>2. RefusedInv /\ [Next]_vars => RefusedInv'
  BY NextRefusedInv
<1>3. RefusedInv => RefusedIsUnpaid
  BY DEF RefusedInv, Unpaid, RefusedIsUnpaid
<1>4. QED
  BY <1>1, <1>2, <1>3, PTL DEF Spec

-----------------------------------------------------------------------------
(* Keys and cached answers.                                                  *)

\* No two threads at work have requests under one key.
KeysApart == \A t, u \in Threads :
  t # u /\ pc[t] # "idle" /\ pc[u] # "idle" => req[u].key # req[t].key

\* A thread that may still store an answer.
Answering(t) ==
  \/ pc[t] \notin {"idle", "log_reject", "log_fail", "locking", "log_lock"}
  \/ pc[t] = "log_reject" /\ why[t] # "idempotency_conflict"
  \/ pc[t] \in {"locking", "log_lock"} /\ cleanup[t] = "record"

\* Nothing is cached under the key of a thread that may still store an answer.
Fresh(t) == Answering(t) => cache[req[t].key] = None

\* The finally block is ahead only once the wallet was unlocked, and it ends in the
\* record of a payment only if the payment did not fail.
Finishing(t) ==
  /\ cleanup[t] # "no" =>
       pc[t] \in {"send", "failing", "log_fail", "locking", "log_lock",
                 "record", "insert", "complete", "log_sent"}
  /\ pc[t] \in {"failing", "log_fail"} => cleanup[t] # "record"

KeyInv == TypeInv /\ KeysApart /\ \A t \in Threads : Fresh(t) /\ Finishing(t)

\* A thread that takes a step goes on with its request or ends; it may become one
\* that stores an answer only if it was one, and then stores it where none was.
LEMMA KeySteps ==
  ASSUME KeyInv, NEW t \in Threads, ThreadStep(t) \/ LedgerFails(t) \/ AnswerEscapes(t)
  PROVE  /\ Finishing(t)'
         /\ pc[t] # "idle" /\ req[t] \in Requests /\ (pc'[t] = "idle" \/ req'[t] = req[t])
         /\ \A u \in Threads \ {t} :
              pc'[u] = pc[u] /\ req'[u] = req[u] /\ why'[u] = why[u] /\ cleanup'[u] = cleanup[u]
         /\ \/ cache' = cache /\ (Answering(t)' => Answering(t))
            \/ /\ Answering(t) /\ ~Answering(t)'
               /\ \E answer \in Cached :
                    answer.request = req[t] /\ cache' = [cache EXCEPT ![req[t].key] = answer]
<1> DEFINE Goal ==
      /\ Finishing(t)'
      /\ pc[t] # "idle" /\ (pc'[t] = "idle" \/ req'[t] = req[t])
      /\ \A u \in Threads \ {t} :
           pc'[u] = pc[u] /\ req'[u] = req[u] /\ why'[u] = why[u] /\ cleanup'[u] = cleanup[u]
      /\ \/ cache' = cache /\ (Answering(t)' => Answering(t))
         \/ /\ Answering(t) /\ ~Answering(t)'
            /\ \E outcome \in {"sent", "rejected", "error"} : Store(req[t], outcome)
<1>0. /\ pc \in [Threads -> Steps] /\ req \in [Threads -> Requests \cup {None}]
      /\ why \in [Threads -> Reasons]
      /\ cleanup \in [Threads -> {"no", "record", "return", "raise"}]
  BY DEF KeyInv, TypeInv, TypeOK, ServiceTypeOK
<1>a. Finishing(t)
  BY DEF KeyInv
<1> USE <1>0, <1>a DEF Finishing, At, Goto, ledger, locals, threads, wallet, paid
<1>1. ASSUME LogReceived(t) \/ LogValidating(t) \/ LogSendStarted(t) PROVE Goal
  BY <1>1 DEF LogReceived, LogValidating, LogSendStarted, LogStep, Answering
<1>2. ASSUME ReadRequest(t) \/ Validate(t) PROVE Goal
  BY <1>2 DEF ReadRequest, Validate, Refuse, RejectStep, Answering
<1>3. ASSUME Consult(t) \/ CheckDaily(t) \/ CheckWeekly(t) PROVE Goal
  BY <1>3 DEF Consult, CheckDaily, CheckWeekly, Refuse, Answering
<1>4. ASSUME WriteRejection(t) \/ MarkApproved(t) \/ MarkSending(t) \/ MarkSent(t) PROVE Goal
  BY <1>4 DEF WriteRejection, MarkApproved, MarkSending, MarkSent, MarkStatus, Answering
<1>5. ASSUME LogRejection(t) PROVE Goal
  BY <1>5 DEF LogRejection, Return, Answering
<1>6. ASSUME Unlock(t) PROVE Goal
  BY <1>6 DEF Unlock, Refuse, Answering
<1>7. ASSUME SendToAddress(t) PROVE Goal
  BY <1>7 DEF SendToAddress, SendFails, SendEscapes, Refuse, Answering
<1>8. ASSUME StoreFailure(t) PROVE Goal
  BY <1>8 DEF StoreFailure, Answering
<1>9. ASSUME LogFailure(t) PROVE Goal
  BY <1>9 DEF LogFailure, Return, Answering
<1>10. ASSUME Lock(t) \/ LogLockFailed(t) PROVE Goal
  BY <1>10 DEF Lock, LogLockFailed, AfterCleanup, Return, Answering
<1>11. ASSUME LookUpTransaction(t) \/ RecordTransaction(t) PROVE Goal
  BY <1>11 DEF LookUpTransaction, RecordTransaction, Answering
<1>12. ASSUME LogSent(t) PROVE Goal
  BY <1>12 DEF LogSent, Return, Answering
<1>13. ASSUME LedgerFails(t) PROVE Goal
  BY <1>13 DEF LedgerFails, Return, LedgerSteps, Answering
<1>14. ASSUME AnswerEscapes(t) PROVE Goal
  BY <1>14 DEF AnswerEscapes, Return, Answering
<1>15. Goal
  BY <1>1, <1>2, <1>3, <1>4, <1>5, <1>6, <1>7, <1>8, <1>9, <1>10, <1>11, <1>12, <1>13, <1>14
     DEF ThreadStep
<1>16. req[t] \in Requests
  BY <1>15 DEF KeyInv, TypeInv, Working
<1>17. ASSUME NEW outcome \in {"sent", "rejected", "error"}, Store(req[t], outcome)
       PROVE  \E answer \in Cached :
                answer.request = req[t] /\ cache' = [cache EXCEPT ![req[t].key] = answer]
  <2>1. [request |-> req[t], outcome |-> outcome] \in Cached
    BY <1>16 DEF Cached
  <2>2. QED
    BY <1>17, <2>1 DEF Store
<1>18. QED
  BY <1>15, <1>16, <1>17

LEMMA NextKeyInv ==
  ASSUME ~Overlap, KeyInv, [Next]_vars
  PROVE  /\ KeyInv'
         /\ \A k \in Keys : cache[k] # None /\ cache'[k] # None => cache'[k] = cache[k]
<1> DEFINE Stable == \A k \in Keys : cache[k] # None /\ cache'[k] # None => cache'[k] = cache[k]
<1>1. TypeInv /\ TypeInv'
  BY NextTypeInv DEF KeyInv
<1>2. /\ cache \in [Keys -> Cached \cup {None}]
      /\ pc \in [Threads -> Steps] /\ req \in [Threads -> Requests \cup {None}]
      /\ why \in [Threads -> Reasons]
  BY <1>1 DEF TypeInv, TypeOK, ServiceTypeOK
<1>3. ASSUME NEW t \in Threads, ThreadStep(t) \/ LedgerFails(t) \/ AnswerEscapes(t)
      PROVE  KeyInv' /\ Stable
  <2>1. /\ Finishing(t)'
        /\ pc[t] # "idle" /\ req[t] \in Requests /\ (pc'[t] = "idle" \/ req'[t] = req[t])
        /\ \A u \in Threads \ {t} :
             pc'[u] = pc[u] /\ req'[u] = req[u] /\ why'[u] = why[u] /\ cleanup'[u] = cleanup[u]
    BY <1>3, KeySteps
  <2>a. \A u \in Threads : Finishing(u)'
    BY <2>1 DEF KeyInv, Finishing
  <2>2. KeysApart'
    BY <2>1 DEF KeyInv, KeysApart
  <2>3. CASE cache' = cache /\ (Answering(t)' => Answering(t))
    <3>1. ASSUME NEW u \in Threads PROVE Fresh(u)'
      <4>1. CASE u = t
        BY <2>1, <2>3, <4>1 DEF KeyInv, Fresh, Answering
      <4>2. CASE u # t
        BY <2>1, <2>3, <4>2 DEF KeyInv, Fresh, Answering
      <4>3. QED
        BY <4>1, <4>2
    <3>2. QED
      BY <1>1, <2>a, <2>2, <2>3, <3>1 DEF KeyInv
  <2>4. ASSUME Answering(t), ~Answering(t)',
               NEW answer \in Cached, cache' = [cache EXCEPT ![req[t].key] = answer]
        PROVE  KeyInv' /\ Stable
    <3>1. req[t].key \in Keys /\ cache[req[t].key] = None
      BY <2>1, <2>4, RequestsAssumption DEF KeyInv, Fresh
    <3>2. Stable
      BY <1>2, <2>4, <3>1
    <3>3. ASSUME NEW u \in Threads PROVE Fresh(u)'
      <4>1. CASE u = t
        BY <2>4, <4>1 DEF Fresh
      <4>2. CASE u # t
        <5>1. Answering(u) => pc[u] # "idle"
          BY DEF Answering
        <5>2. Answering(u) => req[u].key # req[t].key /\ req[u] \in Requests
          BY <1>1, <2>1, <4>2, <5>1 DEF KeyInv, KeysApart, TypeInv, Working
        <5>3. Answering(u) => req[u].key \in Keys
          BY <5>2, RequestsAssumption
        <5>4. Answering(u) => cache'[req[u].key] = cache[req[u].key]
          BY <1>2, <2>4, <5>2, <5>3
        <5>5. QED
          BY <2>1, <4>2, <5>4 DEF KeyInv, Fresh, Answering
      <4>3. QED
        BY <4>1, <4>2
    <3>4. QED
      BY <1>1, <2>a, <2>2, <3>2, <3>3 DEF KeyInv
  <2>5. QED
    BY <1>3, <2>3, <2>4, KeySteps
<1>4. ASSUME NEW t \in Threads, NEW r \in Requests, Receive(t, r) \/ Conflict(t, r)
      PROVE  KeyInv' /\ Stable
  <2>1. /\ MayStart(t, r) /\ UNCHANGED <<cache, cleanup>>
        /\ req' = [req EXCEPT ![t] = r]
        /\ \/ Goto(t, "received") /\ cache[r.key] = None /\ why' = [why EXCEPT ![t] = "ok"]
           \/ Goto(t, "log_reject") /\ why' = [why EXCEPT ![t] = "idempotency_conflict"]
    BY <1>4 DEF Receive, Conflict, Begin
  <2>2. \A u \in Threads \ {t} : pc[u] # "idle" => req[u] \in Requests /\ req[u].key # r.key
    <3>1. \A u \in Threads \ {t} : pc[u] # "idle" => req[u] \in Requests /\ ~Shares(req[u], r)
      BY <1>1, <2>1 DEF MayStart, At, TypeInv, Working
    <3>2. QED
      BY <3>1, RequestsAssumption DEF Shares
  <2>3. KeysApart'
    BY <1>2, <2>1, <2>2 DEF KeyInv, KeysApart, Goto
  <2>4. \A u \in Threads : Fresh(u)' /\ Finishing(u)'
    BY <1>2, <2>1 DEF KeyInv, Fresh, Answering, Finishing, Goto, MayStart, At
  <2>5. QED
    BY <1>1, <2>1, <2>3, <2>4 DEF KeyInv
<1>5. CASE Crash
  BY <1>1, <1>5 DEF Crash, KeyInv, KeysApart, Fresh, Answering, Finishing
<1>6. CASE UNCHANGED <<cache, threads>>
  BY <1>1, <1>6 DEF KeyInv, KeysApart, Fresh, Answering, Finishing, threads, locals
<1>7. QED
  BY <1>3, <1>4, <1>5, <1>6 DEF Next, vars, Replay, UnlockExpires, NextDay, Propose, InsertRequest

LEMMA InitKeyInv == Init => KeyInv
<1> SUFFICES ASSUME Init PROVE KeyInv
  OBVIOUS
<1>1. TypeInv
  BY InitTypeInv
<1>2. QED
  BY <1>1 DEF Init, KeyInv, KeysApart, Fresh, Answering, Finishing

\* While the process lives a key keeps its first answer, whatever fails around it:
\* neither a conflict nor a late answer replaces it (service.py, _responses).
THEOREM FirstAnswersStay == ASSUME ~Overlap PROVE Spec => AnswersAreStable
<1> DEFINE Stable == \A k \in Keys : cache[k] # None /\ cache'[k] # None => cache'[k] = cache[k]
<1>1. KeyInv /\ [Next]_vars => KeyInv' /\ [Stable]_cache
  BY NextKeyInv DEF vars
<1>2. QED
  BY <1>1, InitKeyInv, PTL DEF Spec, AnswersAreStable

-----------------------------------------------------------------------------
(* A key pays for one spend request.                                         *)

\* A thread that has paid and will store the answer sent.
Finishes(t) ==
  \/ pc[t] \in {"record", "insert", "complete", "log_sent"}
  \/ pc[t] \in {"locking", "log_lock"} /\ cleanup[t] = "record"

\* A payment under a key is known from the answer under it, or still being finished.
PaidUnder(k, s) ==
  \/ cache[k] # None /\ cache[k].request.spend = s
  \/ \E t \in Threads : Finishes(t) /\ req[t].key = k /\ req[t].spend = s

KeyPaidInv ==
  /\ KeyInv
  /\ \A t \in Threads : pc[t] = "send" => cleanup[t] = "record"
  /\ \A s \in Spends : \A k \in payers[s] : PaidUnder(k, s)

\* A thread that has paid goes on to store its answer; one that has not may pay.
LEMMA KeyPaidSteps ==
  ASSUME Faults \subseteq {"wallet"}, KeyPaidInv, NEW t \in Threads, ThreadStep(t)
  PROVE  /\ pc'[t] = "send" => cleanup'[t] = "record"
         /\ \/ /\ payers' = payers
               /\ Finishes(t) => (Finishes(t)' /\ req' = req) \/ Store(req[t], "sent")
            \/ /\ pc[t] = "send" /\ Finishes(t)' /\ UNCHANGED <<req, cache>>
               /\ payers' = [payers EXCEPT ![req[t].spend] = @ \cup {req[t].key}]
<1> DEFINE Goal ==
      /\ pc'[t] = "send" => cleanup'[t] = "record"
      /\ \/ /\ payers' = payers
            /\ Finishes(t) => (Finishes(t)' /\ req' = req) \/ Store(req[t], "sent")
         \/ /\ pc[t] = "send" /\ Finishes(t)' /\ UNCHANGED <<req, cache>>
            /\ payers' = [payers EXCEPT ![req[t].spend] = @ \cup {req[t].key}]
<1>1. /\ pc \in [Threads -> Steps] /\ req \in [Threads -> Requests \cup {None}]
      /\ cleanup \in [Threads -> {"no", "record", "return", "raise"}]
      /\ pc[t] = "send" => cleanup[t] = "record"
  BY DEF KeyPaidInv, KeyInv, TypeInv, TypeOK, ServiceTypeOK
<1> USE <1>1 DEF At, Goto, ledger, locals, threads, wallet, paid, Finishes
<1>2. ASSUME LogReceived(t) \/ LogValidating(t) \/ LogSendStarted(t) PROVE Goal
  BY <1>2 DEF LogReceived, LogValidating, LogSendStarted, LogStep
<1>3. ASSUME ReadRequest(t) \/ Validate(t) PROVE Goal
  BY <1>3 DEF ReadRequest, Validate, Refuse, RejectStep
<1>4. ASSUME Consult(t) \/ CheckDaily(t) \/ CheckWeekly(t) PROVE Goal
  BY <1>4 DEF Consult, CheckDaily, CheckWeekly, Refuse
<1>5. ASSUME WriteRejection(t) \/ MarkApproved(t) \/ MarkSending(t) \/ MarkSent(t) PROVE Goal
  BY <1>5 DEF WriteRejection, MarkApproved, MarkSending, MarkSent, MarkStatus
<1>6. ASSUME LogRejection(t) PROVE Goal
  BY <1>6 DEF LogRejection, Return
<1>7. ASSUME Unlock(t) PROVE Goal
  BY <1>7 DEF Unlock, Refuse
<1>8. ASSUME SendToAddress(t) PROVE Goal
  BY <1>8 DEF SendToAddress, SendFails, Refuse, Broadcast
<1>9. ASSUME StoreFailure(t) PROVE Goal
  BY <1>9 DEF StoreFailure
<1>10. ASSUME LogFailure(t) PROVE Goal
  BY <1>10 DEF LogFailure, Return
<1>11. ASSUME Lock(t) \/ LogLockFailed(t) PROVE Goal
  BY <1>11 DEF Lock, LogLockFailed, AfterCleanup, Return
<1>12. ASSUME LookUpTransaction(t) \/ RecordTransaction(t) PROVE Goal
  BY <1>12 DEF LookUpTransaction, RecordTransaction
<1>13. ASSUME LogSent(t) PROVE Goal
  BY <1>13 DEF LogSent, Return
<1>14. QED
  BY <1>2, <1>3, <1>4, <1>5, <1>6, <1>7, <1>8, <1>9, <1>10, <1>11, <1>12, <1>13
     DEF ThreadStep

LEMMA NextKeyPaidInv ==
  ASSUME ~Overlap, Faults \subseteq {"wallet"}, KeyPaidInv, [Next]_vars
  PROVE  KeyPaidInv'
<1>1. KeyInv /\ KeyInv'
      /\ \A k \in Keys : cache[k] # None /\ cache'[k] # None => cache'[k] = cache[k]
  BY NextKeyInv DEF KeyPaidInv
<1>2. /\ cache \in [Keys -> Cached \cup {None}] /\ payers \in [Spends -> SUBSET Keys]
      /\ pc \in [Threads -> Steps] /\ req \in [Threads -> Requests \cup {None}]
      /\ TypeInv
  BY <1>1 DEF KeyInv, TypeInv, TypeOK, ServiceTypeOK, WalletTypeOK
<1>3. ASSUME NEW t \in Threads, ThreadStep(t)
      PROVE  KeyPaidInv'
  <2>1. /\ pc'[t] = "send" => cleanup'[t] = "record"
        /\ \/ /\ payers' = payers
              /\ Finishes(t) => (Finishes(t)' /\ req' = req) \/ Store(req[t], "sent")
           \/ /\ pc[t] = "send" /\ Finishes(t)' /\ UNCHANGED <<req, cache>>
              /\ payers' = [payers EXCEPT ![req[t].spend] = @ \cup {req[t].key}]
    BY <1>3, KeyPaidSteps
  <2>2. /\ req[t] \in Requests /\ req[t].key \in Keys
        /\ \A u \in Threads \ {t} : pc'[u] = pc[u] /\ req'[u] = req[u] /\ cleanup'[u] = cleanup[u]
        /\ \/ cache' = cache
           \/ /\ cache[req[t].key] = None
              /\ \E answer \in Cached : cache' = [cache EXCEPT ![req[t].key] = answer]
    BY <1>1, <1>3, KeySteps, RequestsAssumption DEF KeyInv, Fresh
  <2>3. ASSUME NEW k \in Keys, cache[k] # None
        PROVE  cache'[k] = cache[k]
    BY <1>2, <2>2, <2>3
  <2>4. ASSUME NEW s \in Spends, NEW k \in payers[s]
        PROVE  PaidUnder(k, s)'
    <3>1. k \in Keys /\ PaidUnder(k, s)
      BY <1>2, <2>4 DEF KeyPaidInv
    <3>2. CASE cache[k] # None /\ cache[k].request.spend = s
      BY <2>3, <3>1, <3>2 DEF PaidUnder
    <3>3. ASSUME NEW u \in Threads, Finishes(u), req[u].key = k, req[u].spend = s
          PROVE  PaidUnder(k, s)'
      <4>1. CASE u # t
        BY <2>2, <3>3, <4>1 DEF PaidUnder, Finishes
      <4>2. CASE u = t /\ Finishes(t)' /\ req' = req
        BY <3>3, <4>2 DEF PaidUnder
      <4>3. CASE u = t /\ Store(req[t], "sent")
        <5>1. cache'[k] = [request |-> req[t], outcome |-> "sent"]
          BY <1>2, <3>1, <3>3, <4>3 DEF Store
        <5>2. cache'[k] # None
          BY <5>1, <2>2, CacheAssumption DEF Cached
        <5>3. QED
          BY <3>3, <4>3, <5>1, <5>2 DEF PaidUnder
      <4>4. QED
        BY <2>1, <3>3, <4>1, <4>2, <4>3 DEF Finishes
    <3>4. QED
      BY <3>1, <3>2, <3>3 DEF PaidUnder
  <2>5. ASSUME NEW s \in Spends, NEW k \in payers'[s], k \notin payers[s]
        PROVE  PaidUnder(k, s)'
    <3>1. Finishes(t)' /\ req' = req /\ k = req[t].key /\ s = req[t].spend
      BY <1>2, <2>1, <2>5
    <3>2. QED
      BY <3>1 DEF PaidUnder
  <2>6. QED
    BY <1>1, <2>1, <2>2, <2>4, <2>5 DEF KeyPaidInv
<1>4. ASSUME NEW t \in Threads, NEW r \in Requests, Receive(t, r) \/ Conflict(t, r)
      PROVE  KeyPaidInv'
  <2>1. /\ pc[t] = "idle" /\ pc'[t] \notin {"idle", "send"}
        /\ \A u \in Threads \ {t} : pc'[u] = pc[u] /\ req'[u] = req[u]
        /\ UNCHANGED <<cache, cleanup, payers>>
    BY <1>2, <1>4 DEF Receive, Conflict, Begin, MayStart, At, Goto, wallet, paid
  <2>2. \A u \in Threads : Finishes(u) => Finishes(u)' /\ req'[u] = req[u]
    BY <2>1 DEF Finishes
  <2>3. QED
    BY <1>1, <2>1, <2>2 DEF KeyPaidInv, PaidUnder
<1>5. ASSUME UNCHANGED <<cache, threads, paid>>
      PROVE  KeyPaidInv'
  BY <1>1, <1>5 DEF KeyPaidInv, PaidUnder, Finishes, threads, locals, paid
<1>6. QED
  BY <1>3, <1>4, <1>5
     DEF Next, vars, wallet, Replay, UnlockExpires, NextDay, Propose, InsertRequest, Crash, LedgerFails, AnswerEscapes

LEMMA KeyPaidApart == KeyPaidInv => KeyPaysOnce
<1> SUFFICES ASSUME KeyPaidInv, NEW s \in Spends, NEW u \in Spends, s # u,
                    NEW k \in payers[s] \cap payers[u]
             PROVE  FALSE
  BY DEF KeyPaysOnce
<1>1. PaidUnder(k, s) /\ PaidUnder(k, u)
  BY DEF KeyPaidInv
<1>2. ASSUME NEW t \in Threads, Finishes(t), req[t].key = k
      PROVE  pc[t] # "idle" /\ cache[k] = None
  BY <1>2 DEF KeyPaidInv, KeyInv, Fresh, Finishes, Answering
<1>3. QED
  BY <1>1, <1>2 DEF PaidUnder, KeyPaidInv, KeyInv, KeysApart

\* When nothing fails but the wallet, no key pays for two spend requests, whatever
\* bodies are posted under it: the answer that the payment leaves in the cache turns
\* later ones into conflicts (service.py:284).
THEOREM KeysPayOnce ==
  ASSUME ~Overlap, Faults \subseteq {"wallet"}
  PROVE  Spec => []KeyPaysOnce
<1>1. Init => KeyPaidInv
  BY InitKeyInv DEF Init, KeyPaidInv
<1>2. KeyPaidInv /\ [Next]_vars => KeyPaidInv'
  BY NextKeyPaidInv
<1>3. QED
  BY <1>1, <1>2, KeyPaidApart, PTL DEF Spec

-----------------------------------------------------------------------------
(* What the ledger and the cache say of a payment is true, through every     *)
(* fault, if a key is used for one spend request.                            *)

RowOf(r) == [key |-> r.key, spend |-> r.spend]

\* A row is of a payment, and under the key of a request for it.
RowsArePaid == \A x \in txs :
  /\ broadcasts[x.spend] = 1
  /\ \E r \in Requests : x = RowOf(r)

RowsHaveEvents == \A k \in Keys :
  <<"tx", k, "ok">> \in eventKeys => \E x \in txs : x.key = k

SentHasRow == \A s \in Spends : status[s] = "sent" => HasTransaction(s)

\* A thread past the record of its payment.
Recorded(t) ==
  /\ pc[t] \in {"complete", "log_sent"} => RowOf(req[t]) \in txs
  /\ pc[t] = "log_sent" => status[req[t].spend] = "sent"

RecordInv ==
  /\ PayInv /\ RowsArePaid /\ RowsHaveEvents /\ SentHasRow /\ SentAnswerIsTrue
  /\ \A t \in Threads : Recorded(t)

\* The thread has found the event of a transaction under its key.
Found(t) == pc[t] = "record" /\ req' = req /\ <<"tx", req[t].key, "ok">> \in eventKeys

\* The step of a thread: sent is written once the payment is recorded, and stays;
\* an answer sent is stored once the status is.
Records(t) ==
  /\ \A u \in Threads \ {t} : pc'[u] = pc[u] /\ req'[u] = req[u]
  /\ \A s \in Spends : broadcasts'[s] >= broadcasts[s]
  /\ \A s \in Spends : status[s] = "sent" => status'[s] = "sent"
  /\ \A s \in Spends :
       status'[s] = "sent" => status[s] = "sent" \/ (pc[t] = "complete" /\ s = req[t].spend)
  /\ \/ txs' = txs /\ (pc'[t] = "complete" => Found(t))
        /\ \A k \in Keys : <<"tx", k, "ok">> \in eventKeys' => <<"tx", k, "ok">> \in eventKeys
     \/ pc[t] = "insert" /\ req' = req /\ InsertTransaction(req[t])
  /\ pc'[t] = "log_sent" =>
       pc[t] = "complete" /\ req' = req /\ status'[req[t].spend] = "sent"
  /\ \/ cache' = cache
     \/ \E outcome \in {"rejected", "error"} : Store(req[t], outcome)
     \/ Store(req[t], "sent") /\ pc[t] = "log_sent"

LEMMA RecordSteps ==
  ASSUME RecordInv, NEW t \in Threads, ThreadStep(t) \/ LedgerFails(t) \/ AnswerEscapes(t)
  PROVE  Records(t)
<1>1. /\ pc \in [Threads -> Steps] /\ req \in [Threads -> Requests \cup {None}]
      /\ status \in [Spends -> Statuses] /\ broadcasts \in [Spends -> 0 .. MaxBroadcasts]
      /\ pc[t] \in SpendSteps => req[t].spend \in Spends
      /\ Stage(t)
  BY DEF RecordInv, PayInv, TypeInv, TypeOK, LedgerTypeOK, ServiceTypeOK, WalletTypeOK, Working,
         SpendSteps
<1> USE <1>1 DEF At, Goto, ledger, locals, threads, wallet, paid, Records, Found, SpendSteps
<1>2. ASSUME LogReceived(t) \/ LogValidating(t) \/ LogSendStarted(t) PROVE Records(t)
  BY <1>2 DEF LogReceived, LogValidating, LogSendStarted, LogStep, Audit
<1>3. ASSUME ReadRequest(t) \/ Validate(t) PROVE Records(t)
  BY <1>3 DEF ReadRequest, Validate, Refuse, RejectStep
<1>4. ASSUME Consult(t) \/ CheckDaily(t) \/ CheckWeekly(t) PROVE Records(t)
  BY <1>4 DEF Consult, CheckDaily, CheckWeekly, Refuse
<1>5. ASSUME WriteRejection(t) \/ MarkApproved(t) \/ MarkSending(t) \/ StoreFailure(t) PROVE Records(t)
  BY <1>5 DEF WriteRejection, MarkApproved, MarkSending, MarkStatus, StoreFailure, WriteStatus, Stage
<1>6. ASSUME MarkSent(t) PROVE Records(t)
  BY <1>6 DEF MarkSent, MarkStatus, WriteStatus
<1>7. ASSUME LogRejection(t) \/ LogSent(t) PROVE Records(t)
  BY <1>7 DEF LogRejection, LogSent, Return, Audit
<1>8. ASSUME Unlock(t) PROVE Records(t)
  BY <1>8 DEF Unlock, Refuse
<1>9. ASSUME SendToAddress(t) PROVE Records(t)
  BY <1>9 DEF SendToAddress, SendFails, SendEscapes, Refuse, Broadcast
<1>10. ASSUME LogFailure(t) PROVE Records(t)
  BY <1>10 DEF LogFailure, Return, Audit
<1>11. ASSUME Lock(t) \/ LogLockFailed(t) PROVE Records(t)
  BY <1>11 DEF Lock, LogLockFailed, AfterCleanup, Return, Audit
<1>12. ASSUME LookUpTransaction(t) \/ RecordTransaction(t) PROVE Records(t)
  BY <1>12 DEF LookUpTransaction, RecordTransaction, InsertTransaction
<1>13. ASSUME LedgerFails(t) \/ AnswerEscapes(t) PROVE Records(t)
  <2>1. /\ UNCHANGED <<ledger, cache, broadcasts>> /\ pc'[t] \in {"idle", "locking"}
        /\ \A u \in Threads \ {t} : pc'[u] = pc[u] /\ req'[u] = req[u]
    BY <1>13 DEF LedgerFails, AnswerEscapes, Return
  <2>2. QED
    BY <2>1
<1>14. QED
  BY <1>2, <1>3, <1>4, <1>5, <1>6, <1>7, <1>8, <1>9, <1>10, <1>11, <1>12, <1>13
     DEF ThreadStep

LEMMA NextRecordInv ==
  ASSUME ~Overlap, RecordInv, [Next]_vars,
         \A q, r \in Requests :
           q.key = r.key /\ q.spend # None /\ r.spend # None => q.spend = r.spend
  PROVE  RecordInv'
<1>1. PayInv /\ PayInv' /\ TypeInv /\ TypeInv'
  BY NextPayInv DEF RecordInv, PayInv
<1>2. /\ cache \in [Keys -> Cached \cup {None}] /\ txs \subseteq [key : Keys, spend : Spends]
      /\ status \in [Spends -> Statuses] /\ pc \in [Threads -> Steps]
      /\ req \in [Threads -> Requests \cup {None}]
      /\ \A s \in Spends : broadcasts[s] \in Nat /\ broadcasts'[s] \in Nat
      /\ \A s \in Spends : broadcasts'[s] <= 1
  BY <1>1, LimitsAssumption
     DEF PayInv, PaidWhileSending, TypeInv, TypeOK, LedgerTypeOK, ServiceTypeOK, WalletTypeOK
<1>3. ASSUME NEW t \in Threads, ThreadStep(t) \/ LedgerFails(t) \/ AnswerEscapes(t)
      PROVE  RecordInv'
  <2>1. Records(t)
    BY <1>3, RecordSteps
  <2>2. pc[t] \in SpendSteps => req[t] \in Requests /\ req[t].spend \in Spends /\ req[t].key \in Keys
    BY <1>1, RequestsAssumption DEF TypeInv, Working, SpendSteps
  <2>3. txs \subseteq txs'
    BY <2>1 DEF Records, InsertTransaction
  <2>4. RowsArePaid' /\ RowsHaveEvents'
    <3>1. CASE UNCHANGED txs /\ \A k \in Keys : <<"tx", k, "ok">> \in eventKeys' => <<"tx", k, "ok">> \in eventKeys
      BY <1>2, <2>1, <3>1 DEF Records, RecordInv, RowsArePaid, RowsHaveEvents
    <3>2. CASE pc[t] = "insert" /\ InsertTransaction(req[t])
      <4>1. /\ req[t] \in Requests /\ req[t].spend \in Spends /\ broadcasts[req[t].spend] = 1
        BY <1>1, <2>2, <3>2 DEF PayInv, Stage, SpendSteps, Steps, LedgerSteps
      <4>2. /\ txs' \subseteq txs \cup {RowOf(req[t])}
            /\ \A k \in Keys : <<"tx", k, "ok">> \in eventKeys' =>
                 <<"tx", k, "ok">> \in eventKeys \/ (k = req[t].key /\ RowOf(req[t]) \in txs')
        BY <3>2 DEF InsertTransaction, RowOf
      <4>3. \A x \in txs' : broadcasts[x.spend] = 1 /\ x.spend \in Spends /\ \E r \in Requests : x = RowOf(r)
        BY <1>2, <4>1, <4>2 DEF RecordInv, RowsArePaid, RowOf
      <4>4. RowsArePaid'
        BY <1>2, <2>1, <4>3 DEF Records, RowsArePaid
      <4>5. RowsHaveEvents'
        BY <2>3, <4>2 DEF RecordInv, RowsHaveEvents, RowOf
      <4>6. QED
        BY <4>4, <4>5
    <3>3. QED
      BY <2>1, <3>1, <3>2 DEF Records
  <2>5. Recorded(t)'
    <3>1. pc'[t] = "complete" => RowOf(req[t]) \in txs' /\ req' = req
      <4>1. SUFFICES ASSUME pc'[t] = "complete" PROVE RowOf(req[t]) \in txs' /\ req' = req
        OBVIOUS
      <4>2. CASE Found(t)
        <5>1. req[t] \in Requests /\ req[t].spend \in Spends /\ req[t].key \in Keys
          BY <2>2, <4>2 DEF Found, SpendSteps, Steps, LedgerSteps
        <5>2. PICK x \in txs : x.key = req[t].key
          BY <4>2, <5>1 DEF Found, RecordInv, RowsHaveEvents
        <5>3. PICK r \in Requests : x = RowOf(r)
          BY <5>2 DEF RecordInv, RowsArePaid
        <5>4. r.key = req[t].key /\ r.spend \in Spends
          BY <1>2, <5>2, <5>3 DEF RowOf
        <5>5. r.spend = req[t].spend
          BY <5>1, <5>4, RequestsAssumption
        <5>6. QED
          BY <2>3, <4>2, <5>2, <5>3, <5>4, <5>5 DEF Found, RowOf
      <4>3. CASE pc[t] = "insert" /\ req' = req /\ InsertTransaction(req[t])
        BY <4>3 DEF InsertTransaction, RowOf
      <4>4. QED
        BY <2>1, <4>1, <4>2, <4>3 DEF Records
    <3>2. pc'[t] = "log_sent" => RowOf(req[t]) \in txs' /\ req' = req /\ status'[req[t].spend] = "sent"
      BY <2>1, <2>3 DEF Records, RecordInv, Recorded
    <3>3. QED
      BY <3>1, <3>2 DEF Recorded
  <2>6. ASSUME NEW u \in Threads \ {t} PROVE Recorded(u)'
    <3>1. pc[u] = "log_sent" => req[u].spend \in Spends
      BY <1>1 DEF TypeInv, Working, SpendSteps, Steps, LedgerSteps
    <3>2. QED
      BY <2>1, <2>3, <3>1 DEF Records, RecordInv, Recorded
  <2>7. SentHasRow'
    <3>1. SUFFICES ASSUME NEW s \in Spends, status'[s] = "sent" PROVE \E x \in txs' : x.spend = s
      BY DEF SentHasRow, HasTransaction
    <3>2. CASE status[s] = "sent"
      BY <2>3, <3>2 DEF RecordInv, SentHasRow, HasTransaction
    <3>3. CASE pc[t] = "complete" /\ s = req[t].spend
      BY <2>3, <3>3 DEF RecordInv, Recorded, RowOf
    <3>4. QED
      BY <2>1, <3>1, <3>2, <3>3 DEF Records
  <2>8. SentAnswerIsTrue'
    <3>1. SUFFICES ASSUME NEW k \in Keys, cache'[k] # None, cache'[k].outcome = "sent"
                   PROVE  /\ status'[cache'[k].request.spend] = "sent"
                          /\ [key |-> k, spend |-> cache'[k].request.spend] \in txs'
      BY DEF SentAnswerIsTrue
    <3>2. CASE cache'[k] = cache[k]
      <4>1. /\ status[cache[k].request.spend] = "sent"
            /\ [key |-> k, spend |-> cache[k].request.spend] \in txs
        BY <3>1, <3>2 DEF RecordInv, SentAnswerIsTrue
      <4>2. cache[k].request.spend \in Spends
        BY <1>2, <4>1
      <4>3. QED
        BY <2>1, <2>3, <3>2, <4>1, <4>2 DEF Records
    <3>3. CASE cache'[k] # cache[k]
      <4>1. /\ pc[t] = "log_sent" /\ k = req[t].key
            /\ cache'[k] = [request |-> req[t], outcome |-> "sent"]
        BY <1>2, <2>1, <3>1, <3>3 DEF Records, Store
      <4>2. req[t].spend \in Spends /\ RowOf(req[t]) \in txs /\ status[req[t].spend] = "sent"
        BY <2>2, <4>1 DEF RecordInv, Recorded, SpendSteps, Steps, LedgerSteps
      <4>3. QED
        BY <2>1, <2>3, <4>1, <4>2 DEF Records, RowOf
    <3>4. QED
      BY <3>2, <3>3
  <2>9. QED
    BY <1>1, <2>4, <2>5, <2>6, <2>7, <2>8 DEF RecordInv
<1>4. ASSUME NEW t \in Threads, NEW r \in Requests, Receive(t, r) \/ Conflict(t, r)
      PROVE  RecordInv'
  <2>1. /\ UNCHANGED <<ledger, cache, broadcasts>> /\ pc'[t] \in {"received", "log_reject"}
        /\ \A u \in Threads \ {t} : pc'[u] = pc[u] /\ req'[u] = req[u]
    BY <1>2, <1>4 DEF Receive, Conflict, Begin, Goto, wallet, paid
  <2>2. \A u \in Threads : Recorded(u)'
    BY <2>1 DEF RecordInv, Recorded, ledger
  <2>3. QED
    BY <1>1, <2>1, <2>2
       DEF RecordInv, RowsArePaid, RowsHaveEvents, SentHasRow, HasTransaction, SentAnswerIsTrue, ledger
<1>5. CASE Crash
  BY <1>1, <1>5 DEF Crash, RecordInv, RowsArePaid, RowsHaveEvents, SentHasRow, HasTransaction,
                    SentAnswerIsTrue, Recorded, ledger, wallet, paid
<1>6. ASSUME NEW s \in Spends, Propose(s)
      PROVE  RecordInv'
  <2>1. /\ UNCHANGED <<eventKeys, txs, cache, broadcasts, pc, req>>
        /\ \A u \in Spends : (status'[u] = "sent") = (status[u] = "sent")
    BY <1>2, <1>6 DEF Propose, InsertRequest, threads, wallet, paid
  <2>2. SentAnswerIsTrue'
    <3>1. ASSUME NEW k \in Keys, cache[k] # None, cache[k].outcome = "sent"
          PROVE  cache[k].request.spend \in Spends
      BY <1>2, <3>1 DEF RecordInv, SentAnswerIsTrue
    <3>2. QED
      BY <2>1, <3>1 DEF RecordInv, SentAnswerIsTrue
  <2>3. \A t \in Threads : pc[t] = "log_sent" => req[t].spend \in Spends
    BY <1>1 DEF TypeInv, Working, SpendSteps, Steps, LedgerSteps
  <2>4. QED
    BY <1>1, <2>1, <2>2, <2>3
       DEF RecordInv, RowsArePaid, RowsHaveEvents, SentHasRow, HasTransaction, Recorded
<1>7. CASE UNCHANGED <<ledger, cache, threads, broadcasts>>
  BY <1>1, <1>7 DEF RecordInv, RowsArePaid, RowsHaveEvents, SentHasRow, HasTransaction,
                    SentAnswerIsTrue, Recorded, ledger, threads
<1>8. QED
  BY <1>3, <1>4, <1>5, <1>6, <1>7 DEF Next, vars, wallet, paid, Replay, UnlockExpires, NextDay

LEMMA RecordInvariant ==
  ASSUME ~Overlap,
         \A q, r \in Requests :
           q.key = r.key /\ q.spend # None /\ r.spend # None => q.spend = r.spend
  PROVE  Spec => []RecordInv
<1>1. Init => RecordInv
  BY InitPayInv DEF Init, RecordInv, RowsArePaid, RowsHaveEvents, SentHasRow, SentAnswerIsTrue, Recorded
<1>2. RecordInv /\ [Next]_vars => RecordInv'
  BY NextRecordInv
<1>3. QED
  BY <1>1, <1>2, PTL DEF Spec

\* Through crashes, failed writes and lost answers a transaction row stands for one
\* payment, and the status sent has its row: record_btc_transaction comes after
\* send_to_address and before the status, and skips a row only for one of the same
\* key, hence of the same spend request.
THEOREM RecordsStayTrue ==
  ASSUME ~Overlap,
         \A q, r \in Requests :
           q.key = r.key /\ q.spend # None /\ r.spend # None => q.spend = r.spend
  PROVE  Spec => []RecordsAreTrue
<1>1. RecordInv => RecordsAreTrue
  <2> SUFFICES ASSUME RecordInv, NEW s \in Spends
               PROVE  /\ HasTransaction(s) => broadcasts[s] = 1 /\ status[s] \in {"sending", "sent", "failed"}
                      /\ status[s] = "sent" => HasTransaction(s)
    BY DEF RecordsAreTrue
  <2> QED
    BY DEF RecordInv, PayInv, PaidWhileSending, RowsArePaid, SentHasRow, HasTransaction
<1>2. QED
  BY <1>1, RecordInvariant, PTL

\* Under the same faults an answer sent, given now or on a replay, has its row in the
\* ledger and the status sent, which nothing overwrites: a bundle that shows sent is
\* refused without a write (service.py, _update_spend_status_for_outcome).
THEOREM SentAnswersStayTrue ==
  ASSUME ~Overlap,
         \A q, r \in Requests :
           q.key = r.key /\ q.spend # None /\ r.spend # None => q.spend = r.spend
  PROVE  Spec => []SentAnswerIsTrue
<1>1. RecordInv => SentAnswerIsTrue
  BY DEF RecordInv
<1>2. QED
  BY <1>1, RecordInvariant, PTL

-----------------------------------------------------------------------------
(* The event log knows every status.  An event may be skipped because its    *)
(* key is used, but no status is entered twice.                              *)

\* The statuses that capped_send writes, those it writes each over, and those that
\* a request has from then on.
Written == {"approved", "sending", "sent", "rejected", "failed"}

Before(to) ==
  IF to = "approved" THEN {"proposed", "approved"}
  ELSE IF to = "sending" THEN {"approved"}
  ELSE IF to = "sent" THEN {"sending"}
  ELSE IF to = "rejected" THEN {"proposed", "approved"}
  ELSE {"proposed", "approved", "sending"}

From(to) ==
  IF to = "approved" THEN Written
  ELSE IF to = "sending" THEN {"sending", "sent", "failed"}
  ELSE {to}

\* The event of a status is of a request that reached the status.
EventsAreOfStatuses == \A to \in Written, k \in Keys, reason \in Reasons :
  <<to, k, reason>> \in eventKeys =>
    \E r \in Requests : r.key = k /\ r.spend \in Spends /\ status[r.spend] \in From(to)

LoggedInv == PayInv /\ EveryStatusLogged /\ EventsAreOfStatuses

\* The step of a thread writes no status, or one that may follow.
LogsStatus(t) ==
  \/ /\ UNCHANGED <<status, logged>>
     /\ \A to \in Written, k \in Keys, reason \in Reasons :
          <<to, k, reason>> \in eventKeys' => <<to, k, reason>> \in eventKeys
  \/ /\ req[t] \in Requests /\ req[t].spend \in Spends
     /\ \E to \in Written, reason \in Reasons :
          status[req[t].spend] \in Before(to) /\ WriteStatus(req[t].spend, to, req[t].key, reason)

LEMMA LogSteps ==
  ASSUME LoggedInv, NEW t \in Threads, ThreadStep(t) \/ LedgerFails(t) \/ AnswerEscapes(t)
  PROVE  LogsStatus(t)
<1>1. /\ why \in [Threads -> Reasons] /\ "ok" \in Reasons
      /\ pc[t] \in SpendSteps => req[t] \in Requests /\ req[t].spend \in Spends
      /\ Stage(t)
  BY RequestsAssumption
     DEF LoggedInv, PayInv, TypeInv, TypeOK, ServiceTypeOK, Working, SpendSteps, CodeReasons
<1>2. ASSUME UNCHANGED ledger PROVE LogsStatus(t)
  BY <1>2 DEF LogsStatus, ledger
<1>3. ASSUME NEW name \in {"received", "validating", "log_start", "log_reject", "log_fail",
                           "log_lock", "log_sent"}, Audit(name, req[t].key)
      PROVE  LogsStatus(t)
  BY <1>3 DEF Audit, LogsStatus, KeptAudits, Written
<1>4. ASSUME LogReceived(t) \/ LogValidating(t) \/ LogSendStarted(t) \/ LogRejection(t)
             \/ LogFailure(t) \/ LogLockFailed(t) \/ LogSent(t)
      PROVE  LogsStatus(t)
  BY <1>3, <1>4 DEF LogReceived, LogValidating, LogSendStarted, LogStep, LogRejection,
                    LogFailure, LogLockFailed, LogSent
<1>5. ASSUME ReadRequest(t) \/ Validate(t) \/ Consult(t) \/ CheckDaily(t) \/ CheckWeekly(t)
             \/ Unlock(t) \/ SendToAddress(t) \/ Lock(t) \/ LedgerFails(t) \/ AnswerEscapes(t)
      PROVE  LogsStatus(t)
  BY <1>2, <1>5 DEF ReadRequest, Validate, Consult, CheckDaily, CheckWeekly, Unlock,
                    SendToAddress, Lock, LedgerFails, AnswerEscapes
<1>6. ASSUME NEW to \in Written, NEW reason \in Reasons, pc[t] \in SpendSteps,
             status[req[t].spend] \in Before(to),
             WriteStatus(req[t].spend, to, req[t].key, reason)
      PROVE  LogsStatus(t)
  BY <1>1, <1>6 DEF LogsStatus
<1>7. pc[t] \in {"rejecting", "approve", "start", "failing", "complete"} => pc[t] \in SpendSteps
  BY DEF SpendSteps, Steps, LedgerSteps
<1>8. ASSUME WriteRejection(t) PROVE LogsStatus(t)
  BY <1>1, <1>6, <1>7, <1>8 DEF WriteRejection, Stage, Before, Written, At
<1>9. ASSUME MarkApproved(t) \/ MarkSending(t) \/ MarkSent(t) PROVE LogsStatus(t)
  BY <1>1, <1>6, <1>7, <1>9
     DEF MarkApproved, MarkSending, MarkSent, MarkStatus, Stage, Before, Written, At
<1>10. ASSUME StoreFailure(t) PROVE LogsStatus(t)
  BY <1>1, <1>6, <1>7, <1>10 DEF StoreFailure, Stage, Before, Written, At
<1>13. ASSUME LookUpTransaction(t) PROVE LogsStatus(t)
  BY <1>2, <1>13 DEF LookUpTransaction
<1>11. ASSUME RecordTransaction(t) PROVE LogsStatus(t)
  BY <1>11 DEF RecordTransaction, InsertTransaction, LogsStatus, Written
<1>12. QED
  BY <1>4, <1>5, <1>8, <1>9, <1>10, <1>11, <1>13 DEF ThreadStep

LEMMA NextLoggedInv ==
  ASSUME ~Overlap, LoggedInv, [Next]_vars,
         \A q, r \in Requests :
           q.key = r.key /\ q.spend # None /\ r.spend # None => q.spend = r.spend
  PROVE  LoggedInv'
<1>1. PayInv /\ PayInv'
  BY NextPayInv DEF LoggedInv
<1>2. status \in [Spends -> Statuses] /\ logged \in [Spends -> Statuses]
  BY <1>1 DEF PayInv, TypeInv, TypeOK, LedgerTypeOK
<1>3. ASSUME UNCHANGED <<status, logged>>,
             \A to \in Written, k \in Keys, reason \in Reasons :
               <<to, k, reason>> \in eventKeys' => <<to, k, reason>> \in eventKeys
      PROVE  LoggedInv'
  BY <1>1, <1>3 DEF LoggedInv, EveryStatusLogged, EventsAreOfStatuses
<1>4. ASSUME NEW q \in Requests, q.spend \in Spends, NEW to \in Written, NEW cause \in Reasons,
             status[q.spend] \in Before(to), WriteStatus(q.spend, to, q.key, cause)
      PROVE  LoggedInv'
  <2>1. /\ q.key \in Keys
        /\ status' = [status EXCEPT ![q.spend] = to]
        /\ logged' = IF <<to, q.key, cause>> \in eventKeys THEN logged ELSE [logged EXCEPT ![q.spend] = to]
        /\ eventKeys' = eventKeys \cup {<<to, q.key, cause>>}
    BY <1>4, RequestsAssumption DEF WriteStatus
  <2>2. <<to, q.key, cause>> \in eventKeys => status[q.spend] = to
    <3>1. SUFFICES ASSUME <<to, q.key, cause>> \in eventKeys PROVE status[q.spend] = to
      OBVIOUS
    <3>2. PICK r \in Requests : r.key = q.key /\ r.spend \in Spends /\ status[r.spend] \in From(to)
      BY <2>1, <3>1 DEF LoggedInv, EventsAreOfStatuses
    <3>3. r.spend = q.spend
      BY <1>4, <3>2, RequestsAssumption
    <3>4. QED
      BY <1>4, <3>2, <3>3 DEF Before, From, Written
  <2>3. EveryStatusLogged'
    BY <1>2, <1>4, <2>1, <2>2 DEF LoggedInv, EveryStatusLogged
  <2>4. ASSUME NEW way \in Written, status[q.spend] \in From(way)
        PROVE  to \in From(way)
    BY <1>4, <2>4 DEF Before, From, Written
  <2>5. to \in From(to)
    BY <1>4 DEF From, Written
  <2>6. EventsAreOfStatuses'
    <3>1. SUFFICES ASSUME NEW way \in Written, NEW k \in Keys, NEW reason \in Reasons,
                          <<way, k, reason>> \in eventKeys'
                   PROVE  \E r \in Requests : r.key = k /\ r.spend \in Spends /\ status'[r.spend] \in From(way)
      BY DEF EventsAreOfStatuses
    <3>2. CASE <<way, k, reason>> \in eventKeys
      <4>1. PICK r \in Requests : r.key = k /\ r.spend \in Spends /\ status[r.spend] \in From(way)
        BY <3>2 DEF LoggedInv, EventsAreOfStatuses
      <4>2. status'[r.spend] \in From(way)
        BY <1>2, <1>4, <2>1, <2>4, <4>1
      <4>3. QED
        BY <4>1, <4>2
    <3>3. CASE way = to /\ k = q.key
      BY <1>2, <1>4, <2>1, <2>5, <3>3
    <3>4. QED
      BY <2>1, <3>1, <3>2, <3>3
  <2>7. QED
    BY <1>1, <2>3, <2>6 DEF LoggedInv
<1>5. ASSUME NEW t \in Threads, ThreadStep(t) \/ LedgerFails(t) \/ AnswerEscapes(t)
      PROVE  LoggedInv'
  BY <1>3, <1>4, <1>5, LogSteps DEF LogsStatus
<1>6. ASSUME NEW s \in Spends, Propose(s)
      PROVE  LoggedInv'
  <2>1. EveryStatusLogged'
    BY <1>2, <1>6 DEF Propose, InsertRequest, LoggedInv, EveryStatusLogged
  <2>2. \A to \in Written : "absent" \notin From(to)
    BY DEF Written, From
  <2>3. \A u \in Spends : status[u] # "absent" => status'[u] = status[u]
    BY <1>2, <1>6 DEF Propose, InsertRequest
  <2>4. EventsAreOfStatuses'
    BY <1>6, <2>2, <2>3 DEF Propose, InsertRequest, LoggedInv, EventsAreOfStatuses
  <2>5. QED
    BY <1>1, <2>1, <2>4 DEF LoggedInv
<1>7. CASE UNCHANGED ledger
  BY <1>3, <1>7 DEF ledger
<1>8. QED
  BY <1>5, <1>6, <1>7
     DEF Next, vars, Receive, Conflict, Begin, Replay, Crash, UnlockExpires, NextDay

\* Table and event log agree on every status, whatever crashes and fails, although an
\* event is skipped when its key is used: a key comes back only for the status that the
\* request still has (repository.py, update_spend_request_status).
THEOREM StatusesAreLogged ==
  ASSUME ~Overlap,
         \A q, r \in Requests :
           q.key = r.key /\ q.spend # None /\ r.spend # None => q.spend = r.spend
  PROVE  Spec => []EveryStatusLogged
<1>1. Init => LoggedInv
  BY InitPayInv DEF Init, LoggedInv, EveryStatusLogged, EventsAreOfStatuses
<1>2. LoggedInv /\ [Next]_vars => LoggedInv'
  BY NextLoggedInv
<1>3. LoggedInv => EveryStatusLogged
  BY DEF LoggedInv
<1>4. QED
  BY <1>1, <1>2, <1>3, PTL DEF Spec
=============================================================================
