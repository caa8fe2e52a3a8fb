# Moneybot: a TLA+ verification project

This directory models the parts of OpenClaw Moneybot (`src/openclaw_moneybot`)
that decide, spend money, send mail and keep the books, checks them with TLC on small
instances and proves the central safety results with TLAPS. File and line
references are relative to `src/src/openclaw_moneybot` unless they start with
`docs/`, which is `src/docs`.

## 1. The system

Moneybot is a set of *skills* (decide, draft, plan), *plugins* (governed
side effects and observations) and one workflow that runs a mission through
them. Everything meets in one SQLite ledger; nothing else is shared. There is
no lock of the program's own anywhere: atomicity is what SQLite transactions
and the order of calls give.

    mission workflow --> scout, duplicate detector, policy guard, legal, budget,
         |               drafter, reviewer             (decisions, ledger rows)
         |--> wallet governor client --HTTP--> wallet governor service --RPC--> wallet
         |                                          |
         |--> email governor --> mail transport     |   browser governor --> browser
         '--> ledger repository (SQLite) <----------'   quarantine, scheduler (JSON files)
                                 ^--- evidence archiver (files + ledger rows)

### Inventory

| Component | State | Operations | What is hard | What makes it correct | Module |
|---|---|---|---|---|---|
| Wallet governor service (`plugins/wallet_governor_service`) | in memory: responses and fingerprints by idempotency key; in the ledger: spend status, transactions, audit events; in the wallet: locked or not | `capped_send`; read-only health, balance, limits, quote | sync endpoints run on a thread pool, a 504 leaves the thread running; crash or lost answer around the payment; writes that fail half way; a cache that dies with the process | one payment per spend request; limits; what the ledger says is true; refusals are unpaid; the wallet is relocked | `WalletGovernor`, `SpendLifecycle` |
| Ledger repository (`skills/ledger_skill`) | tables of rows, `ledger_events` with idempotency keys and a hash chain | `record_*`, `create_opportunity`, `update_*`, queries, `verify_event_chain` | reads in autocommit before the write lock; `created_at` chosen by the caller orders the chain | the chain verifies iff nobody interfered; a key is used once; a row has its event | `LedgerChain` |
| Email governor (`plugins/email_governor`) | none of its own: it counts audit events in the ledger | `send_draft`, `classify_incoming_reply` | check-then-send between callers; a mail whose event is lost; the day changes in between; opt-out racing a send | limits, opt-out, replay of a repeated request | `EmailGovernor` |
| Wallet governor client (`skills/wallet_governor_client`) | none | `spend`: checks, records the request, posts it, reads the transaction back; `quote` | 504 and timeouts against a service that goes on; retries with a fresh spend id under a used key | an attempt pays once, and a later attempt under its key nothing; an answer it gives is borne out by the ledger | `WalletClient`, over `WalletGovernor` |
| Browser governor (`plugins/browser_governor`) | none of its own: audit events in the ledger | `prepare_action`, `execute_action`, `complete_action` | an action done whose event is lost; a rejection answers for the action id; an event stamped before it is written | an action is executed once; a completion has its prepare; few events decide what a repeat is answered | `BrowserGovernor` |
| Download quarantine (`plugins/download_quarantine_plugin`) | a directory with metadata JSON per scan | ingest, promote | crash between archive and metadata; two promotions | a promoted scan names evidence the ledger lists, and is what the checks accepted | `PluginStores` |
| Evidence archiver (`skills/receipt_and_evidence_archiver`) | content and metadata files, ledger rows | archive, store_artifact | three writes one after the other | a ledger row names files that exist | `PluginStores`; one step of `EmailGovernor` |
| Deadline scheduler (`plugins/deadline_scheduler_plugin`) | one JSON file | schedule, summarize | read-modify-write by several callers; truncation from the front | conflicts are seen | `PluginStores` |
| Mission workflow (`orchestration/workflow.py`) | ledger rows | `run_dry_run` | eight gates with verdicts of their own; a mission dies and is run again; the payment is put together from five records | no act without all gates; payments the governor can authorize; a rerun does nothing | `MissionWorkflow`, `MissionGates` |
| Policy guard | none | `evaluate_policy` | nineteen rules in two lists | no rule hides another | `PolicyGuard`, `Verdicts` |
| Scout (filter, score, choice), TOS and legal checker, eligibility checker, submission builder, terms change monitor | none | one decision each, from a rules text | unknown facts; checks that overwrite each other; a monitor that looks for other words than the checkers | unknown facts never help; rewritten rules are never overlooked | `RulesScreening` |
| Duplicate detector, budget planner, counterparty profiler, deliverable checker | none | one decision each, about a plan | amounts that are not known; order of reasons | a worse plan is not judged more mildly | `MissionPlanning` |
| Revenue reconciler, payout planner, experiment reviewer, queue planner | none | one decision each, about an outcome | payouts in parts or from others; first rule that applies | payers in full are left alone; bad news does not revive | `MissionOutcome` |
| Email drafter, strategy memory | none | text in, record out | -- | -- | one step of `EmailGovernor`; none |
| Observation, index, profile, render, metrics, ledger API plugins | files, audit events | fetch, store, export | -- | -- | not modelled: input/output |

`PROJECT.json` lists each of these with its files and status, and under
"hazards" the places in this code that a test hardly reaches.

## 2. The modules

### SpendLifecycle -- what the wallet governor promises

Two variables: the status of each spend request (`SpendRequestStatus`) and the
number of payments that left the wallet for it. A request goes proposed,
approved, sending, sent, or ends rejected or failed; money leaves once, in
sending. `confirmed` and `cancelled` are in the type but no code writes them.

### WalletGovernor -- `capped_send`, thread by thread

State, by where it lives and hence by what a restart destroys:

| Variables | Code |
|---|---|
| `status`, `logged`, `eventKeys`, `txs`, `spentOn`, `spentWithin` | the SQLite ledger: `spend_requests.status`, the status in the last event about the request, the idempotency keys of `ledger_events`, `btc_transactions`, the daily and weekly totals |
| `cache` | `_responses` with `_response_fingerprints` (`service.py:179-180`) |
| `pc`, `req`, `seen`, `today`, `why`, `cleanup` | a worker thread: its place in `capped_send`, its request, the status it read in the bundle, the day it checks limits for, the code it is about to store, and what follows the `finally` block |
| `unlocked`, `broadcasts`, `payers`, `paidOn`, `day` | the wallet and the world; `broadcasts`, `payers` and `paidOn` record what really happened and are read by no guard but their bound |

One action per ledger transaction, ledger read or wallet call, in the order of
the code: `Receive`/`Replay`/`Conflict` (cache lookup), `LogReceived`,
`LogValidating`, `ReadRequest` and `Validate` (the two queries of the bundle
and the decision), `Consult` (balance and fee quote), `CheckDaily`,
`CheckWeekly`, `WriteRejection`, `LogRejection`, `MarkApproved`, `MarkSending`,
`LogSendStarted`, `Unlock`, `SendToAddress`, `StoreFailure`, `LogFailure`,
`Lock`, `LogLockFailed`, `LookUpTransaction` and `RecordTransaction` (the key of
the row, read in autocommit, and the row), `MarkSent`, `LogSent`. Around them: `LedgerFails` (sqlite3 raises; past the unlock the `finally` block still
runs), `AnswerEscapes` (an answer that is not JSON is not a backend error and
leaves the handler), `Crash`, `UnlockExpires`, `NextDay`.

`Faults` chooses what may go wrong: "crash" (the process dies), "ledger" (a
ledger call raises), "wallet" (the wallet refuses a call), "ambiguous" (an
answer is lost or unreadable, whether or not the call took effect). `Overlap`
says whether two requests that share a key or a spend request may be handled at
the same time; the service does not prevent it.

Abstracted: the checks of the authorization bundle that compare fields which
never change are one `defect` of the request, the first check it fails; the
balance is chosen nondeterministically; the totals are running sums instead of
`SELECT SUM`; of the audit events only the two a property reads are kept; a
response and its fingerprint are stored in one step; a request has the total of
its amount and the fee, which the service's limits count. `Propose` is the row of
a spend request, with its event or, when another request took the key after it
was looked up, without. `update_wallet_transaction_status` is not called by the service.

### LedgerChain -- the event log of every writer

`events` (in rowid order, with `created_at`, previous hash and hash), `rows`,
`drafts` (records a caller has stamped and not yet written), and per writer the
record in hand and the previous hash it read. Three kinds of record stand for
the writing methods: "audit" (`record_ledger_record`: read key and hash, then
insert), "row" (`create_opportunity` and the `record_*` methods: lookup,
then row and event in one transaction) and "update" (`update_*_status`).
`Abort` is a statement that raises or a process that dies: SQLite rolls back.
The hash is the pair of previous hash and payload, i.e. collision-free.
Every record has an idempotency key (a record without one has no duplicate to
be confused with); the clock is monotone; foreign keys are not modelled.

### EmailGovernor -- send, replies, and the log they count

`audits` (the governor's audit events in write order), `archived`, `outbox`
(mails that left, each with the number of events known by then), and per caller
its place in the call. `CheckLimits` and `CheckOptOut` read the log, `Send`
hands the mail over, `Archive` and `RecordSent` follow; `ReceiveReply` and
`RecordReply` are a classified reply; `Abort` ends a call anywhere. The checks
whose outcome does not change with time are one flag `allowed` of a request. A
request is made with the current date; it may be repeated later once it has an
outcome.

`Stamped` gives an event its `created_at` (and so its day) one step before
`Record` writes it, as `_record_audit` does (`service.py:449-466`), so that events
of two callers may be written in the other order; the lookup by key (`FirstOf`)
goes by the stamp, like the ledger's query.

### BrowserGovernor -- prepare, execute, complete

`audits` (a set: readers go by `created_at`), `archived` and `runs` (what was
archived, and what the browser did, for each request), `served` (the operations
that the configuration lets through, which a new process may change:
`Reconfigure`), `answers` (for an operation and an action, the stamps of the
events that decided a call: the event it was answered with, the rejection of an
execution, the event it was in conflict with), and per caller its step, its
request, the prepare event it found and the stamp of the event it is about to
write. `Start`, `Replay`, `Conflict` and `Refuse` are the lookup at the head of the
three operations and the check of the configuration after it; `Validate`, `FindPrepare`, `Run`/`RunFails`, `Archive`, `WriteDone` and
`WriteRejection` follow the code; `Stamped` gives an event its `created_at` one
step before it is written, because another caller may write in between. The
asymmetry of the code is kept: an execution is looked up with any outcome, a
prepare or completion only as a success, a rejection has no fingerprint, and a
rejected completion is logged as a prepare. Hence an execution that was refused
once is answered `action_id_conflict` for ever. A rejected prepare or completion is
found by no later call and decides none; nor does the rejection that a conflict
writes. The checks of the request's own
fields are one flag `allowed`; the policy decision, the opportunity and the
spend request it names are in the ledger from some moment on (`RecordsArrive`); a failing backend may have
done some of its steps, so it counts as a run.

### WalletClient -- the client in front of the service

`WalletClient` extends `WalletGovernor` and adds the callers: what each does
(`call`), which of them a thread answers (`serves`), the keys and spend ids used
(`spendKeys`, `issued`), what callers were told (`reports`) and, read by no guard,
which attempts under one key began before either had its row (`abreast`). `Spend`
is the preflight, which counts the amount without the fee (`AmountOf`);
`LookUpKey` and `InsertRow` are `record_spend_request` under
`wallet:spend:{key}`: the key is read in autocommit (`repository.py:541`) and the
row inserted later (544), with its event only if the key is still unused
(`_insert_event`, 245, does not raise), so that attempts that overlap can each get
a row; `Post` is the HTTP call
that a thread receives, replays or refuses, `Serve` a step of the service with
the answer it may end in, `Unreachable` a timeout (the thread goes on, nobody
listens), `Restart` a crash of the service, `AnswerCaller` the archive, the
reading back and the result, `CallRaises` an archive or ledger that fails. The
service's own actions are taken over unchanged; only `Propose`, which stood for
the client, gives way to `InsertRow`. Spend request ids are fresh in each call,
as in `workflow.py:503`, the only caller in the repository.

### MissionGates, MissionWorkflow -- a mission from scout to review

`MissionGates` is the promise: a mission passes its gates one after the other
and acts (drafts, quotes, pays) only when it has passed all of them.
`MissionWorkflow` is `run_dry_run`: `Begin` (scout), `CheckDuplicate`,
`OpenOpportunity`, `TakeGate` for each of the eight gates, `DraftEmail`,
`QuotePayment`, `Pay`, `Finalize` and `Die` anywhere. Each gate's verdict is the
operator of its skill applied to the request the workflow makes of it
(`BudgetRequest`, `PartyRequest`, `ExecutionPolicyRequest`...), so that a wrong
argument shows. The mapping counts the gates that answered what each type calls
an approval, and does not use the comparisons of the workflow (`Passes`). Gates
and `Pay` write several ledger rows that nothing reads in between; each is one
step. The ledger is the opportunity rows (`known`); quote and payment may answer
anything the client can answer.
`BundleErrors`, with `PolicyErrors` and `EvidenceErrors`, is the governor's own
`_validate_bundle` on the records a mission makes for a payment.

### Verdicts, PolicyGuard, RulesScreening, MissionPlanning, MissionOutcome, Decisions

The skills are pure operators. A skill's checks are a record of named
conditions, one field for each string the code appends to its lists (`Fired`,
`Clear`); the first list that is not empty decides. A rules text is a `Page`:
the needles the skills look for that it holds (with the ones that lie inside
others: `Reading`), its amounts, its deadline line, its fields and screenshots.
`Decisions` is the state machine over them: an inquiry is opened, one fact of it
changes, and the properties compare the answers before and after the change. What
each skill may be asked is a set of records after its request model
(`PolicyRequests`, `PlanRequests`, `PartyRequests`, `ProfileRecords`,
`ClaimRecords`, `ReviewRequests`); a run starts from a few of them.

### PluginStores -- quarantine, archive, schedule

The files of three plugins and the ledger rows they leave. A call is the list of
its remaining steps, each one file or one row: `IngestSteps`, `PromoteSteps`
(which go through the archiver's `StoreContent`, `StoreMetadata`,
`RecordEvidence`), and for the scheduler audit, write, log. `Die` ends a call
between two steps, `Tear` in the middle of writing a JSON file, which then cannot
be read. Two callers interleave freely: none of the plugins locks its files.

### What is left, in this order

1. `OperatorProfileStore` and `OpportunityIndex` (file stores of the kind of
   `PluginStores`, with versions).
2. The bundle checks of `capped_send` as operators over the records
   `MissionWorkflow` makes, in place of `defect`, and with them `MissionWorkflow`
   composed with `WalletClient`.
3. Theorems of the new modules, and `LimitsAreKept` for keys that requests share.

## 3. The runs

| Run | Instance | Shows |
|---|---|---|
| `wallet_one_worker` | one thread, two spend requests of 2 USD, one of them posted under two keys, limits of 3 per day and per two-day window, three days; crashes, failing ledger writes, lost answers | `AtMostOneBroadcast`: paid once. `RecordsAreTrue`: a transaction row, or sent, stands for one payment. `RecordedWithinLimits`: every day and every window, though the day changes between check and record. `AnnouncedBeforePaid`: sending and its audit event precede the payment. `EveryStatusLogged`: table and log agree. `SentAnswerIsTrue`: a cached "sent" is borne out by the ledger. `RefinesLifecycle`: the service implements `SpendLifecycle` |
| `wallet_two_workers` | two threads, two spend requests, five request bodies with a key that comes with another amount, another spend request and no spend request; a wallet that refuses any call, no crash; weak fairness | `RefusedIsUnpaid`, `UnlockedIsGuarded` (open only between unlock and the `finally` block, or reported), `KeyPaysOnce`, `AnswersAreStable` (action property on the cache), `SendingSettles` (liveness) |
| `ledger_two_writers` | two writers, two audit events sharing a key, two rows sharing a key, an update, clock 0..2, at most three events | `VerifiesIffInOrder`: the verifier rejects exactly the logs in which an event was not put on top of the newest. `OneEventPerKey`, `RowsAreLogged`, `BreakIsPermanent` |
| `email_callers` | two callers, a mail, its follow-up on the next day, a second thread to the same domain, an opt-out reply, events stamped before they are written, one call that dies anywhere | `LimitsHold`, `OptOutIsHonoured`, `RepeatSendsOnce`: how far each limit, the opt-out and the replay can be passed: by one mail per further caller and per lost call, and no more. `ReportedMailsLeft`: the log and the archive name only mails that left |
| `browser_callers` | two callers, one action id: a prepare, its completion, an execution, an execution that is refused; execution switched on and off, a failing backend, a call that dies anywhere; five stamps | `RunsAreAccounted`: one run per caller and per lost call, a failure that is logged is not run again, and an execution in the log was run and archived. `CompletionHasPrepare`: a completion names an approved prepare stamped before it. `AnswersAgree`: what decides the calls for an action, by answer or conflict, is one of at most as many events as there are callers, rejections included |
| `wallet_client` | two callers, two worker threads, two attempts among four requests: two under one key with an id and an amount each, one under another key, one the client refuses; an amount of 1 and fees of 1 or 0; crashes, failing ledger writes, lost answers, overlapping attempts | `AttemptsPayOnce`: one payment per attempt, and two under one key only by attempts of which each began before the other had its row (the run reaches both payments). `ReportsAreTrue`: "sent" has its payment and its row, what was refused is never paid |
| `mission_workflow` | two missions, twenty-three requests over the documents and their variants, with names and categories that the policy patterns match, fees 0 or 1; email switched off as an action of its own | `ImplementsGates`: the refinement of `MissionGates`. `SpendIsAuthorized`: amount, payee, category, plan, terms and evidence of a payment are those the governor finds. `RerunHasNoEffect`: a mission that starts when its opportunity is in the ledger drafts, quotes and pays nothing, whether the other died or paid |
| `decisions` | policy requests, plans, counterparties and experiments of which up to two facts change; 60 rules pages before and after, two profiles that are filled in; up to two receipts for a claim | `PolicyNeverSoftens`, `PlanNeverSoftens`, `UnknownFactsFailClosed`, `BadNewsNeverRevives`, `StaleApprovalsAreRechecked` (action properties), `PaidInFullIsNotDunned` |
| `plugin_stores` | two processes, five downloads, six deadline requests for one reference, four calls, three schedule entries; deaths and torn files | `PromotionIsBacked`: ledger evidence has both files, a promoted scan names evidence that is the file the checks accepted. `ConflictsSurface`: two dates for one reference in the schedule are always reported |
| `wallet_retry_overlap` | a retry while the first attempt still runs | **violated**: paid twice |
| `wallet_limit_race` | two threads, a daily limit that covers one payment | **violated**: both are paid |
| `ledger_late_record` | one writer that stamps an opportunity, writes the duplicate check and then the opportunity | **violated**: the chain does not verify |

Bounds. `MaxBroadcasts` = 2 lets a second payment happen, so that it can be
refuted; two spend requests and three keys are the least that separate "same
key", "same request" and "neither". Two threads are enough for each race in the
code, whose critical sections involve a read of one thread and a write of
another. Three days cover a check on one day and a record on the next, with a
two-day window that either covers both or does not (`WindowDays` stands for 7).
Three events are the shortest log with a break in its middle. Five
stamps let a prepare, its completion, an execution and two rejections or repeats
happen in one behaviour. Two attempts are the first and its retry; a third
repeats the second. Two missions are enough for one to find, precede or race
the row of the other. Every gate stops one of the twenty-three requests; the
first policy check only the one whose category holds a pattern of wallet access,
for it allows research under every configuration of the run. Four stamps and three
events let an event of one mail be written after one with a later stamp.
Three schedule entries and four calls let an entry be cut off while a conflict
with it is open; one reference is enough, since entries of others are not
compared. Two changed facts are the least at which two rules fire one after the
other. Symmetry (callers, threads, processes) is used in runs of invariants
only. The limits are
chosen so that one payment or mail fits and the next does not. Runs turn off
TLC's deadlock check because every bound ends the system: days, payments, calls
and events run out and idle threads remain (`decisions` and `browser_callers` keep
it: an inquiry can always be closed, the configuration always switched). The
longest runs are `email_callers` (4.0 million states), `wallet_one_worker` (2.4),
`wallet_client` (2.3) and `browser_callers` (1.2).

Fairness is assumed in `FairSpec` of `WalletGovernor` alone and only of a
worker thread that has a request: `capped_send` runs to its end because each
ledger call and each wallet call returns or raises within a timeout of its own
(SQLite's busy timeout, `httpx.Client(timeout=...)` in `backend.py`). Requests
need not arrive, days need not pass, faults need not happen. `SendingSettles`
is checked without crashes: after one, a request in sending stays there, by
design ("a bundle that shows sending is refused").

Every property of a passing run has a mutant in `PROJECT.json`: a change of one
definition, of the kind a bug in that code would be, under which TLC finds the
property violated. Mutants that change a whole action stand in the modules next
to the action.

## 4. The proofs

Each theorem holds for every value of the constants of its module, from the
assumptions the module states: those about `WalletGovernor` for every set of
threads, spend requests, keys and request bodies and all limits
(`RequestsAssumption`, `LimitsAssumption`, `CacheAssumption`), those about `LedgerChain` for every set
of writers and records and any number of events and stamps (`RecordsAssumption`),
those about the plugins for any number of callers, requests and lost calls
(`LimitsAssumption`, `StoresAssumption`), those about missions for any missions,
documents and amounts (`MissionAssumption`), those about the decisions for any
requests, plans, pages, profiles, claims and reviews of the types that
`DecisionsAssumption` names. Which faults and which overlap a theorem about the wallet
admits is said with it.

- `WalletGovernorProofs!TypeCorrect`: `Spec => []TypeOK`. `TypeOK` alone is not
  inductive: a thread that writes a status must have a spend request to write
  it to. `TypeInv` adds `Working`: a thread at work has a request, and past the
  bundle check that request names a spend request.
- `WalletGovernorProofs!PaysOnce`: if requests for one spend request, or under
  one key, do not overlap (`~Overlap`), each spend request is paid at most once,
  through crashes, failing ledger writes and lost answers. The invariant
  `PayInv` adds to `TypeInv`:
  `Alone` (no two threads work at the same spend request), `Stage` (at each
  place of the handler the status in the ledger is still the one the thread
  read or wrote, and past `MarkSending` nothing was paid before the thread pays)
  and `PaidWhileSending` (a paid request is in sending or past it).
  `AtMostOneBroadcast` is not inductive because nothing in it says that a
  thread about to pay has not been preceded by another. Each thread step
  changes only its thread and its spend request (`Local`), so that the other
  threads' stages survive (`OtherStages`).
- `WalletGovernorProofs!ImplementsLifecycle`: under the same assumption every
  step of the service is a step of `SpendLifecycle` or leaves it alone.
- `WalletGovernorProofs!PaymentsAreAnnounced` (`AnnouncedBeforePaid`): with every
  fault and any overlap. `Announcing` says of a thread at or past a place of the
  handler what it has written by then: the sending status past `MarkSending`, the
  audit event past `LogSendStarted`. A spend request keeps both, whoever wrote them.
- `WalletGovernorProofs!UnlocksAreGuarded` (`UnlockedIsGuarded`): with any overlap,
  when the only fault is a wallet that refuses calls. A crash or a lost answer
  leaves the wallet open until the passphrase timeout.
- `WalletGovernorProofs!RefusalsAreUnpaid` (`RefusedIsUnpaid`): without overlap
  and with the same fault. `Attended` says that a request in sending has the
  thread that put it there still at work on it, so that no other thread can find it
  in sending and write failed over a payment; `Mine` is what that thread knows of its
  request when it fails.
- `WalletGovernorProofs!FirstAnswersStay` (`AnswersAreStable`): without overlap,
  with every fault. Nothing guards the store itself; the invariant is that the key
  of a thread that may still store an answer has none yet (`Fresh`), because no two
  threads work under one key (`KeysApart`), each stores once (`Answering`), and the
  `finally` block of a failed payment does not go on to record one (`Finishing`).
- `WalletGovernorProofs!KeysPayOnce` (`KeyPaysOnce`): without overlap and when only
  the wallet refuses calls. A key that has paid is in the cache with the request it
  paid, or in the hands of the thread that will put it there (`PaidUnder`); so the
  thread that is about to pay, whose key has no answer, pays under a new one. A
  restart empties the cache and with it this argument: section 6.
- `WalletGovernorProofs!RecordsStayTrue` (`RecordsAreTrue`), `SentAnswersStayTrue`
  (`SentAnswerIsTrue`) and `StatusesAreLogged` (`EveryStatusLogged`): under every
  fault, without overlap, and if a key is used for one spend request. The last is
  what the requests of `wallet_one_worker` satisfy, and is needed because the ledger
  skips a row or an event whose key is used: under a key shared by two spend requests
  the skipped row would be the other one's. `RecordInv` follows the row from the
  record to the answer (`Recorded`); `LoggedInv` says that the event of a status is of
  a request that has reached it (`EventsAreOfStatuses`), so that an event is skipped
  only when the status it would record is still there.
- `WalletGovernorProofs!OneWorkerKeepsLimits` (`RecordedWithinLimits`): with one thread
  and every fault. Between the checks and the record the day may change; the
  invariant is that nothing is recorded for a day after the one that was checked
  (`FitsDay`, `NothingAhead`), so that later days and windows have at least the room
  that the check saw. With two threads the limits fail: `wallet_limit_race`.

That `~Overlap` is needed is what `wallet_retry_overlap` shows. It is an
assumption about the callers (a client that waits for each attempt to end, and
never uses one key or one spend request twice at a time); the code does not
enforce it. The client comes close:

- `WalletClientProofs!ClientKeepsToSpec`: the callers, with the service, do nothing
  that the specification of the governor does not expect of a caller.
- `WalletClientProofs!AttemptsPayOnceInAll` (`AttemptsPayOnce`) and `ClientPaysOnce`
  (`AtMostOneBroadcast`, `RefinesLifecycle`): under all faults, and *without*
  `~Overlap`. From `ClientsAssumption` (the caller that has gone is no client),
  `AmountsAssumption` (an amount is at most its total) and
  the invariant `ClientInv`: each spend request has one attempt that ever posts it,
  for ids are fresh (`FreshIds`), and only an attempt that found its key unused writes
  a row, which the service wants to see before it pays. Of two attempts under one
  key that both have a row neither had written it when the other began: `abreast`
  has the pair. That such a pair can both pay is a fact about the code, section 6.
  What `wallet_retry_overlap` shows needs a caller that posts one spend request twice.
- `WalletClientProofs!ReportsStayTrue` (`ReportsAreTrue`), under all faults. What a
  caller was told outlives the call, so `ReportInv` follows an answer from the thread
  that gives it: what a thread about to reject or to answer knows of its spend request
  (`Assured`), that it works on the request of the caller it will answer (`Serving`),
  that a caller's answer and then its report speak of that request (`AnswersKept`,
  `ReportsKept`). A refusal is final because ids are fresh: nothing is paid and no
  thread is at work for a call that is not yet posted (`NotBegun`), and the cache
  has no answer for it (`NoReplays`).

- `LedgerChainProofs!LedgerTypeCorrect`, `KeysAreUnique` (`OneEventPerKey`) and
  `RowsKeepTheirEvents` (`RowsAreLogged`). `TypeInv` adds to the type that a
  writer at work has a record, of the kind that its step writes. Uniqueness of
  keys rests on the insert, not on the lookup before it.
- `LedgerChainProofs!VerifierIsExact`: `verify_event_chain` accepts a log if and
  only if each event was added after all others and on top of the newest
  (`InOrder`), for any number of writers. The verifier sees neither the order
  of insertion nor who read what. `ChainInv` adds that a hash covers payload and
  previous hash (`Hashed`) and that an event names only a hash that existed
  before it (`NamesPast`). From these: no two events have the same hash
  (`HashesDiffer`, by a smallest counterexample: equal hashes name equal
  previous hashes, which belong to two earlier events); in a log that verifies
  each event was added later than the one the verifier puts before it
  (`LaterIsAddedLater`); so the order of the stamps is the order of insertion.
- `LedgerChainProofs!BreaksStay` (`BreakIsPermanent`): no later write repairs a
  chain that does not verify.
- `LedgerChainProofs!SerialLedgerVerifies`: with one writer that writes no record
  after an event with a later stamp (`Prompt`), the chain always verifies. Both
  conditions are needed: `ledger_late_record` breaks the chain without `Prompt`,
  and in `ledger_two_writers` two writers break it.

- `EmailGovernorProofs`: `EmailTypeCorrect`, `ReportsAreOfMails`
  (`ReportedMailsLeft`), `OptOutsAreHonoured` (`OptOutIsHonoured`), `RepeatsSendOnce`
  and `ThreadsKeepTheirLimit` (`ThreadWithinLimit`, a part of `LimitsHold`). They are
  facts about counts: mails that left, events that report them, callers at each
  place of the call, calls that were lost. No count is bounded by its own guard, as
  the check is long past when the mail leaves; a sum of counts is. `EmailInv` has one
  such sum for each property (`ThreadHasRoom`, `RepeatsAreOver`, `OptOutsAreOver`),
  and `Accounted` for the mails that the log does not know yet: a step of the call
  moves one unit from one summand to another, and the only step that adds one is the
  passed check, which saw that there is room. `RepeatsSendOnce` is about requests
  whose key is their own (`OwnKey`): for them any event is the answer to every later
  call (`OverIsAnswered`), whichever event was stamped or written first. Of requests
  that share a key the first by stamp is the one that is answered from the log, and
  which one that is may still change.
- `EmailGovernorProofs!LimitsAreKept` (`LimitsHold`): each of the three limits, plus
  the lost calls, plus the callers but one, if no two
  requests share a key (`KeysApart`, an assumption about the callers that the code does
  not enforce): a request whose key was used first by another
  has an event but no answer of its own, and could be repeated on later days past the
  limits of its date. `DayInv` keeps the sums above for each day and each set of
  requests that a limit counts (`DayHasRoom`), over the mails by the day they leave
  and the events by the day they are stamped (`AccountedToday`), where `Carried` has the callers whose event is stamped and not
  yet written; a caller dated
  before today counts as one that may still send until it is past its check, because
  its check looks at another day.
- `BrowserGovernorProofs`: `BrowserTypeCorrect` and `CompletionsArePrepared`
  (`CompletionHasPrepare`). The prepare that a caller has found stays in the log
  (events are never removed) and is older than any stamp the caller takes.
- `BrowserGovernorProofs!RunsStayAccounted` (`RunsAreAccounted`) and `AnswersStayFew`
  (`AnswersAgree`): `CountInv` has sums of the same kind. What ran for an action id
  without an event has a caller between run and event, or lost one (`RunsHaveCallers`,
  `RunsHaveRoom`): the runs are bounded by callers and lost calls, and not by the
  preparations, which an execution does not need. The events that decided the calls
  for an operation and action, and the callers that may still add one, are at most the
  callers (`AnswersHaveRoom`), since after the first such event every lookup finds one
  (`AnswersAreFound`: a finite set of events has a first). Every event that a lookup
  may find is counted, written late or not (`EventsAreAnswers`); the rejection that a
  conflict writes has an earlier event before it and is never the first
  (`ConflictsFollow`).
- `PluginStoresProofs!PromotionsAreBacked` (`PromotionIsBacked`), for any number of
  overlapping calls and deaths: a call's remaining steps are a suffix of one of the
  few lists of steps, and for each suffix the invariant says which files exist.
- `PluginStoresProofs!ConflictsAreNeverHidden` (`ConflictsSurface`), likewise:
  `ScheduleInv` says of a pair of entries that clash that the *later* one is marked,
  in the file and in every list a call is about to write. That, unlike the property,
  survives the cut at the front (`ExtendedInOrder`) and a write over a newer file.

- `MissionWorkflowProofs!MissionsKeepTheirGates` (`ImplementsGates`): every step of a
  mission is a step of `MissionGates` or leaves it alone. `GateInv`: the gates before
  the one a mission is at approved it, those after it are silent, and it acts only
  with all eight behind it (`InSequence`).
- `MissionWorkflowProofs!RerunsDoNothing` (`RerunHasNoEffect`): a mission past the
  duplicate check, or that has acted, is about an opportunity that was not in the
  ledger when it began (`NothingTwice`); the ledger only grows.
- `MissionWorkflowProofs!SpendsAreAuthorized` (`SpendIsAuthorized`): `SpendInv` adds to
  `GateInv` that a mission's policy decision is the one on its own payment and that
  what it pays is what it was asked to pay (`Grounded`), and that a spend is
  authorized when made, by a mission that decides nothing any more (`SpendsOK`). The
  argument is the agreement of two halves of the code that never call each other: for
  each error of the governor's bundle there is a gate that would have stopped it.

- `DecisionsProofs`: `PolicyOnlyHardens` (`PolicyNeverSoftens`), `PlansOnlyHarden`
  (`PlanNeverSoftens`), `UnknownsNeverHelp` (`UnknownFactsFailClosed`),
  `PayersAreLeftAlone` (`PaidInFullIsNotDunned`), `NothingIsRevived`
  (`BadNewsNeverRevives`) and `NoApprovalGoesStale` (`StaleApprovalsAreRechecked`), for
  every configuration of the skills. Each skill's lists of checks are first shown to
  come to one formula (`BlockRulesFire`, `RejectsFire`, `EligibleSuits`,
  `GoesOnMeans`), then each change to be in a relation "no better than" (`AsksMore`,
  `CostsMore`, `NoBetter`), then the verdict to be monotone in it (`NoMilderVerdict`,
  `NoMilderPlan`, `NoMilderTier`, `NoRevival`); for the profile, a fact that an
  eligible operator need not know is one that no check reads (`LearntStillSuits`). The
  invariant is the type of the inquiry. What a sequence of receipts comes to is a
  recursive function: that it exists and yields numbers is proved from the
  well-foundedness of the naturals (`SumsExist`, `SumsAreNumbers`, by a smallest
  counterexample). These proofs corrected the model: of a plan whose fees are not
  known no fee grows, a category that is lost is one that did no harm, and a claim
  that expects nothing is not "paid in full".

Only model-checked: `SendingSettles`, which is liveness under fairness, out of the
prover's reach. Every other property of a passing run is stated by a theorem. Of the
runs that are expected to fail, two check what is false of the code in general
(`PaidWithinDailyLimit`, `ChainVerifies`) and one what holds without overlap only.

## 5. What is not modelled

- Text: extraction, templates, compliance patterns, the similarity of two texts.
  A page is what the skills can find in it.
- Reads that change nothing: balances, timelines, exports, metrics.
- The bundle's static comparisons, the email checks that do not depend on time:
  one flag each, see above. That those checks are complete is not shown.
- Byte-level encodings and SHA-256; a hash is taken to determine what it hashes.
- The wallet, the mail transport and the SQLite engine are external: modelled
  from how the code uses them. SQLite transactions are atomic and durable and
  writers exclude each other.
- Operator profile, opportunity index, artifact renderer, metrics export, the
  observation plugins and the ledger API plugin: file stores without a rule of
  their own, read-only fetches, exports and delegation. The first two are next.
- Files are written whole or torn, and a torn file is noticed by its reader;
  half-written content that happens to parse is not modelled.

## 6. Where the code and its documents part

Three runs of the table are expected to fail; `PROJECT.json` "findings" has the
quotations. Met while modelling, and described here without a run:

- After a restart the service no longer knows its keys: a key that has paid for
  one spend request would pay for another one that has a row
  (`docs/WALLET_GOVERNOR_DESIGN.md:15`). An attempt of the client that begins when an
  earlier one under its key has its row makes no such row, also after a restart. It
  is then answered `rejected`, although its key has paid: `rejected` speaks of the
  spend request, not of the key.
- Two attempts of the client under one key that both look the key up before either
  has its row both get one, the second without an event (`repository.py:541`, 544,
  245), and under their two spend request ids both are paid: by two workers the
  second of which finds no answer under the key yet, or after a restart.
  `AttemptsPayOnce` says that only such attempts can.
- A mail request under a key whose first use was another request is mailed each
  time it is repeated (`email_governor/service.py:105`); `RepeatSendsOnce` is about
  keys of one request, and the run has no others.
- An execution that is completed and logged can be answered by a refusal when it is
  repeated: an event with an earlier stamp that is written later is then the first
  (`browser_governor/service.py:106`, 356). `AnswersAgree` bounds how many events
  can decide, and not that it is one.
- The ledger row of a promotion is never written: its key is that of the
  ingestion (`download_quarantine_plugin/service.py:116, 166`,
  `record_structured_result`), while `PLUGIN.md` there promises to record
  promotion metadata. The mark in the metadata file is the only trace.
- Of two overlapping calls of the scheduler one entry is lost, and the schedule is
  cut to `max_items` from the front (`deadline_scheduler_plugin/service.py:43-75`):
  "Do not silently drop expired or conflicting deadlines" (`docs/PLUGINS1_TODO.md:463`)
  is kept by neither, and a conflict with a lost entry is not seen.
  `ConflictsSurface` is about the entries that are left. An entry scheduled during a
  cooldown keeps that state. A missing schedule file reads as an empty one.
- Two missions that check for duplicates before either has written its
  opportunity both go on; `RerunHasNoEffect` is about a mission that begins
  later.
- Unclear payment terms turn a rejection by the TOS checker, for gambling say,
  into `human_review` (`analysis.py:146`). The workflow stops at both.
- The terms change monitor knows two of the wordings the TOS checker reads as a
  ban on automation: "bot use prohibited" is a change of formatting to it
  (`terms_change_monitor/runner.py:93`, against `SKILL.md:23` there). It asks for
  a recheck, which `StaleApprovalsAreRechecked` shows, but not for `block`.
- The workflow's readers of the rules text take the first document with the URL
  of the chosen one (`workflow.py:765`), which may be another.
- A claim may expect an amount of 0 (`revenue_reconciler/models.py:31`); overdue and
  without a receipt it is `late`, and a follow-up is drafted for nothing owed.
- A payout that matched its claim, with the proof at hand, is answered
  `stop_and_record_loss` like one that never came
  (`payout_followup_planner/runner.py:65`), and a deadline of zero days sorts last
  (`timebox_and_queue_planner/runner.py:60`).
