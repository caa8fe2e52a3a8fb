-------------------------- MODULE MissionWorkflow --------------------------
(***************************************************************************)
(* The mission workflow, MoneyBotOrchestrator.run_dry_run of orchestration *)
(* /workflow.py: scout, duplicate check, eight gates, email draft, wallet  *)
(* quote, payment, review.  Missions run beside each other over one        *)
(* ledger, and any of them may die between two steps: nothing resumes it,  *)
(* it is run again as a mission of its own.  The skills are the operators  *)
(* of RulesScreening, MissionPlanning and MissionOutcome; the wallet       *)
(* governor is seen through its answers.                                   *)
(***************************************************************************)
EXTENDS RulesScreening, MissionPlanning, MissionOutcome

CONSTANTS
  Missions,
  MissionRequests,   \* DryRunMissionRequest: what a mission may be asked
  Fees,              \* what the network may charge for a payment
  NoRequest

\* Amounts are whole dollars here; the pattern that finds one takes no sign (scout
\* runner.py:40-45).
ASSUME MissionAssumption ==
  \A r \in MissionRequests : \A i \in DOMAIN r.documents :
    r.documents[i].page.amounts \in Seq(Nat)

VARIABLES
  request,    \* what the mission was asked, NoRequest before
  at,         \* its next step, or how it ended
  chosen,     \* the document of the opportunity it selected
  verdicts,   \* what its gates have answered
  acts,       \* what it has done: "draft", "quote", "pay"
  spends,     \* the spend requests it has made, with the bundle they name
  spent,      \* what the ledger says its payments cost
  answer,     \* the wallet client's answer to its payment
  report,     \* DryRunMissionResult: status, stop stage, review decision
  known,      \* the opportunity rows of the ledger, by mission
  knownBefore \* history: the rows there when the mission began

missionVars == <<request, at, chosen, verdicts, acts, spends, spent, answer, report>>
vars == <<missionVars, known, knownBefore>>

Gates ==
  << "eligibility", "initial_policy", "tos_legal", "budget", "counterparty_risk",
     "execution_policy", "submission_package", "deliverable_quality" >>
GateNames == {Gates[i] : i \in DOMAIN Gates}
Ended == {"done", "failed", "died"}
NoReport == [status |-> "none", stop |-> "none", review |-> "none"]

(***************************************************************************)
(* A mission request r and the document d of the selected opportunity.     *)
(* The scout and the TOS checker read d; the other readers of rules text   *)
(* take the first document with the URL of d.  A document is one of        *)
(* RulesScreening with its URL, title, rules, text (what the duplicate     *)
(* detector compares), method (the payout needles of its payment method)   *)
(* and deadline, and the wallet access patterns that its name and its      *)
(* category mention.                                                       *)
(***************************************************************************)
SourceDocument(r, d) ==
  r.documents[Min({i \in DOMAIN r.documents : r.documents[i].url = d.url})]

Fingerprint(d) ==
  [url |-> d.url, title |-> d.title, platform |-> d.title, rules |-> d.rules,
   text |-> d.text, payout |-> RevenueHigh(d.page)]

Pays(r, d) == r.payment /\ RequiredSpend(d.page) > 0

\* What is the same in the two policy requests.  Their descriptions repeat a text of
\* the document, and the guard looks for its patterns there.
PolicyRequest(action, category, amount, mentions, metadata) ==
  [ action |-> action, category |-> category, amount |-> amount, counterparty |-> TRUE,
    patterns |-> mentions, metadata |-> metadata, approved |-> TRUE, newAccount |-> FALSE,
    sendsEmail |-> FALSE, wallet |-> FALSE, claims |-> FALSE, userData |-> FALSE ]

InitialPolicyRequest(d) ==
  PolicyRequest("research", "opportunity_analysis", RequiredSpend(d.page),
                d.mentions.category, {"opportunity_id"})

\* Mutant: the payment is approved for the platform, not for its payee.
ExecutionPolicyRequest_Platform(r, d) ==
  LET kind == IF Pays(r, d) THEN <<"purchase", "purchase">>
              ELSE IF r.recipient THEN <<"email", "draft_email">>
              ELSE <<"research", "research">>
      base == PolicyRequest(kind[1], kind[2], RequiredSpend(d.page), d.mentions.name,
                            References \ {"bot_owned_account_context"})
  IN  [request |-> [base EXCEPT !.sendsEmail = r.recipient, !.wallet = Pays(r, d)],
       payment |-> Pays(r, d), counterparty |-> d.title,
       tools |-> IF r.payment THEN {"wallet_governor_client"} ELSE {"dry_run"}]

ExecutionPolicyRequest(r, d) ==
  LET kind == IF Pays(r, d) THEN <<"purchase", "purchase">>
              ELSE IF r.recipient THEN <<"email", "draft_email">>
              ELSE <<"research", "research">>
      base == PolicyRequest(kind[1], kind[2], RequiredSpend(d.page), d.mentions.name,
                            References \ {"bot_owned_account_context"})
  IN  [request |-> [base EXCEPT !.sendsEmail = r.recipient, !.wallet = Pays(r, d)],
       payment |-> Pays(r, d),
       counterparty |-> IF r.payment THEN r.payee ELSE d.title,
       tools |-> IF r.payment THEN {"wallet_governor_client"} ELSE {"dry_run"}]

BudgetRequest(r, d, given) ==
  LET spend == RequiredSpend(d.page)
  IN  [ opportunity |-> TRUE, policy |-> given.initial_policy,
        claimedPolicy |-> given.initial_policy, tos |-> given.tos_legal,
        claimedTos |-> given.tos_legal, spend |-> spend, fees |-> 0, feesKnown |-> TRUE,
        otherFees |-> 0, recurring |-> 0, capped |-> TRUE, recurringCap |-> 0,
        maxLoss |-> spend, balance |-> r.balance, remaining |-> r.remaining,
        categories |-> {"purchase"}, revenue |-> RevenueHigh(d.page),
        revenueUnknown |-> FALSE ]

PartyRequest(r, d) ==
  LET page == SourceDocument(r, d).page
  IN  [ clearRules |-> PlatformPolicies(d.page).payment # "unknown",
        clearDeadlines |-> d.deadline, history |-> "unknown", disputes |-> 0,
        support |-> "unknown", suspicious |-> Has(page, {"suspicious"}),
        offPlatform |-> Has(page, {"off-platform"}), kyc |-> Has(page, {"kyc"}),
        domain |-> "unknown" ]

(***************************************************************************)
(* The verdict of each gate; given are the verdicts before it.             *)
(***************************************************************************)
Verdict(gate, r, d, given) ==
  LET page == SourceDocument(r, d).page
  IN  CASE gate = "eligibility" -> Eligibility(page, r.profile, d.method \cup {"btc"})
        [] gate = "initial_policy" -> PolicyDecision(InitialPolicyRequest(d))
        [] gate = "tos_legal" -> TosDecision(d.page, d.rules # "none")
        [] gate = "budget" -> BudgetDecision(BudgetRequest(r, d, given))
        [] gate = "counterparty_risk" -> RiskTier(PartyRequest(r, d))
        [] gate = "execution_policy" ->
             PolicyDecision(ExecutionPolicyRequest(r, d).request)
        [] gate = "submission_package" -> SubmissionStatus(page)
        [] gate = "deliverable_quality" ->
             DeliverableStatus(
               [fields |-> IF page.fields THEN {"field"} ELSE {},
                artifacts |-> RequiredArtifacts(page), references |-> {}], r.handedIn)

Approval ==
  [ eligibility |-> "eligible", initial_policy |-> "allow", tos_legal |-> "proceed",
    budget |-> "execute_request", execution_policy |-> "allow",
    submission_package |-> "ready", deliverable_quality |-> "passed" ]

\* Mutant: a gate stops a mission only when it refuses it outright.
Passes_UnlessRefused(gate, r, verdict) ==
  verdict \notin {"blocked", "block", "reject", "failed", "high"}

\* Only the tier of the counterparty may be waived, and only "high" counts.
Passes(gate, r, verdict) ==
  IF gate = "counterparty_risk" THEN ~(r.riskGate /\ verdict = "high")
  ELSE verdict = Approval[gate]

-----------------------------------------------------------------------------
Init ==
  /\ request = [m \in Missions |-> NoRequest]
  /\ at = [m \in Missions |-> "idle"]
  /\ chosen = [m \in Missions |-> 0]
  /\ verdicts = [m \in Missions |-> [stage \in GateNames \cup {"duplicate_check"} |-> "none"]]
  /\ acts = [m \in Missions |-> {}]
  /\ spends = {}
  /\ spent = [m \in Missions |-> 0]
  /\ answer = [m \in Missions |-> "none"]
  /\ report = [m \in Missions |-> NoReport]
  /\ known = {}
  /\ knownBefore = [m \in Missions |-> {}]

Document(m) == request[m].documents[chosen[m]]
Goto(m, step) == at' = [at EXCEPT ![m] = step]
Answer(m, stage, verdict) == verdicts' = [verdicts EXCEPT ![m][stage] = verdict]

\* The mission starts and scouts; without a candidate it raises.
Begin(m) ==
  /\ at[m] = "idle"
  /\ \E r \in MissionRequests :
       LET selected == SelectedOpportunity(r.documents, {})
       IN  /\ request' = [request EXCEPT ![m] = r]
           /\ IF selected = {} THEN Goto(m, "failed") /\ UNCHANGED chosen
              ELSE /\ chosen' = [chosen EXCEPT ![m] = CHOOSE i \in selected : TRUE]
                   /\ Goto(m, "selected")
  /\ knownBefore' = [knownBefore EXCEPT ![m] = known]
  /\ UNCHANGED <<verdicts, acts, spends, spent, answer, report, known>>

\* Mutant: an opportunity counts as known once its mission is done.
CheckDuplicate_OfTheDone(m) ==
  /\ at[m] = "selected"
  /\ LET rows == {row.print : row \in {k \in known : at[k.mission] = "done"}}
         duplicate == request[m].enforce /\ IsDuplicate(Fingerprint(Document(m)), rows)
     IN  /\ Answer(m, "duplicate_check", IF duplicate THEN "duplicate" ELSE "none")
         /\ Goto(m, IF duplicate THEN "finalize" ELSE "fresh")
  /\ UNCHANGED <<request, chosen, acts, spends, spent, answer, report, known, knownBefore>>

\* The detector reads the rows there are; the row of this mission comes later.
CheckDuplicate(m) ==
  /\ at[m] = "selected"
  /\ LET rows == {row.print : row \in known}
         duplicate == request[m].enforce /\ IsDuplicate(Fingerprint(Document(m)), rows)
     IN  /\ Answer(m, "duplicate_check", IF duplicate THEN "duplicate" ELSE "none")
         /\ Goto(m, IF duplicate THEN "finalize" ELSE "fresh")
  /\ UNCHANGED <<request, chosen, acts, spends, spent, answer, report, known, knownBefore>>

\* create_opportunity, and the source document is archived.
OpenOpportunity(m) ==
  /\ at[m] = "fresh"
  /\ known' = known \cup {[mission |-> m, print |-> Fingerprint(Document(m))]}
  /\ Goto(m, Gates[1])
  /\ UNCHANGED <<request, chosen, verdicts, acts, spends, spent, answer, report, knownBefore>>

\* A gate is asked, its row is recorded, and the mission goes on or stops.
TakeGate(m, i) ==
  /\ at[m] = Gates[i]
  /\ LET verdict == Verdict(Gates[i], request[m], Document(m), verdicts[m])
     IN  /\ Answer(m, Gates[i], verdict)
         /\ Goto(m, IF ~Passes(Gates[i], request[m], verdict) THEN "finalize"
                    ELSE IF i < Len(Gates) THEN Gates[i + 1] ELSE "draft")
  /\ UNCHANGED <<request, chosen, acts, spends, spent, answer, report, known, knownBefore>>

DraftEmail(m) ==
  /\ at[m] = "draft"
  /\ acts' = [acts EXCEPT ![m] = @ \cup (IF request[m].recipient THEN {"draft"} ELSE {})]
  /\ Goto(m, "quote")
  /\ UNCHANGED <<request, chosen, verdicts, spends, spent, answer, report, known, knownBefore>>

HandoffAmount(m) == TotalBudget(BudgetRequest(request[m], Document(m), verdicts[m]))

\* The client turns a refused quote into an answer, but lets the errors of the
\* limits and the balance it then reads escape: the mission fails.
QuotePayment(m) ==
  /\ at[m] = "quote"
  /\ IF HandoffAmount(m) = 0 THEN Goto(m, "finalize") /\ UNCHANGED acts
     ELSE /\ acts' = [acts EXCEPT ![m] = @ \cup {"quote"}]
          /\ \E step \in {"finalize", "failed"} \cup (IF request[m].payment THEN {"pay"} ELSE {}) :
               Goto(m, step)
  /\ UNCHANGED <<request, chosen, verdicts, spends, spent, answer, report, known, knownBefore>>

\* The record each kind of evidence is about, in the order it was archived.
EvidenceSubject ==
  [ source_document |-> "opportunity", eligibility_snapshot |-> "account_eligibility",
    counterparty_snapshot |-> "counterparty_profile",
    submission_snapshot |-> "submission_package",
    quality_snapshot |-> "deliverable_quality", email_draft |-> "email_draft" ]
WalletSubjects == {"opportunity", "budget_plan", "tos_legal_check", "spend_request"}

\* wallet_client.spend: the preflight or the governor may reject it, and an error
\* leaves open whether it was paid and whether the payment is recorded already.
Pay(m) ==
  /\ at[m] = "pay"
  /\ acts' = [acts EXCEPT ![m] = @ \cup {"pay"}]
  /\ spends' = spends \cup
       {[mission |-> m, amount |-> HandoffAmount(m), counterparty |-> request[m].payee,
         category |-> "purchase",
         evidence |-> {kind \in DOMAIN EvidenceSubject :
                         EvidenceSubject[kind] \in WalletSubjects}]}
  /\ \E result \in {"sent", "rejected", "error"}, fee \in Fees, recorded \in BOOLEAN :
       /\ result = "sent" => recorded
       /\ result = "rejected" => ~recorded
       /\ answer' = [answer EXCEPT ![m] = result]
       /\ spent' = [spent EXCEPT ![m] = IF recorded THEN HandoffAmount(m) + fee ELSE 0]
  /\ Goto(m, "finalize")
  /\ UNCHANGED <<request, chosen, verdicts, report, known, knownBefore>>

(***************************************************************************)
(* _finalize_result: the summary is archived, and a mission that got as    *)
(* far as a plan is reconciled, reviewed and summarized.                   *)
(***************************************************************************)
StopStages(m) ==
  {stage \in GateNames : verdicts[m][stage] # "none"
                          /\ ~Passes(stage, request[m], verdicts[m][stage])}
    \cup (IF verdicts[m].duplicate_check = "none" THEN {} ELSE {"duplicate_check"})

Status(m) ==
  IF StopStages(m) = {} THEN "completed"
  ELSE IF "duplicate_check" \in StopStages(m) THEN "blocked"
  ELSE IF "counterparty_risk" \in StopStages(m) THEN "needs_review"
  ELSE verdicts[m][CHOOSE stage \in StopStages(m) : TRUE]

Review(m) ==
  LET r == request[m]
      receipts == IF r.observed = 0 THEN <<>>
                  ELSE <<[amount |-> r.observed, asset |-> "USD", payer |-> r.payee]>>
      claim == [amount |-> RevenueHigh(Document(m).page), asset |-> "USD", tolerance |-> 0,
                payer |-> r.payee, overdue |-> FALSE]
      books == [spent |-> spent[m], payments |-> IF spent[m] > 0 THEN 1 ELSE 0,
                budget |-> HandoffAmount(m), failed |-> IF answer[m] = "error" THEN 1 ELSE 0,
                rejected |-> IF answer[m] = "rejected" THEN 1 ELSE 0, evidence |-> 1,
                emails |-> IF "draft" \in acts[m] THEN 1 ELSE 0]
      outcome == [revenue |-> r.observed, unrealized |-> 0, fees |-> 0,
                  success |-> r.observed > 0, stopped |-> Status(m) # "completed",
                  flags |-> ReconcileAdvice(Reconcile(claim, receipts)).flags]
  IN  ReviewDecision(books, outcome)

Finalize(m) ==
  /\ at[m] = "finalize"
  /\ report' = [report EXCEPT ![m] =
       [status |-> Status(m),
        stop |-> IF StopStages(m) = {} THEN "none"
                 ELSE CHOOSE stage \in StopStages(m) : TRUE,
        review |-> IF verdicts[m].budget = "none" THEN "none" ELSE Review(m)]]
  /\ Goto(m, "done")
  /\ UNCHANGED <<request, chosen, verdicts, acts, spends, spent, answer, known, knownBefore>>

\* The process dies, or a call of a skill raises; nothing of the mission is undone.
Die(m) ==
  /\ at[m] \notin Ended \cup {"idle"}
  /\ Goto(m, "died")
  /\ UNCHANGED <<request, chosen, verdicts, acts, spends, spent, answer, report, known,
                 knownBefore>>

Step(m) ==
  \/ Begin(m) \/ CheckDuplicate(m) \/ OpenOpportunity(m)
  \/ \E i \in DOMAIN Gates : TakeGate(m, i)
  \/ DraftEmail(m) \/ QuotePayment(m) \/ Pay(m) \/ Finalize(m)

Next == \E m \in Missions : Step(m) \/ Die(m)

Spec == Init /\ [][Next]_vars

-----------------------------------------------------------------------------
(***************************************************************************)
(* Properties.                                                             *)
(***************************************************************************)
Approved(m, gate) ==
  \/ verdicts[m][gate] = "execute_request" /\ gate = "budget"
  \/ verdicts[m][gate] = "eligible" /\ gate = "eligibility"
  \/ verdicts[m][gate] = "allow" /\ gate \in {"initial_policy", "execution_policy"}
  \/ verdicts[m][gate] = "proceed" /\ gate = "tos_legal"
  \/ verdicts[m][gate] \in {"low", "medium"} /\ gate = "counterparty_risk"
  \/ verdicts[m][gate] = "high" /\ gate = "counterparty_risk" /\ ~request[m].riskGate
  \/ verdicts[m][gate] = "ready" /\ gate = "submission_package"
  \/ verdicts[m][gate] = "passed" /\ gate = "deliverable_quality"

GatesPassed(m) ==
  Cardinality({i \in DOMAIN Gates : \A j \in 1 .. i : Approved(m, Gates[j])})

Promise == INSTANCE MissionGates WITH
  GateCount <- Len(Gates),
  Acts <- {"draft", "quote", "pay"},
  passed <- [m \in Missions |-> GatesPassed(m)],
  done <- acts,
  over <- {m \in Missions : at[m] \in Ended}

\* A mission drafts, quotes and pays only after every gate has approved it, one after
\* the other, and does nothing once it has ended, whatever verdict a gate gives that
\* is neither an approval nor a refusal (workflow.py:201, 222, 249, 290, 322, 357,
\* 396, 429).
ImplementsGates == Promise!Spec

AllowedSpendEvidenceTypes ==
  { "terms_snapshot", "tos_snapshot", "receipt", "invoice", "html_snapshot",
    "wallet_governor_response", "budget_snapshot", "policy_snapshot",
    "opportunity_snapshot", "submission_receipt", "payment_request", "source_document",
    "email_draft" }
AllowedSpendCategories ==
  { "purchase", "infrastructure", "domain", "hosting", "listing_fee", "software_tool",
    "software_credit", "bounty_submission_fee", "experiment_material" }

\* What the wallet governor will find wrong with the records a spend request names.  A
\* mission makes them all itself, so that none is missing or about another opportunity.
PolicyErrors(s) ==
  LET policy == ExecutionPolicyRequest(request[s.mission], Document(s.mission))
  IN  [ policy_not_allow |-> verdicts[s.mission].execution_policy # "allow",
        policy_not_executable |->
          \/ ~Spends(policy.request)
          \/ ~policy.request.wallet
          \/ ~policy.payment
          \/ "wallet_governor_client" \notin policy.tools,
        policy_amount_exceeded |-> policy.request.amount < s.amount,
        policy_counterparty_mismatch |-> policy.counterparty # s.counterparty,
        policy_category_mismatch |-> policy.request.category # s.category ]

\* The governor keeps a list of its own of what evidence may be about; the terms check
\* names the source document.
EvidenceErrors(s) ==
  LET related == {"opportunity", "budget_plan", "spend_request", "tos_legal_check"}
  IN  [ evidence_missing |-> "source_document" \notin s.evidence,
        evidence_unrelated |->
          \E kind \in s.evidence : EvidenceSubject[kind] \notin related,
        evidence_type_not_allowed |-> ~(s.evidence \subseteq AllowedSpendEvidenceTypes) ]

BundleErrors(s) ==
  LET given == verdicts[s.mission]
      plan == BudgetRequest(request[s.mission], Document(s.mission), given)
  IN  [ policy |-> ~Clear(PolicyErrors(s)),
        evidence |-> ~Clear(EvidenceErrors(s)),
        budget_not_executable |-> given.budget # "execute_request",
        budget_amount_exceeded |-> s.amount > AtMost(plan.maxLoss, TotalBudget(plan)),
        budget_wallet_spend_not_allowed |-> s.category \notin plan.categories,
        tos_not_proceed |-> given.tos_legal # "proceed",
        category_unknown |-> s.category \notin AllowedSpendCategories ]

\* Every payment a mission asks for is one the governor can find authorized: the
\* policy it was given for the payment, the plan, the terms and the evidence it names
\* agree with its amount, payee and category (workflow.py:503-520 against the checks of
\* wallet_governor_service service.py:580-690).
SpendIsAuthorized ==
  \A s \in spends :
    /\ Clear(BundleErrors(s))
    /\ s.amount <= Constraints(
         ExecutionPolicyRequest(request[s.mission], Document(s.mission)).request).maxSpend

\* A mission run again acts on nothing: one that checks for duplicates and begins when
\* the opportunity of another is in the ledger does nothing for the same source, even
\* if the other died halfway or after it had paid (workflow.py:165-182; the payment
\* keys of two missions differ, 518).
RerunHasNoEffect ==
  \A m1, m2 \in Missions :
    /\ request[m2] # NoRequest /\ chosen[m2] # 0
    /\ request[m2].enforce
    /\ \E row \in knownBefore[m2] : row.mission = m1 /\ row.print.url = Document(m2).url
    => acts[m2] = {}
=============================================================================
