----------------------------- MODULE Decisions -----------------------------
(***************************************************************************)
(* The skills are asked more than once about the same thing, and between   *)
(* two answers the facts change: a request loses a reference, the operator *)
(* fills in a profile, the platform rewrites its rules, money arrives.     *)
(* A step of this module changes one fact of an open inquiry; the          *)
(* properties compare the answers before and after it.                     *)
(***************************************************************************)
EXTENDS RulesScreening, MissionPlanning, MissionOutcome

CONSTANTS
  Requests, Budgets, Parties, Pages, Profiles, Claims, Receipts, Reviews,
                \* what an inquiry may start from
  Categories,   \* the categories a request may turn out to have
  MaxChanges    \* bounds the changes to one inquiry

(***************************************************************************)
(* What an inquiry may be about.  Amounts are whole dollars.               *)
(***************************************************************************)
PolicyVerdicts == {"allow", "needs_review", "block"}
TosVerdicts == {"proceed", "human_review", "reject"}

PlanRequests ==
  [ opportunity : BOOLEAN, policy : PolicyVerdicts \cup {"none"},
    claimedPolicy : PolicyVerdicts \cup {"none"}, tos : TosVerdicts \cup {"none"},
    claimedTos : TosVerdicts \cup {"none"}, spend : Nat, fees : Nat, feesKnown : BOOLEAN, otherFees : Nat,
    recurring : Nat, capped : BOOLEAN, recurringCap : Nat, maxLoss : Nat, balance : Nat,
    remaining : Nat, categories : SUBSET STRING, revenue : Nat, revenueUnknown : BOOLEAN ]

PartyRequests ==
  [ clearRules : BOOLEAN, clearDeadlines : BOOLEAN,
    history : {"strong", "mixed", "weak", "unknown"}, disputes : Nat,
    support : {"responsive", "silent", "unknown"}, suspicious : BOOLEAN,
    offPlatform : BOOLEAN, kyc : BOOLEAN, domain : {"old", "new", "unknown"} ]

\* The regions the rules pages tell apart, and any other.
Regions ==
  {"us", "usa", "united states", "canada", "eu", "european union", "elsewhere", "unknown"}
Facts ==
  {"accountAge", "reputation", "adult", "business", "tax", "infrastructure", "history"}
Answers == {"yes", "no", "unknown"}

ProfileRecords ==
  [ personal : BOOLEAN, social : BOOLEAN, prior : BOOLEAN, accountAge : Answers,
    reputation : Answers, adult : Answers, business : Answers, tax : Answers,
    infrastructure : Answers, history : Answers, region : Regions,
    systems : SUBSET STRING, hardware : SUBSET STRING, assets : SUBSET STRING,
    methods : SUBSET STRING ]

\* The flags of an outcome that a rule of the reviewer reads, and others.
OutcomeFlags ==
  MajorStopFlags \cup HumanReviewFlags \cup {"repeated_failures", "payout", "other"}

ReviewRequests ==
  [ books : [ spent : Nat, payments : Nat, budget : Nat, failed : Nat, rejected : Nat,
              evidence : Nat, emails : Nat ],
    outcome : [ revenue : Nat, unrealized : Nat, fees : Nat, success : BOOLEAN,
                stopped : BOOLEAN, flags : SUBSET OutcomeFlags ] ]

ClaimRecords ==
  [amount : Nat, tolerance : Nat, payer : STRING, asset : STRING, overdue : BOOLEAN]
ReceiptRecords == [amount : Nat, payer : STRING, asset : STRING]

ASSUME DecisionsAssumption ==
  /\ Requests \subseteq PolicyRequests(Nat) /\ Categories \subseteq STRING
  /\ Budgets \subseteq PlanRequests /\ Parties \subseteq PartyRequests
  /\ Profiles \subseteq ProfileRecords /\ Reviews \subseteq ReviewRequests
  /\ Claims \subseteq ClaimRecords /\ Receipts \subseteq ReceiptRecords

VARIABLE inquiry

vars == <<inquiry>>

NoInquiry == [kind |-> "none", about |-> {}, changes |-> 0]

Init == inquiry = NoInquiry

Open(kind, subjects) ==
  /\ inquiry = NoInquiry
  /\ \E subject \in subjects :
       inquiry' = [kind |-> kind, about |-> subject, changes |-> 0]

Change(kind, Successors(_)) ==
  /\ inquiry.kind = kind
  /\ inquiry.changes < MaxChanges
  /\ \E subject \in Successors(inquiry.about) :
       inquiry' = [inquiry EXCEPT !.about = subject, !.changes = @ + 1]

Close == inquiry # NoInquiry /\ inquiry' = NoInquiry

(***************************************************************************)
(* A policy request gets worse.                                            *)
(***************************************************************************)
Riskier(category) ==
  LET blocked == BuiltinBlocked \cup ConfigBlocked
  IN  CASE category \in blocked -> {}
        [] category \in AllowedCategories \ (blocked \cup ReviewCategories) ->
             Categories \ AllowedCategories
        [] OTHER -> Categories \cap blocked

WorseRequests(r) ==
  {[r EXCEPT !.amount = @ + 1], [r EXCEPT !.counterparty = FALSE],
   [r EXCEPT !.approved = FALSE], [r EXCEPT !.newAccount = TRUE],
   [r EXCEPT !.sendsEmail = TRUE], [r EXCEPT !.wallet = TRUE],
   [r EXCEPT !.claims = TRUE], [r EXCEPT !.userData = TRUE],
   [r EXCEPT !.patterns = @ \cup {"wallet.dat"}]}
    \cup {[r EXCEPT !.metadata = @ \ {reference}] : reference \in r.metadata}
    \cup {[r EXCEPT !.category = category] : category \in Riskier(r.category)}

AskPolicy == Open("policy", Requests)
WorsenRequest == Change("policy", WorseRequests)

(***************************************************************************)
(* A plan gets worse, or its counterparty does.  Fees that are not known   *)
(* do not grow, and a category that is lost is one that did no harm.       *)
(***************************************************************************)
WorseBudgets(b) ==
  {[b EXCEPT !.opportunity = FALSE], [b EXCEPT !.policy = "none"],
   [b EXCEPT !.claimedPolicy = "needs_review"], [b EXCEPT !.tos = "human_review"],
   [b EXCEPT !.claimedTos = "reject"], [b EXCEPT !.spend = @ + 2],
   [b EXCEPT !.otherFees = @ + 1], [b EXCEPT !.recurring = @ + 1],
   [b EXCEPT !.capped = FALSE], [b EXCEPT !.maxLoss = 0],
   [b EXCEPT !.balance = AtMost(1, @)], [b EXCEPT !.remaining = AtMost(1, @)],
   [b EXCEPT !.revenue = 0], [b EXCEPT !.revenueUnknown = TRUE]}
    \cup (IF b.feesKnown
          THEN {[b EXCEPT !.fees = @ + 1], [b EXCEPT !.fees = 0, !.feesKnown = FALSE]}
          ELSE {})
    \cup {[b EXCEPT !.categories = @ \ {category}] :
            category \in b.categories \ (PlanBlocked \cup PlanReview)}
    \cup {[b EXCEPT !.categories = @ \cup {category}] :
            category \in {c \in Categories : b.categories # {}}}

WorseParties(c) ==
  {[c EXCEPT !.clearRules = FALSE], [c EXCEPT !.clearDeadlines = FALSE],
   [c EXCEPT !.history = "weak"], [c EXCEPT !.disputes = @ + 1],
   [c EXCEPT !.support = "silent"], [c EXCEPT !.suspicious = TRUE],
   [c EXCEPT !.offPlatform = TRUE], [c EXCEPT !.kyc = TRUE], [c EXCEPT !.domain = "new"]}

AskBudget == Open("budget", Budgets)
WorsenBudget == Change("budget", WorseBudgets)
AskParty == Open("party", Parties)
WorsenParty == Change("party", WorseParties)

(***************************************************************************)
(* The operator learns a fact of its profile, or the platform rewrites its *)
(* rules.                                                                  *)
(***************************************************************************)
UnknownFacts(profile) ==
  {fact \in Facts : profile[fact] = "unknown"}

Completions(profile) ==
  {[profile EXCEPT ![fact] = value] :
     fact \in UnknownFacts(profile), value \in {"yes", "no"}}
    \cup (IF profile.region = "unknown"
          THEN {[profile EXCEPT !.region = place] : place \in Regions \ {"unknown"}}
          ELSE {})

LearntProfiles(s) == {[s EXCEPT !.profile = profile] : profile \in Completions(s.profile)}
RewrittenPages(s) == {[s EXCEPT !.page = page] : page \in Pages}

AskScreening ==
  Open("screening", [page : Pages, profile : Profiles, hints : {{}, {"paypal"}}])
LearnFact == Change("screening", LearntProfiles)
RewriteTerms == inquiry.changes = 0 /\ Change("screening", RewrittenPages)

(***************************************************************************)
(* A payment arrives, and an experiment goes badly.                        *)
(***************************************************************************)
MoreReceipts(p) == {[p EXCEPT !.receipts = Append(@, receipt)] : receipt \in Receipts}

BadNews(v) ==
  {[v EXCEPT !.books.failed = @ + 1], [v EXCEPT !.books.rejected = @ + 1],
   [v EXCEPT !.books.spent = @ + 3, !.books.payments = @ + 1],
   [v EXCEPT !.outcome.fees = @ + 2], [v EXCEPT !.outcome.stopped = TRUE],
   [v EXCEPT !.outcome.success = FALSE]}
    \cup {[v EXCEPT !.outcome.flags = @ \cup {flag}] :
            flag \in {"tos_violation", "complaint", "payout"}}

AskPayout == Open("payout", [claim : Claims, receipts : {<<>>}])
ReceivePayment == Change("payout", MoreReceipts)
AskReview == Open("review", Reviews)
ReportBadNews == Change("review", BadNews)

Next ==
  \/ AskPolicy \/ WorsenRequest
  \/ AskBudget \/ WorsenBudget
  \/ AskParty \/ WorsenParty
  \/ AskScreening \/ LearnFact \/ RewriteTerms
  \/ AskPayout \/ ReceivePayment
  \/ AskReview \/ ReportBadNews
  \/ Close

Spec == Init /\ [][Next]_vars

-----------------------------------------------------------------------------
(***************************************************************************)
(* Properties.                                                             *)
(***************************************************************************)
StillOpen(kind) == inquiry.kind = kind /\ inquiry'.kind = kind

\* The policy guard's verdict never softens when a request gets worse: no rule
\* that fires hides one that fires already (rules.py:218-309, the block list is
\* looked at before the review list).
PolicyNeverSoftens ==
  [][StillOpen("policy") =>
       PolicyRank[PolicyDecision(inquiry'.about)] >= PolicyRank[PolicyDecision(inquiry.about)]]_vars

BudgetRank == [execute_request |-> 0, simulate |-> 1, human_review |-> 2, reject |-> 3]
TierRank == [low |-> 0, medium |-> 1, high |-> 2]

\* A plan that gets dearer or less well covered is never judged more mildly, and a
\* counterparty of which something worse is learnt never falls to a lower tier.  Only
\* a plan rejected for its cost or its loss may be reviewed or simulated once the fees
\* or the revenue are not known at all, for the planner counts them as 0; that too
\* never makes it fit to execute (budget runner.py:35-44, 69-124, counterparty
\* runner.py:27-86).
PlanNeverSoftens ==
  [][/\ StillOpen("budget") =>
          LET before == BudgetDecision(inquiry.about)
              after == BudgetDecision(inquiry'.about)
          IN  /\ after = "execute_request" => before = "execute_request"
              /\ /\ inquiry'.about.feesKnown = inquiry.about.feesKnown
                 /\ inquiry'.about.revenueUnknown = inquiry.about.revenueUnknown
                 => BudgetRank[after] >= BudgetRank[before]
     /\ StillOpen("party") =>
          TierRank[RiskTier(inquiry'.about)] >= TierRank[RiskTier(inquiry.about)]]_vars

\* What is not known about the operator never helps: a profile that is eligible with
\* unknown facts stays so however they turn out (account_eligibility_checker
\* runner.py:62-165; each fact has its own way to be unknown).
UnknownFactsFailClosed ==
  [][LearnFact =>
       LET Verdict(s) == Eligibility(s.page, s.profile, s.hints)
       IN  Verdict(inquiry.about) = "eligible" => Verdict(inquiry'.about) = "eligible"]_vars

\* A payer who owes something and whose payments add up to it is never sent a
\* follow-up, whether they came at once or in parts and whatever else arrived
\* (revenue_reconciler runner.py:40-89, payout_followup_planner runner.py:42-63).
PaidInFullIsNotDunned ==
  inquiry.kind = "payout" =>
    LET claim == inquiry.about.claim
        receipts == inquiry.about.receipts
        cases == [ambiguous : BOOLEAN, tier : {"low", "high"}, evidence : BOOLEAN,
                  days : {0, 5}, grace : {3}]
    IN  claim.amount > 0 /\ TotalOf(receipts, Counted(claim, receipts)) >= claim.amount =>
          \A case \in cases : Followup(Reconcile(claim, receipts), case) # "draft_followup"

\* Bad news never revives an experiment: once the reviewer does not let it go on, a
\* further failure, cost or incident does not make it go on (decision.py:25-133,
\* reviewer runner.py:69-81).
BadNewsNeverRevives ==
  [][ReportBadNews =>
       LET GoesOn(v) ==
             ReviewDecision(v.books, v.outcome) \in {"continue", "retry_with_changes"}
       IN  GoesOn(inquiry'.about) => GoesOn(inquiry.about)]_vars

\* No approval goes stale unnoticed: when rewritten rules make the TOS checker, the
\* eligibility checker or the submission builder decide otherwise, or change what the
\* opportunity costs or may bring, the monitor asks for a recheck, be it that it reads
\* the changed words itself or not (terms_change_monitor runner.py:68-118).
StaleApprovalsAreRechecked ==
  [][RewriteTerms =>
       LET Answered(s) == << TosDecision(s.page, TRUE), Eligibility(s.page, s.profile, s.hints),
                             SubmissionStatus(s.page), RequiredSpend(s.page),
                             RevenueHigh(s.page) >>
       IN  Answered(inquiry.about) # Answered(inquiry'.about)
             => RequiresRecheck(ChangedFields(inquiry.about.page, inquiry'.about.page))]_vars
=============================================================================
