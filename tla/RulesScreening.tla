--------------------------- MODULE RulesScreening ---------------------------
(***************************************************************************)
(* The skills that read the rules text of an opportunity: the scout's      *)
(* filter and score, the eligibility checker, the TOS and legal checker,   *)
(* the submission package builder and the terms change monitor.  Each is a *)
(* pure function of a page; the ledger rows they leave are steps of        *)
(* MissionWorkflow.                                                        *)
(*                                                                         *)
(* A page is what these skills can tell of a text: the needles they find   *)
(* in it (Reading closes a set of phrases under the needles a phrase       *)
(* contains), its dollar amounts in order, the line that names the         *)
(* deadline, its list of fields and attachments, the screenshot counts,    *)
(* and, for the monitor's comparisons, layout (white space and case) and   *)
(* wording (all the rest).  A phrase stands on one line: the skills that   *)
(* read the raw text find it as those do that collapse white space.        *)
(***************************************************************************)
EXTENDS Integers, Sequences, FiniteSetsExt, Verdicts

Page(words) ==
  [ words |-> words, amounts |-> <<>>, due |-> "none", fields |-> FALSE,
    attachments |-> {}, shots |-> {}, layout |-> "plain", wording |-> "text" ]
EmptyPage == [Page({}) EXCEPT !.wording = "empty"]
IsEmpty(page) == page = EmptyPage

\* The needles that a text with these phrases holds: one may lie in another.
Reading(phrases) ==
  phrases
    \cup (IF phrases \cap {"kyc required", "kyc evasion"} # {} THEN {"kyc"} ELSE {})
    \cup (IF "no fake accounts" \in phrases THEN {"fake account"} ELSE {})
    \cup (IF "no mass outreach" \in phrases THEN {"mass outreach"} ELSE {})
    \cup (IF "handling other people's funds" \in phrases
          THEN {"other people's funds"} ELSE {})
    \cup (IF phrases \cap {"ethereum", "payment method"} # {} THEN {"eth"} ELSE {})
    \cup (IF phrases \cap {"refundable", "refund available", "refund policy unclear"} # {}
          THEN {"refund"} ELSE {})
    \cup (IF "crypto trading" \in phrases THEN {"trading"} ELSE {})

Has(page, needles) == page.words \cap needles # {}

(***************************************************************************)
(* The TOS and legal checker.                                              *)
(***************************************************************************)
RejectPatterns ==
  { "automation prohibited", "no bots", "fake account", "mass outreach",
    "handling other people's funds", "gambling", "securities", "forex" }
ReviewPatterns ==
  { "identity verification", "recurring billing", "collect emails", "affiliate",
    "unclear payment" }

ClassifyPolicy(page, allow, prohibit, unclear) ==
  IF Has(page, prohibit) THEN "prohibited"
  ELSE IF Has(page, allow) THEN "allowed"
  ELSE IF Has(page, unclear) THEN "unclear" ELSE "unknown"

PlatformPolicies(page) ==
  [ automation |-> ClassifyPolicy(page,
      {"automation allowed", "bots allowed", "automation permitted"},
      {"automation prohibited", "no bots", "bot use prohibited"}, {"automation unclear"}),
    bot_account |-> ClassifyPolicy(page, {"bot accounts allowed"},
      {"fake account", "no fake accounts", "account sharing prohibited"}, {}),
    payment |-> ClassifyPolicy(page,
      {"payment after acceptance", "paid after approval", "payout within"}, {},
      {"payment unclear", "payment terms unavailable", "unclear payment"}),
    eligibility |-> ClassifyPolicy(page,
      {"open to individual developers", "eligible participants"}, {},
      {"eligibility unclear", "eligibility may change"}),
    identity |-> ClassifyPolicy(page, {}, {"kyc required"},
      {"identity verification", "government id"}),
    recurring_billing |-> ClassifyPolicy(page, {}, {"automatic renewal"},
      {"recurring billing", "subscription renews"}),
    refund |-> ClassifyPolicy(page, {"refundable", "refund available"}, {},
      {"chargeback", "refund policy unclear"}),
    outreach |-> ClassifyPolicy(page, {},
      {"scraping prohibited", "no mass outreach", "no cold outreach"},
      {"contact restrictions", "outreach may be limited"}),
    third_party_funds |-> ClassifyPolicy(page, {},
      {"handling other people's funds", "hold funds on behalf"}, {}) ]

Disqualifying == {"automation", "bot_account", "third_party_funds"}
MustBeClear ==
  {"payment", "eligibility", "identity", "recurring_billing", "refund", "outreach"}

RedFlags(page) ==
  page.words \cap (RejectPatterns \cup {"commercial use prohibited"})

PaymentUnclear(page) == Has(page, {"payment terms unavailable", "payment unclear"})

\* The four checks in the order of the code: a later one replaces the verdict
\* of an earlier one, and the payment check replaces a reject as well.
TosDecision(page, hasRulesUrl) ==
  LET Policy(names, value) == \E name \in names : PlatformPolicies(page)[name] = value
      unread == IsEmpty(page) /\ ~hasRulesUrl
      flagged == IF RedFlags(page) # {} THEN "reject"
                 ELSE IF unread \/ Has(page, ReviewPatterns) THEN "human_review"
                 ELSE "proceed"
      settled == IF PaymentUnclear(page) THEN "human_review" ELSE flagged
  IN  IF Policy(Disqualifying, "prohibited") THEN "reject"
      ELSE IF Policy(MustBeClear, "unclear") /\ settled # "reject" THEN "human_review"
      ELSE settled

(***************************************************************************)
(* The account eligibility checker.  A profile gives each fact of the      *)
(* operator as yes, no or unknown (the None of the code), its region, and  *)
(* the sets it supports.  accountAge compares the account with the number  *)
(* of days the text asks for.                                              *)
(***************************************************************************)
GeoRegions ==
  [ united_states |-> {"us", "usa", "united states"}, canada |-> {"canada"},
    european_union |-> {"eu", "european union"} ]
GeoNeedles ==
  [ united_states |-> {"united states", "us only"}, canada |-> {"canada"},
    european_union |-> {"european union", "eu only"} ]
MethodNeedles ==
  [paypal |-> {"paypal"}, bank_wire |-> {"bank wire", "wire transfer"}]
AssetNeedles == [btc |-> {"bitcoin", "btc"}, usdc |-> {"usdc"}, eth |-> {"ethereum", "eth"}]
SystemNeedles ==
  [linux |-> "linux required", windows |-> "windows required", mac |-> "mac required",
   macos |-> "macos required"]
Hardware == {"gpu", "android", "iphone", "ios"}

SocialNeedles == {"twitter account", "linkedin profile", "non-bot social"}
AgeNeedles == {"account age", "account must be"}
ReputationNeedles == {"reputation", "karma", "rating history"}
BusinessNeedles == {"llc", "registered business", "business entity", "company required"}
TaxNeedles == {"kyc", "tax form", "w-9", "w8", "w-8"}
InfrastructureNeedles == {"private infrastructure", "self-hosted server", "private vps"}
HistoryNeedles == {"repository history", "github history"}
PriorNeedles == {"prior contribution", "previous pull request", "prior pr"}
ApprovalNeedles == {"manual approval", "payment approval", "invoice review"}

GeoNamed(page) == {place \in DOMAIN GeoNeedles : Has(page, GeoNeedles[place])}

\* hints: the payment method and the asset of the request.
Mentions(page, hints, needles) == (page.words \cup hints) \cap needles # {}

BlockedRequirements(page, profile, hints) ==
  [ personal_account |-> Has(page, {"personal account"}) /\ ~profile.personal,
    non_bot_social_identity |-> Has(page, SocialNeedles) /\ ~profile.social,
    platform_account_too_new |->
      Has(page, AgeNeedles) /\ Has(page, {"N days"}) /\ profile.accountAge = "no",
    missing_reputation |-> Has(page, ReputationNeedles) /\ profile.reputation = "no",
    geo_restriction |-> \E place \in GeoNamed(page) :
      profile.region \notin GeoRegions[place] \cup {"unknown"},
    age_restriction |-> Has(page, {"18+", "must be 18"}) /\ profile.adult = "no",
    business_entity |-> Has(page, BusinessNeedles) /\ profile.business = "no",
    tax_or_kyc |-> Has(page, TaxNeedles) /\ profile.tax = "no",
    system |-> \E os \in DOMAIN SystemNeedles :
      SystemNeedles[os] \in page.words /\ os \notin profile.systems,
    hardware |-> \E item \in Hardware : item \in page.words \ profile.hardware,
    private_infrastructure |->
      Has(page, InfrastructureNeedles) /\ profile.infrastructure = "no",
    repository_history |-> Has(page, HistoryNeedles) /\ profile.history = "no",
    prior_contribution |-> Has(page, PriorNeedles) /\ ~profile.prior,
    payout_asset |-> \E asset \in DOMAIN AssetNeedles \ profile.assets :
      Mentions(page, hints, AssetNeedles[asset]),
    payout_method |-> \E method \in DOMAIN MethodNeedles \ profile.methods :
      Mentions(page, hints, MethodNeedles[method]) ]

\* Mutant: a tax identity that is not known to be missing counts as present.
ReviewRequirements_NoTax(page, profile) ==
  [ reputation_unverified |->
      Has(page, ReputationNeedles) /\ profile.reputation = "unknown",
    citizenship |-> Has(page, {"citizen", "resident"}) /\ GeoNamed(page) = {},
    infrastructure_unverified |->
      Has(page, InfrastructureNeedles) /\ profile.infrastructure = "unknown",
    manual_approval |-> Has(page, ApprovalNeedles) ]

ReviewRequirements(page, profile) ==
  [ reputation_unverified |->
      Has(page, ReputationNeedles) /\ profile.reputation = "unknown",
    citizenship |-> Has(page, {"citizen", "resident"}) /\ GeoNamed(page) = {},
    tax_or_kyc_unverified |-> Has(page, TaxNeedles) /\ profile.tax = "unknown",
    infrastructure_unverified |->
      Has(page, InfrastructureNeedles) /\ profile.infrastructure = "unknown",
    manual_approval |-> Has(page, ApprovalNeedles) ]

MissingRequirements(page, profile) ==
  [ rule_text |-> IsEmpty(page),
    account_age_unknown |-> Has(page, AgeNeedles) /\ profile.accountAge = "unknown",
    region_unknown |-> GeoNamed(page) # {} /\ profile.region = "unknown",
    age_unknown |-> Has(page, {"18+", "must be 18"}) /\ profile.adult = "unknown",
    business_unknown |-> Has(page, BusinessNeedles) /\ profile.business = "unknown",
    history_unknown |-> Has(page, HistoryNeedles) /\ profile.history = "unknown" ]

Eligibility(page, profile, hints) ==
  IF ~Clear(BlockedRequirements(page, profile, hints)) THEN "blocked"
  ELSE IF ~Clear(ReviewRequirements(page, profile)) THEN "needs_review"
  ELSE IF ~Clear(MissingRequirements(page, profile)) THEN "incomplete" ELSE "eligible"

(***************************************************************************)
(* The submission package builder.                                         *)
(***************************************************************************)
RequiredArtifacts(page) == page.attachments \cup (page.words \cap {"screenshot", "proof"})

Unresolved(page) ==
  [ required_fields_not_explicit |-> Has(page, {"required field"}) /\ ~page.fields,
    submission_url_missing |-> Has(page, {"submit at"}) /\ ~Has(page, {"http"}) ]

SubmissionStatus(page) ==
  IF Cardinality(page.shots) > 1 \/ IsEmpty(page) THEN "blocked"
  ELSE IF ~Clear(Unresolved(page)) THEN "needs_review" ELSE "ready"

(***************************************************************************)
(* The terms change monitor, on the archived page and the current one.     *)
(***************************************************************************)
SameText(prior, current) == prior = [current EXCEPT !.layout = prior.layout]

\* The first dollar amount; a page without one has none.
Payout(page) == IF page.amounts = <<>> THEN {} ELSE {page.amounts[1]}

\* The line with the deadline, whose extent depends on the layout.
DeadlineLine(page) == <<page.due, page.due # "none" /\ page.layout = "reflowed">>

Appears(prior, current, needles) == Has(current, needles) /\ ~Has(prior, needles)
Flips(prior, current, needles) == Has(current, needles) # Has(prior, needles)

\* The changes that have a name.
NamedChanges(prior, current) ==
  [ payout_amount |-> Payout(prior) # Payout(current),
    payout_method |-> \E method \in {"paypal", "bank wire", "btc"} :
                        Flips(prior, current, {method}),
    submission_deadline |-> DeadlineLine(prior) # DeadlineLine(current),
    automation_policy |-> Appears(prior, current, {"automation prohibited", "no bots"}),
    kyc_tax_requirement |-> Appears(prior, current, {"kyc", "tax form"}),
    required_deliverable |-> Flips(prior, current, {"deliverable"}),
    refund_chargeback |-> Flips(prior, current, {"refund", "chargeback"}) ]

\* Mutant: a change that has no name is none.
ChangedFields_NamedOnly(prior, current) ==
  IF IsEmpty(prior) THEN {"missing_prior_snapshot"}
  ELSE LET named == Fired(NamedChanges(prior, current))
       IN  IF SameText(prior, current) /\ prior # current
           THEN named \cup {"formatting_only"} ELSE named

ChangedFields(prior, current) ==
  IF IsEmpty(prior) THEN {"missing_prior_snapshot"}
  ELSE LET named == Fired(NamedChanges(prior, current))
           reformatted == SameText(prior, current) /\ prior # current
       IN  IF reformatted \/ (named = {} /\ prior # current)
           THEN named \cup {"formatting_only"} ELSE named

FieldSeverity ==
  [ formatting_only |-> 1, payout_method |-> 2, submission_deadline |-> 2,
    required_deliverable |-> 2, refund_chargeback |-> 2, payout_amount |-> 3,
    kyc_tax_requirement |-> 3, missing_prior_snapshot |-> 3, automation_policy |-> 4 ]

Severity(fields) == Max({0} \cup {FieldSeverity[field] : field \in fields})

RequiresRecheck(fields) == Severity(fields) > 0
RequiresBudgetRecheck(fields, hasPriorPlan) ==
  \/ fields \cap {"payout_amount", "payout_method", "submission_deadline"} # {}
  \/ "missing_prior_snapshot" \in fields /\ hasPriorPlan
RequiresPolicyRecheck(fields) ==
  fields \cap {"automation_policy", "kyc_tax_requirement", "missing_prior_snapshot"} # {}

(***************************************************************************)
(* The opportunity scout.  A document is a page with a source (URL and     *)
(* title, canonical), a category and a rules URL or not; fits says that    *)
(* its text names a skill of the bot.  Scores are in sixtieths, so that    *)
(* they are exact.                                                         *)
(***************************************************************************)
UnsupportedCategories ==
  { "trading", "gambling", "prediction_markets", "airdrop_farming",
    "fake_account_schemes", "grey_market_arbitrage" }
ProhibitedPatterns ==
  { "trading", "crypto trading", "gambling", "prediction market", "fake account",
    "kyc evasion", "spam", "bulk dm", "other people's funds", "malware", "exploit" }

IsCandidate(document, blockedCategories) ==
  /\ document.category \notin UnsupportedCategories \cup blockedCategories
  /\ ~Has(document.page, ProhibitedPatterns)

\* The first amount is what the opportunity costs, if it speaks of spending at all.
RequiredSpend(page) ==
  IF Has(page, {"spend"}) /\ page.amounts # <<>> THEN page.amounts[1] ELSE 0
RevenueLow(page) == IF page.amounts = <<>> THEN 25 ELSE page.amounts[1]
RevenueHigh(page) ==
  IF page.amounts = <<>> THEN 25
  ELSE Max({page.amounts[i] : i \in 1 .. Len(page.amounts)})
EstimatedHours(page) ==
  CASE Has(page, {"quick", "small task"}) -> 2
    [] ~Has(page, {"quick", "small task"}) /\ Has(page, {"hackathon", "contest"}) -> 12
    [] OTHER -> 4

Score(document) ==
  LET page == document.page
      affiliate == document.category = "affiliate"
      risks == (IF affiliate THEN 2 ELSE 0)
               + (IF affiliate \/ ~document.rulesUrl THEN 2 ELSE 0)
  IN  60 * (IF document.rulesUrl THEN 3 ELSE 1) + 60 * (IF document.fits THEN 3 ELSE 2)
      + AtMost(600, 3 * RevenueHigh(page)) + 60 * (10 - risks)
      + (IF IsEmpty(page) THEN 0 ELSE 120)
      - AtMost(240, 10 * EstimatedHours(page)) - 2 * AtMost(300, 12 * RequiredSpend(page))
      - 60 * (IF document.category = "contest" THEN 2 ELSE 1)

Beats(a, b) == Score(a) > Score(b)

(***************************************************************************)
(* The opportunity a mission goes on with: one candidate per source, the   *)
(* first of those that no other beats, then the best of the sources; the   *)
(* earlier source wins a tie.                                              *)
(***************************************************************************)
SelectedOpportunity(documents, blockedCategories) ==
  LET candidates == {i \in DOMAIN documents : IsCandidate(documents[i], blockedCategories)}
      Same(i) == {j \in candidates : documents[j].source = documents[i].source}
      Kept(i) == \A j \in Same(i) : /\ ~Beats(documents[j], documents[i])
                                    /\ j < i => Beats(documents[i], documents[j])
  IN  {i \in candidates :
         /\ Kept(i)
         /\ \A j \in {k \in candidates : Kept(k)} \ {i} :
              \/ Beats(documents[i], documents[j])
              \/ ~Beats(documents[j], documents[i]) /\ Min(Same(i)) < Min(Same(j))}
=============================================================================
