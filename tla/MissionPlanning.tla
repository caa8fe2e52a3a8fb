-------------------------- MODULE MissionPlanning --------------------------
(***************************************************************************)
(* The skills that weigh an opportunity before a mission acts on it: the   *)
(* duplicate detector, the budget planner, the counterparty risk profiler  *)
(* and the deliverable quality checker.  Pure functions; the rows they     *)
(* leave are steps of MissionWorkflow.                                     *)
(***************************************************************************)
EXTENDS Integers, PolicyGuard

\* The planner reads blocked_categories and review_required_categories too, and
\* compares them as they are written, where the guard normalizes them.
CONSTANTS PlanBlocked, PlanReview

(***************************************************************************)
(* The duplicate detector.  A fingerprint has the URL, title and rules URL *)
(* ("none" without one) of an opportunity, its platform and payout; text   *)
(* stands for the descriptions that are alike (a ratio of at least 0.92).  *)
(***************************************************************************)
MatchReason(candidate, existing) ==
  LET Same(field) == candidate[field] = existing[field]
  IN  IF Same("url") THEN "exact_url_match"
      ELSE IF candidate.rules # "none" /\ Same("rules") /\ (Same("title") \/ Same("text"))
      THEN "normalized_rules_url_match"
      ELSE IF candidate.title # "" /\ Same("title") THEN "normalized_title_match"
      ELSE IF Same("text") /\ Same("platform") /\ Same("payout")
      THEN "near_duplicate_repost" ELSE "none"

MatchReasons(candidate, known) ==
  {MatchReason(candidate, existing) : existing \in known} \ {"none"}

IsDuplicate(candidate, known) == MatchReasons(candidate, known) # {}

DuplicateConfidence(candidate, known) ==
  LET reasons == MatchReasons(candidate, known)
  IN  IF reasons \ {"normalized_title_match"} # {} THEN "high"
      ELSE IF reasons # {} \/ "" \in {candidate.title, candidate.text}
      THEN "medium" ELSE "low"

(***************************************************************************)
(* The budget and ROI planner.  A request names a policy decision and a    *)
(* TOS check by their verdict in the ledger ("none" when there is no such  *)
(* row) and repeats the verdicts it was given (claimed).  Fees that are    *)
(* not known count as 0.                                                   *)
(***************************************************************************)
TotalBudget(b) == b.spend + b.fees + b.otherFees + b.recurring

BudgetRejects(b) ==
  [ opportunity_missing |-> ~b.opportunity,
    policy_not_allow |-> {b.policy, b.claimedPolicy} # {"allow"},
    tos_not_proceed |-> {b.tos, b.claimedTos} # {"proceed"},
    over_single_spend |-> TotalBudget(b) > MaxSingleSpend,
    over_max_loss |-> TotalBudget(b) > b.maxLoss,
    over_balance |-> TotalBudget(b) > b.balance,
    over_daily_remaining |-> TotalBudget(b) > b.remaining,
    uncapped_recurring |-> b.recurring > 0 /\ (~b.capped \/ b.recurring > b.recurringCap),
    prohibited_category |-> b.categories \cap PlanBlocked # {},
    no_category |-> b.categories = {} /\ b.spend > 0,
    negative_net |-> b.revenue < TotalBudget(b) /\ ~b.revenueUnknown ]

BudgetReviews(b) ==
  [ unknown_fees |-> ~b.feesKnown,
    review_category |-> b.categories \cap PlanReview # {} ]

\* Mutant: a plan is reviewed before it is rejected.
BudgetDecision_ReviewFirst(b) ==
  IF ~Clear(BudgetReviews(b)) THEN "human_review"
  ELSE IF ~Clear(BudgetRejects(b)) THEN "reject"
  ELSE IF b.revenueUnknown THEN "simulate" ELSE "execute_request"

BudgetDecision(b) ==
  IF ~Clear(BudgetRejects(b)) THEN "reject"
  ELSE IF ~Clear(BudgetReviews(b)) THEN "human_review"
  ELSE IF b.revenueUnknown THEN "simulate" ELSE "execute_request"

\* A plan whose references are not in the ledger is returned but not recorded.
BudgetRecorded(b) == b.opportunity /\ "none" \notin {b.policy, b.tos}

(***************************************************************************)
(* The counterparty risk profiler.  history, support and domain may be     *)
(* unknown; a mixed history is between a half and four fifths.             *)
(***************************************************************************)
CounterpartyScore(c) ==
  LET Points(value, table) == IF value \in DOMAIN table THEN table[value] ELSE 0
      If(signal, points) == IF signal THEN points ELSE 0
      score ==
        50 + (IF c.clearRules THEN -10 ELSE 10) + If(c.clearDeadlines, -5)
           + Points(c.history, [strong |-> -15, weak |-> 20])
           + AtMost(20, 5 * c.disputes)
           + Points(c.support, [responsive |-> -5, silent |-> 10])
           + If(c.suspicious, 25) + If(c.offPlatform, 25) + If(c.kyc, 15)
           + Points(c.domain, [new |-> 10])
  IN  AtLeast(0, AtMost(100, score))

RiskTier(c) ==
  IF CounterpartyScore(c) >= 70 THEN "high"
  ELSE IF CounterpartyScore(c) >= 45 THEN "medium" ELSE "low"

(***************************************************************************)
(* The deliverable quality checker.  fields and artifacts give the state   *)
(* of what was handed in, by name; what is required and not handed in is   *)
(* missing, references are the ids no artifact mentions.                   *)
(***************************************************************************)
DeliverableStatus(required, handedIn) ==
  LET Field(name) == IF name \in DOMAIN handedIn.fields
                     THEN handedIn.fields[name] ELSE "missing"
      Artifact(name) == IF name \in DOMAIN handedIn.artifacts
                        THEN handedIn.artifacts[name] ELSE "missing"
  IN  IF \/ \E name \in required.fields : Field(name) # "filled"
         \/ \E name \in required.artifacts : Artifact(name) \notin {"linked", "unlinked"}
         \/ required.references # {}
      THEN "failed"
      ELSE IF \E name \in required.artifacts : Artifact(name) = "unlinked"
      THEN "needs_review" ELSE "passed"
=============================================================================
