--------------------------- MODULE DecisionsProofs ---------------------------
(***************************************************************************)
(* The skills do not change their answers in the wrong direction, for any  *)
(* requests, plans, profiles, pages and reviews and any number of changes  *)
(* to them.  Each theorem is a fact about two answers of one skill.        *)
(***************************************************************************)
EXTENDS Decisions, FiniteSetTheorems, SequenceTheorems, WellFoundedInduction, TLAPS

Payouts == [claim : ClaimRecords, receipts : Seq(ReceiptRecords)]
Screenings == [page : Pages, profile : ProfileRecords, hints : {{}, {"paypal"}}]

\* An inquiry is about what its skill is asked.
DecisionsOK ==
  /\ inquiry =
       [kind |-> inquiry.kind, about |-> inquiry.about, changes |-> inquiry.changes]
  /\ inquiry.kind = "policy" => inquiry.about \in PolicyRequests(Nat)
  /\ inquiry.kind = "budget" => inquiry.about \in PlanRequests
  /\ inquiry.kind = "party" => inquiry.about \in PartyRequests
  /\ inquiry.kind = "screening" => inquiry.about \in Screenings
  /\ inquiry.kind = "payout" => inquiry.about \in Payouts
  /\ inquiry.kind = "review" => inquiry.about \in ReviewRequests

-----------------------------------------------------------------------------
(* An inquiry stays of its type.                                             *)

LEMMA Opened ==
  ASSUME NEW kind, NEW subjects, Open(kind, subjects)
  PROVE  /\ inquiry' =
              [kind |-> inquiry'.kind, about |-> inquiry'.about, changes |-> inquiry'.changes]
         /\ inquiry'.kind = kind /\ inquiry'.about \in subjects
BY DEF Open

-----------------------------------------------------------------------------
(* The policy guard.                                                         *)

Blocked == BuiltinBlocked \cup ConfigBlocked

\* What the two lists of rules come to.
Blocks(r) ==
  \/ r.action \notin EnabledActions \/ r.category \in Blocked \/ r.patterns # {}
  \/ Spends(r) /\ (r.amount > MaxSingleSpend \/ Lacks(r, "budget_plan_id")
                   \/ Lacks(r, "policy_decision_id") \/ Lacks(r, "tos_legal_check_id")
                   \/ Lacks(r, "ledger_record_id"))
  \/ (Spends(r) \/ r.action = "email") /\ ~r.counterparty
  \/ r.wallet /\ ~Spends(r)
  \/ r.newAccount /\ Lacks(r, "bot_owned_account_context")

Doubtful(category) == category \in ReviewCategories \/ category \notin AllowedCategories

Reviewed(r) ==
  \/ r.sendsEmail /\ (~r.approved \/ Lacks(r, "opportunity_id"))
  \/ r.action = "browser_submit" /\ Lacks(r, "opportunity_id")
  \/ r.newAccount \/ r.userData \/ r.claims \/ Doubtful(r.category)

LEMMA BlockRulesFire ==
  ASSUME NEW r
  PROVE  ~Clear(BlockRules(r)) <=> Blocks(r)
<1>1. PICK b : b = BlockRules(r)
  OBVIOUS
<1>2. DOMAIN b = { "blocked_action_type", "blocked_category", "prohibited_wallet_access",
        "amount_over_single_spend_cap", "missing_counterparty", "missing_budget_plan",
        "missing_policy_reference", "missing_tos_legal_reference", "missing_ledger_reference",
        "unknown_executable_wallet_action", "missing_bot_owned_account_context" }
  BY <1>1 DEF BlockRules
<1>3. /\ b.blocked_action_type <=> r.action \notin EnabledActions
      /\ b.blocked_category <=> r.category \in Blocked
      /\ b.prohibited_wallet_access <=> r.patterns # {}
      /\ b.amount_over_single_spend_cap <=> Spends(r) /\ r.amount > MaxSingleSpend
  BY <1>1 DEF BlockRules, Blocked
<1>4. /\ b.missing_counterparty <=> (Spends(r) \/ r.action = "email") /\ ~r.counterparty
      /\ b.missing_budget_plan <=> Spends(r) /\ Lacks(r, "budget_plan_id")
      /\ b.missing_policy_reference <=> Spends(r) /\ Lacks(r, "policy_decision_id")
      /\ b.missing_tos_legal_reference <=> Spends(r) /\ Lacks(r, "tos_legal_check_id")
      /\ b.missing_ledger_reference <=> Spends(r) /\ Lacks(r, "ledger_record_id")
      /\ b.unknown_executable_wallet_action <=> r.wallet /\ ~Spends(r)
      /\ b.missing_bot_owned_account_context
           <=> r.newAccount /\ Lacks(r, "bot_owned_account_context")
  BY <1>1 DEF BlockRules
<1>5. ~Clear(b) <=> \E name \in DOMAIN b : b[name]
  BY DEF Clear, Fired
<1>6. QED
  BY <1>1, <1>2, <1>3, <1>4, <1>5 DEF Blocks

LEMMA ReviewRulesFire ==
  ASSUME NEW r
  PROVE  ~Clear(ReviewRules(r)) <=> Reviewed(r)
<1>1. PICK b : b = ReviewRules(r)
  OBVIOUS
<1>2. DOMAIN b = { "email_send_requires_approval", "missing_email_reference",
        "missing_browser_reference", "new_account_requires_review",
        "user_data_collection_requires_review", "public_claims_require_review",
        "review_required_category", "unknown_category_defaults_to_review" }
  BY <1>1 DEF ReviewRules
<1>3. /\ b.email_send_requires_approval <=> r.sendsEmail /\ ~r.approved
      /\ b.missing_email_reference <=> r.sendsEmail /\ Lacks(r, "opportunity_id")
      /\ b.missing_browser_reference
           <=> r.action = "browser_submit" /\ Lacks(r, "opportunity_id")
      /\ b.new_account_requires_review <=> r.newAccount
  BY <1>1 DEF ReviewRules
<1>4. /\ b.user_data_collection_requires_review <=> r.userData
      /\ b.public_claims_require_review <=> r.claims
      /\ b.review_required_category <=> r.category \in ReviewCategories
      /\ b.unknown_category_defaults_to_review
           <=> r.category \notin AllowedCategories \cup ReviewCategories
  BY <1>1 DEF ReviewRules
<1>5. ~Clear(b) <=> \E name \in DOMAIN b : b[name]
  BY DEF Clear, Fired
<1>6. QED
  BY <1>1, <1>2, <1>3, <1>4, <1>5 DEF Reviewed, Doubtful

\* q asks for at least what r asks for, with at most what r has to show for it.
AsksMore(r, q) ==
  /\ q.action = r.action /\ q.amount >= r.amount
  /\ ~r.counterparty => ~q.counterparty
  /\ r.patterns # {} => q.patterns # {}
  /\ q.metadata \subseteq r.metadata
  /\ ~r.approved => ~q.approved
  /\ r.newAccount => q.newAccount
  /\ r.sendsEmail => q.sendsEmail
  /\ r.wallet => q.wallet
  /\ r.claims => q.claims
  /\ r.userData => q.userData
  /\ r.category \in Blocked => q.category \in Blocked
  /\ Doubtful(r.category) => q.category \in Blocked \/ Doubtful(q.category)

LEMMA SameAsks ==
  ASSUME NEW r \in PolicyRequests(Nat)
  PROVE  AsksMore(r, r)
BY DEF AsksMore, PolicyRequests

LEMMA WorseAsksMore ==
  ASSUME NEW r \in PolicyRequests(Nat), NEW q \in WorseRequests(r)
  PROVE  q \in PolicyRequests(Nat) /\ AsksMore(r, q)
<1>1. CASE q = [r EXCEPT !.amount = @ + 1]
  BY <1>1 DEF PolicyRequests, AsksMore
<1>2. CASE q = [r EXCEPT !.counterparty = FALSE]
  <2>1. q \in PolicyRequests(Nat)
    BY <1>2 DEF PolicyRequests
  <2>2. AsksMore(r, q)
    BY <1>2 DEF PolicyRequests, AsksMore
  <2>3. QED
    BY <2>1, <2>2
<1>3. CASE q = [r EXCEPT !.approved = FALSE]
  <2>1. q \in PolicyRequests(Nat)
    BY <1>3 DEF PolicyRequests
  <2>2. AsksMore(r, q)
    BY <1>3 DEF PolicyRequests, AsksMore
  <2>3. QED
    BY <2>1, <2>2
<1>4. CASE q = [r EXCEPT !.newAccount = TRUE]
  <2>1. q \in PolicyRequests(Nat)
    BY <1>4 DEF PolicyRequests
  <2>2. AsksMore(r, q)
    BY <1>4 DEF PolicyRequests, AsksMore
  <2>3. QED
    BY <2>1, <2>2
<1>5. CASE q = [r EXCEPT !.sendsEmail = TRUE]
  <2>1. q \in PolicyRequests(Nat)
    BY <1>5 DEF PolicyRequests
  <2>2. AsksMore(r, q)
    BY <1>5 DEF PolicyRequests, AsksMore
  <2>3. QED
    BY <2>1, <2>2
<1>6. CASE q = [r EXCEPT !.wallet = TRUE]
  <2>1. q \in PolicyRequests(Nat)
    BY <1>6 DEF PolicyRequests
  <2>2. AsksMore(r, q)
    BY <1>6 DEF PolicyRequests, AsksMore
  <2>3. QED
    BY <2>1, <2>2
<1>7. CASE q = [r EXCEPT !.claims = TRUE]
  <2>1. q \in PolicyRequests(Nat)
    BY <1>7 DEF PolicyRequests
  <2>2. AsksMore(r, q)
    BY <1>7 DEF PolicyRequests, AsksMore
  <2>3. QED
    BY <2>1, <2>2
<1>8. CASE q = [r EXCEPT !.userData = TRUE]
  <2>1. q \in PolicyRequests(Nat)
    BY <1>8 DEF PolicyRequests
  <2>2. AsksMore(r, q)
    BY <1>8 DEF PolicyRequests, AsksMore
  <2>3. QED
    BY <2>1, <2>2
<1>9. CASE q = [r EXCEPT !.patterns = @ \cup {"wallet.dat"}]
  <2>1. "wallet.dat" \in WalletPatterns
    BY DEF WalletPatterns
  <2>2. QED
    BY <1>9, <2>1 DEF PolicyRequests, AsksMore
<1>10. CASE \E reference \in r.metadata : q = [r EXCEPT !.metadata = @ \ {reference}]
  BY <1>10 DEF PolicyRequests, AsksMore
<1>11. CASE \E category \in Riskier(r.category) : q = [r EXCEPT !.category = category]
  <2>1. PICK category \in Riskier(r.category) : q = [r EXCEPT !.category = category]
    BY <1>11
  <2>2. /\ category \in Categories
        /\ r.category \notin Blocked
        /\ Doubtful(r.category) => category \in Blocked
    BY DEF Riskier, Blocked, Doubtful
  <2>3. category \in STRING
    BY <2>2, DecisionsAssumption
  <2>4. q.category = category
    BY <2>1 DEF PolicyRequests
  <2>5. q \in PolicyRequests(Nat)
    BY <2>1, <2>3 DEF PolicyRequests
  <2>6. AsksMore(r, q)
    BY <2>1, <2>2, <2>4 DEF PolicyRequests, AsksMore
  <2>7. QED
    BY <2>5, <2>6
<1>12. QED
  BY <1>1, <1>2, <1>3, <1>4, <1>5, <1>6, <1>7, <1>8, <1>9, <1>10, <1>11 DEF WorseRequests

LEMMA NoMilderVerdict ==
  ASSUME NEW r \in PolicyRequests(Nat), NEW q \in PolicyRequests(Nat), AsksMore(r, q)
  PROVE  PolicyRank[PolicyDecision(q)] >= PolicyRank[PolicyDecision(r)]
<1>1. Spends(q) <=> Spends(r)
  BY DEF Spends, AsksMore
<1>2. \A reference : Lacks(r, reference) => Lacks(q, reference)
  BY DEF Lacks, AsksMore
<1>3. r.amount > MaxSingleSpend => q.amount > MaxSingleSpend
  BY PolicyAssumption DEF AsksMore, PolicyRequests
<1>4. Blocks(r) => Blocks(q)
  BY <1>1, <1>2, <1>3 DEF Blocks, AsksMore
<1>5. Reviewed(r) => Reviewed(q) \/ Blocks(q)
  <2>1. Doubtful(r.category) => Reviewed(q) \/ Blocks(q)
    BY DEF AsksMore, Reviewed, Blocks
  <2>2. Reviewed(r) /\ ~Doubtful(r.category) => Reviewed(q)
    BY <1>2 DEF AsksMore, Reviewed
  <2>3. QED
    BY <2>1, <2>2
<1>6. \A p : PolicyDecision(p) = IF Blocks(p) THEN "block"
                                 ELSE IF Reviewed(p) THEN "needs_review" ELSE "allow"
  BY BlockRulesFire, ReviewRulesFire DEF PolicyDecision
<1>7. PolicyRank["block"] = 2 /\ PolicyRank["needs_review"] = 1 /\ PolicyRank["allow"] = 0
  BY DEF PolicyRank
<1>8. QED
  BY <1>4, <1>5, <1>6, <1>7

-----------------------------------------------------------------------------
(* The budget planner.                                                       *)

Approves(given, claimed, verdict) == given = verdict /\ claimed = verdict

Uncapped(b) == b.recurring > 0 /\ (~b.capped \/ b.recurring > b.recurringCap)

RejectsPlan(b) ==
  \/ ~b.opportunity
  \/ ~Approves(b.policy, b.claimedPolicy, "allow") \/ ~Approves(b.tos, b.claimedTos, "proceed")
  \/ TotalBudget(b) > MaxSingleSpend \/ TotalBudget(b) > b.maxLoss
  \/ TotalBudget(b) > b.balance \/ TotalBudget(b) > b.remaining
  \/ Uncapped(b)
  \/ b.categories \cap PlanBlocked # {}
  \/ b.categories = {} /\ b.spend > 0
  \/ b.revenue < TotalBudget(b) /\ ~b.revenueUnknown

ReviewsPlan(b) == ~b.feesKnown \/ b.categories \cap PlanReview # {}

LEMMA RejectsFire ==
  ASSUME NEW p
  PROVE  ~Clear(BudgetRejects(p)) <=> RejectsPlan(p)
<1>1. PICK b : b = BudgetRejects(p)
  OBVIOUS
<1>2. DOMAIN b = { "opportunity_missing", "policy_not_allow", "tos_not_proceed",
        "over_single_spend", "over_max_loss", "over_balance", "over_daily_remaining",
        "uncapped_recurring", "prohibited_category", "no_category", "negative_net" }
  BY <1>1 DEF BudgetRejects
<1>3. /\ b.opportunity_missing <=> ~p.opportunity
      /\ b.policy_not_allow <=> {p.policy, p.claimedPolicy} # {"allow"}
      /\ b.tos_not_proceed <=> {p.tos, p.claimedTos} # {"proceed"}
      /\ b.over_single_spend <=> TotalBudget(p) > MaxSingleSpend
  BY <1>1 DEF BudgetRejects
<1>4. /\ b.over_max_loss <=> TotalBudget(p) > p.maxLoss
      /\ b.over_balance <=> TotalBudget(p) > p.balance
      /\ b.over_daily_remaining <=> TotalBudget(p) > p.remaining
      /\ b.uncapped_recurring <=> Uncapped(p)
  BY <1>1 DEF BudgetRejects, Uncapped
<1>5. /\ b.prohibited_category <=> p.categories \cap PlanBlocked # {}
      /\ b.no_category <=> p.categories = {} /\ p.spend > 0
      /\ b.negative_net <=> p.revenue < TotalBudget(p) /\ ~p.revenueUnknown
  BY <1>1 DEF BudgetRejects
<1>6. ~Clear(b) <=> \E name \in DOMAIN b : b[name]
  BY DEF Clear, Fired
<1>7. /\ {p.policy, p.claimedPolicy} # {"allow"} <=> ~Approves(p.policy, p.claimedPolicy, "allow")
      /\ {p.tos, p.claimedTos} # {"proceed"} <=> ~Approves(p.tos, p.claimedTos, "proceed")
  BY DEF Approves
<1>8. QED
  BY <1>1, <1>2, <1>3, <1>4, <1>5, <1>6, <1>7 DEF RejectsPlan

LEMMA ReviewsFire ==
  ASSUME NEW p
  PROVE  ~Clear(BudgetReviews(p)) <=> ReviewsPlan(p)
<1>1. PICK b : b = BudgetReviews(p)
  OBVIOUS
<1>2. DOMAIN b = {"unknown_fees", "review_category"}
  BY <1>1 DEF BudgetReviews
<1>3. /\ b.unknown_fees <=> ~p.feesKnown
      /\ b.review_category <=> p.categories \cap PlanReview # {}
  BY <1>1 DEF BudgetReviews
<1>4. ~Clear(b) <=> \E name \in DOMAIN b : b[name]
  BY DEF Clear, Fired
<1>5. QED
  BY <1>1, <1>2, <1>3, <1>4 DEF ReviewsPlan

\* c costs at least what b costs, and is covered no better.
CostsMore(b, c) ==
  /\ ~b.opportunity => ~c.opportunity
  /\ Approves(c.policy, c.claimedPolicy, "allow") => Approves(b.policy, b.claimedPolicy, "allow")
  /\ Approves(c.tos, c.claimedTos, "proceed") => Approves(b.tos, b.claimedTos, "proceed")
  /\ TotalBudget(c) >= TotalBudget(b)
  /\ c.maxLoss <= b.maxLoss /\ c.balance <= b.balance /\ c.remaining <= b.remaining
  /\ Uncapped(b) => Uncapped(c)
  /\ b.categories \cap PlanBlocked # {} => c.categories \cap PlanBlocked # {}
  /\ b.categories \cap PlanReview # {} => c.categories \cap PlanReview # {}
  /\ b.categories = {} /\ b.spend > 0 => c.categories = {} /\ c.spend > 0
  /\ c.revenue <= b.revenue
  /\ b.revenueUnknown => c.revenueUnknown
  /\ ~b.feesKnown => ~c.feesKnown

LEMMA WorsePlan ==
  ASSUME NEW b \in PlanRequests, NEW q \in WorseBudgets(b)
  PROVE  /\ q \in PlanRequests
         /\ CostsMore(b, q) \/ (b.feesKnown /\ ~q.feesKnown)
<1>1. CASE q = [b EXCEPT !.opportunity = FALSE]
  <2>1. q \in PlanRequests
    BY <1>1 DEF PlanRequests
  <2>2. CostsMore(b, q)
    BY <1>1 DEF PlanRequests, CostsMore, TotalBudget, Approves, Uncapped
  <2>3. QED
    BY <2>1, <2>2
<1>2. CASE q = [b EXCEPT !.policy = "none"]
  <2>1. q \in PlanRequests
    BY <1>2 DEF PlanRequests, PolicyVerdicts, TosVerdicts
  <2>2. CostsMore(b, q)
    BY <1>2 DEF PlanRequests, CostsMore, TotalBudget, Approves, Uncapped
  <2>3. QED
    BY <2>1, <2>2
<1>3. CASE q = [b EXCEPT !.claimedPolicy = "needs_review"]
  <2>1. q \in PlanRequests
    BY <1>3 DEF PlanRequests, PolicyVerdicts, TosVerdicts
  <2>2. CostsMore(b, q)
    BY <1>3 DEF PlanRequests, CostsMore, TotalBudget, Approves, Uncapped
  <2>3. QED
    BY <2>1, <2>2
<1>4. CASE q = [b EXCEPT !.tos = "human_review"]
  <2>1. q \in PlanRequests
    BY <1>4 DEF PlanRequests, PolicyVerdicts, TosVerdicts
  <2>2. CostsMore(b, q)
    BY <1>4 DEF PlanRequests, CostsMore, TotalBudget, Approves, Uncapped
  <2>3. QED
    BY <2>1, <2>2
<1>5. CASE q = [b EXCEPT !.claimedTos = "reject"]
  <2>1. q \in PlanRequests
    BY <1>5 DEF PlanRequests, PolicyVerdicts, TosVerdicts
  <2>2. CostsMore(b, q)
    BY <1>5 DEF PlanRequests, CostsMore, TotalBudget, Approves, Uncapped
  <2>3. QED
    BY <2>1, <2>2
<1>6. CASE q = [b EXCEPT !.spend = @ + 2]
  <2>1. q \in PlanRequests
    BY <1>6 DEF PlanRequests
  <2>2. CostsMore(b, q)
    BY <1>6 DEF PlanRequests, CostsMore, TotalBudget, Approves, Uncapped
  <2>3. QED
    BY <2>1, <2>2
<1>7. CASE q = [b EXCEPT !.otherFees = @ + 1]
  <2>1. q \in PlanRequests
    BY <1>7 DEF PlanRequests
  <2>2. CostsMore(b, q)
    BY <1>7 DEF PlanRequests, CostsMore, TotalBudget, Approves, Uncapped
  <2>3. QED
    BY <2>1, <2>2
<1>8. CASE q = [b EXCEPT !.recurring = @ + 1]
  <2>1. q \in PlanRequests
    BY <1>8 DEF PlanRequests
  <2>2. CostsMore(b, q)
    BY <1>8 DEF PlanRequests, CostsMore, TotalBudget, Approves, Uncapped
  <2>3. QED
    BY <2>1, <2>2
<1>9. CASE q = [b EXCEPT !.capped = FALSE]
  <2>1. q \in PlanRequests
    BY <1>9 DEF PlanRequests
  <2>2. CostsMore(b, q)
    BY <1>9 DEF PlanRequests, CostsMore, TotalBudget, Approves, Uncapped
  <2>3. QED
    BY <2>1, <2>2
<1>10. CASE q = [b EXCEPT !.maxLoss = 0]
  <2>1. q \in PlanRequests
    BY <1>10 DEF PlanRequests
  <2>2. CostsMore(b, q)
    BY <1>10 DEF PlanRequests, CostsMore, TotalBudget, Approves, Uncapped
  <2>3. QED
    BY <2>1, <2>2
<1>11. CASE q = [b EXCEPT !.balance = AtMost(1, @)]
  <2>1. q \in PlanRequests
    BY <1>11 DEF PlanRequests, AtMost
  <2>2. CostsMore(b, q)
    BY <1>11 DEF PlanRequests, CostsMore, TotalBudget, Approves, Uncapped, AtMost
  <2>3. QED
    BY <2>1, <2>2
<1>12. CASE q = [b EXCEPT !.remaining = AtMost(1, @)]
  <2>1. q \in PlanRequests
    BY <1>12 DEF PlanRequests, AtMost
  <2>2. CostsMore(b, q)
    BY <1>12 DEF PlanRequests, CostsMore, TotalBudget, Approves, Uncapped, AtMost
  <2>3. QED
    BY <2>1, <2>2
<1>13. CASE q = [b EXCEPT !.revenue = 0]
  <2>1. q \in PlanRequests
    BY <1>13 DEF PlanRequests
  <2>2. CostsMore(b, q)
    BY <1>13 DEF PlanRequests, CostsMore, TotalBudget, Approves, Uncapped
  <2>3. QED
    BY <2>1, <2>2
<1>14. CASE q = [b EXCEPT !.revenueUnknown = TRUE]
  <2>1. q \in PlanRequests
    BY <1>14 DEF PlanRequests
  <2>2. CostsMore(b, q)
    BY <1>14 DEF PlanRequests, CostsMore, TotalBudget, Approves, Uncapped
  <2>3. QED
    BY <2>1, <2>2
<1>15. CASE q = [b EXCEPT !.fees = @ + 1]
  <2>1. q \in PlanRequests
    BY <1>15 DEF PlanRequests
  <2>2. CostsMore(b, q)
    BY <1>15 DEF PlanRequests, CostsMore, TotalBudget, Approves, Uncapped
  <2>3. QED
    BY <2>1, <2>2
<1>16. CASE b.feesKnown /\ q = [b EXCEPT !.fees = 0, !.feesKnown = FALSE]
  <2>1. PICK free : free = [b EXCEPT !.fees = 0]
    OBVIOUS
  <2>2. free \in PlanRequests /\ q = [free EXCEPT !.feesKnown = FALSE]
    BY <1>16, <2>1 DEF PlanRequests
  <2>3. q \in PlanRequests /\ ~q.feesKnown
    BY <2>2 DEF PlanRequests
  <2>4. QED
    BY <1>16, <2>3
<1>17. CASE \E category \in b.categories \ (PlanBlocked \cup PlanReview) :
              q = [b EXCEPT !.categories = @ \ {category}]
  <2>1. PICK category \in b.categories \ (PlanBlocked \cup PlanReview) :
          q = [b EXCEPT !.categories = @ \ {category}]
    BY <1>17
  <2>2. q \in PlanRequests
    BY <2>1 DEF PlanRequests
  <2>3. CostsMore(b, q)
    BY <2>1 DEF PlanRequests, CostsMore, TotalBudget, Approves, Uncapped
  <2>4. QED
    BY <2>2, <2>3
<1>18. CASE \E category \in {c \in Categories : b.categories # {}} :
              q = [b EXCEPT !.categories = @ \cup {category}]
  <2>1. PICK category \in Categories :
          b.categories # {} /\ q = [b EXCEPT !.categories = @ \cup {category}]
    BY <1>18
  <2>2. q \in PlanRequests
    BY <2>1, DecisionsAssumption DEF PlanRequests
  <2>3. CostsMore(b, q)
    BY <2>1 DEF PlanRequests, CostsMore, TotalBudget, Approves, Uncapped
  <2>4. QED
    BY <2>2, <2>3
<1>19. QED
  BY <1>1, <1>2, <1>3, <1>4, <1>5, <1>6, <1>7, <1>8, <1>9, <1>10, <1>11, <1>12, <1>13, <1>14,
     <1>15, <1>16, <1>17, <1>18 DEF WorseBudgets

LEMMA NoMilderPlan ==
  ASSUME NEW b \in PlanRequests, NEW q \in PlanRequests,
         CostsMore(b, q) \/ (b.feesKnown /\ ~q.feesKnown)
  PROVE  /\ BudgetDecision(q) = "execute_request" => BudgetDecision(b) = "execute_request"
         /\ q.feesKnown = b.feesKnown /\ q.revenueUnknown = b.revenueUnknown =>
              BudgetRank[BudgetDecision(q)] >= BudgetRank[BudgetDecision(b)]
<1>1. \A p : BudgetDecision(p) = IF RejectsPlan(p) THEN "reject"
                                 ELSE IF ReviewsPlan(p) THEN "human_review"
                                 ELSE IF p.revenueUnknown THEN "simulate" ELSE "execute_request"
  BY RejectsFire, ReviewsFire DEF BudgetDecision
<1>2. CASE b.feesKnown /\ ~q.feesKnown
  <2>1. ReviewsPlan(q) /\ ~(q.feesKnown = b.feesKnown)
    BY <1>2 DEF ReviewsPlan
  <2>2. BudgetDecision(q) # "execute_request"
    BY <1>1, <2>1
  <2>3. QED
    BY <2>1, <2>2
<1>3. CASE CostsMore(b, q)
  <2>1. TotalBudget(b) \in Nat /\ TotalBudget(q) \in Nat
    BY DEF PlanRequests, TotalBudget
  <2>2. ~q.revenueUnknown \/ b.revenueUnknown => (RejectsPlan(b) => RejectsPlan(q))
    <3>1. /\ TotalBudget(b) > MaxSingleSpend => TotalBudget(q) > MaxSingleSpend
          /\ TotalBudget(b) > b.maxLoss => TotalBudget(q) > q.maxLoss
          /\ TotalBudget(b) > b.balance => TotalBudget(q) > q.balance
          /\ TotalBudget(b) > b.remaining => TotalBudget(q) > q.remaining
          /\ b.revenue < TotalBudget(b) => q.revenue < TotalBudget(q)
      BY <1>3, <2>1, PolicyAssumption DEF PlanRequests, CostsMore
    <3>2. QED
      BY <1>3, <3>1 DEF RejectsPlan, CostsMore
  <2>3. ReviewsPlan(b) => ReviewsPlan(q)
    BY <1>3 DEF ReviewsPlan, CostsMore
  <2>4. b.revenueUnknown => q.revenueUnknown
    BY <1>3 DEF CostsMore
  <2>5. /\ BudgetRank["reject"] = 3 /\ BudgetRank["human_review"] = 2
        /\ BudgetRank["simulate"] = 1 /\ BudgetRank["execute_request"] = 0
    BY DEF BudgetRank
  <2>6. QED
    BY <1>1, <2>2, <2>3, <2>4, <2>5
<1>4. QED
  BY <1>2, <1>3

-----------------------------------------------------------------------------
(* The counterparty profiler.                                                *)

HistoryPoints(history) == IF history = "strong" THEN -15 ELSE IF history = "weak" THEN 20 ELSE 0
SupportPoints(support) ==
  IF support = "responsive" THEN -5 ELSE IF support = "silent" THEN 10 ELSE 0
DomainPoints(domain) == IF domain = "new" THEN 10 ELSE 0
If(signal, points) == IF signal THEN points ELSE 0

\* The parts of the score, before it is cut to 0 .. 100.
Manners(c) == (IF c.clearRules THEN -10 ELSE 10) + If(c.clearDeadlines, -5)
Past(c) == HistoryPoints(c.history) + AtMost(20, 5 * c.disputes) + SupportPoints(c.support)
Signs(c) == If(c.suspicious, 25) + If(c.offPlatform, 25) + If(c.kyc, 15) + DomainPoints(c.domain)
RawScore(c) == 50 + Manners(c) + Past(c) + Signs(c)

LEMMA Scored ==
  ASSUME NEW c \in PartyRequests
  PROVE  CounterpartyScore(c) = AtLeast(0, AtMost(100, RawScore(c)))
<1> DEFINE Points(value, table) == IF value \in DOMAIN table THEN table[value] ELSE 0
<1>1. Points(c.history, [strong |-> -15, weak |-> 20]) = HistoryPoints(c.history)
  BY DEF HistoryPoints
<1>2. Points(c.support, [responsive |-> -5, silent |-> 10]) = SupportPoints(c.support)
  BY DEF SupportPoints
<1>3. Points(c.domain, [new |-> 10]) = DomainPoints(c.domain)
  BY DEF DomainPoints
<1>4. CounterpartyScore(c) =
        AtLeast(0, AtMost(100,
          50 + (IF c.clearRules THEN -10 ELSE 10) + If(c.clearDeadlines, -5)
             + Points(c.history, [strong |-> -15, weak |-> 20])
             + AtMost(20, 5 * c.disputes)
             + Points(c.support, [responsive |-> -5, silent |-> 10])
             + If(c.suspicious, 25) + If(c.offPlatform, 25) + If(c.kyc, 15)
             + Points(c.domain, [new |-> 10])))
  BY Zenon DEF CounterpartyScore, If
<1> HIDE DEF Points
<1>5. QED
  BY <1>1, <1>2, <1>3, <1>4
     DEF RawScore, Manners, Past, Signs, HistoryPoints, SupportPoints, DomainPoints, If, AtMost,
         PartyRequests

LEMMA WorseParty ==
  ASSUME NEW c \in PartyRequests, NEW q \in WorseParties(c)
  PROVE  q \in PartyRequests /\ RawScore(q) >= RawScore(c)
<1>1. CASE q = [c EXCEPT !.clearRules = FALSE]
  <2>1. q \in PartyRequests
    BY <1>1 DEF PartyRequests
  <2>2. RawScore(q) >= RawScore(c)
    BY <1>1 DEF PartyRequests, RawScore, Manners, Past, Signs, HistoryPoints,
                SupportPoints, DomainPoints, If, AtMost
  <2>3. QED
    BY <2>1, <2>2
<1>2. CASE q = [c EXCEPT !.clearDeadlines = FALSE]
  <2>1. q \in PartyRequests
    BY <1>2 DEF PartyRequests
  <2>2. RawScore(q) >= RawScore(c)
    BY <1>2 DEF PartyRequests, RawScore, Manners, Past, Signs, HistoryPoints,
                SupportPoints, DomainPoints, If, AtMost
  <2>3. QED
    BY <2>1, <2>2
<1>3. CASE q = [c EXCEPT !.history = "weak"]
  <2>1. q \in PartyRequests
    BY <1>3 DEF PartyRequests
  <2>2. RawScore(q) >= RawScore(c)
    BY <1>3 DEF PartyRequests, RawScore, Manners, Past, Signs, HistoryPoints,
                SupportPoints, DomainPoints, If, AtMost
  <2>3. QED
    BY <2>1, <2>2
<1>4. CASE q = [c EXCEPT !.disputes = @ + 1]
  <2>1. q \in PartyRequests
    BY <1>4 DEF PartyRequests
  <2>2. RawScore(q) >= RawScore(c)
    BY <1>4 DEF PartyRequests, RawScore, Manners, Past, Signs, HistoryPoints,
                SupportPoints, DomainPoints, If, AtMost
  <2>3. QED
    BY <2>1, <2>2
<1>5. CASE q = [c EXCEPT !.support = "silent"]
  <2>1. q \in PartyRequests
    BY <1>5 DEF PartyRequests
  <2>2. RawScore(q) >= RawScore(c)
    BY <1>5 DEF PartyRequests, RawScore, Manners, Past, Signs, HistoryPoints,
                SupportPoints, DomainPoints, If, AtMost
  <2>3. QED
    BY <2>1, <2>2
<1>6. CASE q = [c EXCEPT !.suspicious = TRUE]
  <2>1. q \in PartyRequests
    BY <1>6 DEF PartyRequests
  <2>2. RawScore(q) >= RawScore(c)
    BY <1>6 DEF PartyRequests, RawScore, Manners, Past, Signs, HistoryPoints,
                SupportPoints, DomainPoints, If, AtMost
  <2>3. QED
    BY <2>1, <2>2
<1>7. CASE q = [c EXCEPT !.offPlatform = TRUE]
  <2>1. q \in PartyRequests
    BY <1>7 DEF PartyRequests
  <2>2. RawScore(q) >= RawScore(c)
    BY <1>7 DEF PartyRequests, RawScore, Manners, Past, Signs, HistoryPoints,
                SupportPoints, DomainPoints, If, AtMost
  <2>3. QED
    BY <2>1, <2>2
<1>8. CASE q = [c EXCEPT !.kyc = TRUE]
  <2>1. q \in PartyRequests
    BY <1>8 DEF PartyRequests
  <2>2. RawScore(q) >= RawScore(c)
    BY <1>8 DEF PartyRequests, RawScore, Manners, Past, Signs, HistoryPoints,
                SupportPoints, DomainPoints, If, AtMost
  <2>3. QED
    BY <2>1, <2>2
<1>9. CASE q = [c EXCEPT !.domain = "new"]
  <2>1. q \in PartyRequests
    BY <1>9 DEF PartyRequests
  <2>2. RawScore(q) >= RawScore(c)
    BY <1>9 DEF PartyRequests, RawScore, Manners, Past, Signs, HistoryPoints,
                SupportPoints, DomainPoints, If, AtMost
  <2>3. QED
    BY <2>1, <2>2
<1>10. QED
  BY <1>1, <1>2, <1>3, <1>4, <1>5, <1>6, <1>7, <1>8, <1>9 DEF WorseParties

LEMMA NoMilderTier ==
  ASSUME NEW c \in PartyRequests, NEW q \in PartyRequests, RawScore(q) >= RawScore(c)
  PROVE  TierRank[RiskTier(q)] >= TierRank[RiskTier(c)]
<1>1. RawScore(c) \in Int /\ RawScore(q) \in Int
  BY DEF PartyRequests, RawScore, Manners, Past, Signs, HistoryPoints, SupportPoints,
         DomainPoints, If, AtMost
<1>2. PICK old \in Int, new \in Int :
        /\ old = CounterpartyScore(c) /\ new = CounterpartyScore(q)
        /\ new >= old
  BY <1>1, Scored DEF AtLeast, AtMost
<1>3. TierRank["low"] = 0 /\ TierRank["medium"] = 1 /\ TierRank["high"] = 2
  BY DEF TierRank
<1>4. QED
  BY <1>2, <1>3 DEF RiskTier

-----------------------------------------------------------------------------
(* The eligibility checker.                                                  *)

\* The machines and the payouts a page asks for are the operator's.
Supports(page, p, hints) ==
  /\ ~ \E os \in DOMAIN SystemNeedles : SystemNeedles[os] \in page.words /\ os \notin p.systems
  /\ ~ \E item \in Hardware : item \in page.words \ p.hardware
  /\ ~ \E asset \in DOMAIN AssetNeedles \ p.assets : Mentions(page, hints, AssetNeedles[asset])
  /\ ~ \E method \in DOMAIN MethodNeedles \ p.methods : Mentions(page, hints, MethodNeedles[method])

Lives(page, region) ==
  /\ GeoNamed(page) # {} => region # "unknown"
  /\ ~ \E place \in GeoNamed(page) : region \notin GeoRegions[place] \cup {"unknown"}

\* No page can be judged without looking at more than the profile.
Plain(page) ==
  /\ ~IsEmpty(page) /\ ~Has(page, ApprovalNeedles)
  /\ ~(Has(page, {"citizen", "resident"}) /\ GeoNamed(page) = {})

Settled(answer) == answer # "no" /\ answer # "unknown"

\* What the profile p of an eligible operator is known to be.
Suits(page, p, hints) ==
  /\ Plain(page) /\ Supports(page, p, hints) /\ Lives(page, p.region)
  /\ Has(page, {"personal account"}) => p.personal
  /\ Has(page, SocialNeedles) => p.social
  /\ Has(page, PriorNeedles) => p.prior
  /\ Has(page, AgeNeedles) => p.accountAge # "unknown"
  /\ Has(page, AgeNeedles) /\ Has(page, {"N days"}) => p.accountAge # "no"
  /\ Has(page, ReputationNeedles) => Settled(p.reputation)
  /\ Has(page, {"18+", "must be 18"}) => Settled(p.adult)
  /\ Has(page, BusinessNeedles) => Settled(p.business)
  /\ Has(page, TaxNeedles) => Settled(p.tax)
  /\ Has(page, InfrastructureNeedles) => Settled(p.infrastructure)
  /\ Has(page, HistoryNeedles) => Settled(p.history)

LEMMA ClearMeans ==
  ASSUME NEW checks
  PROVE  Clear(checks) <=> \A name \in DOMAIN checks : ~checks[name]
BY DEF Clear, Fired

LEMMA EligibleSuits ==
  ASSUME NEW page, NEW p, NEW hints
  PROVE  Eligibility(page, p, hints) = "eligible" <=> Suits(page, p, hints)
<1>1. PICK b : b = BlockedRequirements(page, p, hints)
  OBVIOUS
<1>2. PICK r : r = ReviewRequirements(page, p)
  OBVIOUS
<1>3. PICK m : m = MissingRequirements(page, p)
  OBVIOUS
<1>4. Eligibility(page, p, hints) = "eligible" <=> Clear(b) /\ Clear(r) /\ Clear(m)
  BY <1>1, <1>2, <1>3 DEF Eligibility
<1>5. DOMAIN b = { "personal_account", "non_bot_social_identity", "platform_account_too_new",
        "missing_reputation", "geo_restriction", "age_restriction", "business_entity",
        "tax_or_kyc", "system", "hardware", "private_infrastructure", "repository_history",
        "prior_contribution", "payout_asset", "payout_method" }
  BY <1>1 DEF BlockedRequirements
<1>6. /\ b.personal_account <=> Has(page, {"personal account"}) /\ ~p.personal
      /\ b.non_bot_social_identity <=> Has(page, SocialNeedles) /\ ~p.social
      /\ b.platform_account_too_new
           <=> Has(page, AgeNeedles) /\ Has(page, {"N days"}) /\ p.accountAge = "no"
      /\ b.missing_reputation <=> Has(page, ReputationNeedles) /\ p.reputation = "no"
      /\ b.age_restriction <=> Has(page, {"18+", "must be 18"}) /\ p.adult = "no"
  BY <1>1 DEF BlockedRequirements
<1>7. /\ b.business_entity <=> Has(page, BusinessNeedles) /\ p.business = "no"
      /\ b.tax_or_kyc <=> Has(page, TaxNeedles) /\ p.tax = "no"
      /\ b.private_infrastructure <=> Has(page, InfrastructureNeedles) /\ p.infrastructure = "no"
      /\ b.repository_history <=> Has(page, HistoryNeedles) /\ p.history = "no"
      /\ b.prior_contribution <=> Has(page, PriorNeedles) /\ ~p.prior
  BY <1>1 DEF BlockedRequirements
<1>8. /\ b.geo_restriction <=> \E place \in GeoNamed(page) :
           p.region \notin GeoRegions[place] \cup {"unknown"}
      /\ Supports(page, p, hints)
           <=> ~b.system /\ ~b.hardware /\ ~b.payout_asset /\ ~b.payout_method
  BY <1>1 DEF BlockedRequirements, Supports
<1>9. DOMAIN r = { "reputation_unverified", "citizenship", "tax_or_kyc_unverified",
                   "infrastructure_unverified", "manual_approval" }
  BY <1>2 DEF ReviewRequirements
<1>10. /\ r.reputation_unverified <=> Has(page, ReputationNeedles) /\ p.reputation = "unknown"
       /\ r.citizenship <=> Has(page, {"citizen", "resident"}) /\ GeoNamed(page) = {}
       /\ r.tax_or_kyc_unverified <=> Has(page, TaxNeedles) /\ p.tax = "unknown"
       /\ r.infrastructure_unverified
            <=> Has(page, InfrastructureNeedles) /\ p.infrastructure = "unknown"
       /\ r.manual_approval <=> Has(page, ApprovalNeedles)
  BY <1>2 DEF ReviewRequirements
<1>11. DOMAIN m = { "rule_text", "account_age_unknown", "region_unknown", "age_unknown",
                    "business_unknown", "history_unknown" }
  BY <1>3 DEF MissingRequirements
<1>12. /\ m.rule_text <=> IsEmpty(page)
       /\ m.account_age_unknown <=> Has(page, AgeNeedles) /\ p.accountAge = "unknown"
       /\ m.region_unknown <=> GeoNamed(page) # {} /\ p.region = "unknown"
       /\ m.age_unknown <=> Has(page, {"18+", "must be 18"}) /\ p.adult = "unknown"
       /\ m.business_unknown <=> Has(page, BusinessNeedles) /\ p.business = "unknown"
       /\ m.history_unknown <=> Has(page, HistoryNeedles) /\ p.history = "unknown"
  BY <1>3 DEF MissingRequirements
<1>13. Clear(b) <=>
         /\ ~b.personal_account /\ ~b.non_bot_social_identity /\ ~b.platform_account_too_new
         /\ ~b.missing_reputation /\ ~b.geo_restriction /\ ~b.age_restriction
         /\ ~b.business_entity /\ ~b.tax_or_kyc /\ ~b.system /\ ~b.hardware
         /\ ~b.private_infrastructure /\ ~b.repository_history /\ ~b.prior_contribution
         /\ ~b.payout_asset /\ ~b.payout_method
  BY <1>5, ClearMeans
<1>14. Clear(r) <=>
         /\ ~r.reputation_unverified /\ ~r.citizenship /\ ~r.tax_or_kyc_unverified
         /\ ~r.infrastructure_unverified /\ ~r.manual_approval
  BY <1>9, ClearMeans
<1>15. Clear(m) <=>
         /\ ~m.rule_text /\ ~m.account_age_unknown /\ ~m.region_unknown /\ ~m.age_unknown
         /\ ~m.business_unknown /\ ~m.history_unknown
  BY <1>11, ClearMeans
<1>16. Lives(page, p.region) <=> ~b.geo_restriction /\ ~m.region_unknown
  BY <1>8, <1>12 DEF Lives
<1>17. Plain(page) <=> ~m.rule_text /\ ~r.citizenship /\ ~r.manual_approval
  BY <1>10, <1>12 DEF Plain
<1>18. /\ (Has(page, AgeNeedles) => p.accountAge # "unknown") <=> ~m.account_age_unknown
       /\ (Has(page, AgeNeedles) /\ Has(page, {"N days"}) => p.accountAge # "no")
            <=> ~b.platform_account_too_new
       /\ (Has(page, ReputationNeedles) => Settled(p.reputation))
            <=> ~b.missing_reputation /\ ~r.reputation_unverified
       /\ (Has(page, {"18+", "must be 18"}) => Settled(p.adult))
            <=> ~b.age_restriction /\ ~m.age_unknown
  BY <1>6, <1>10, <1>12 DEF Settled
<1>19. /\ (Has(page, BusinessNeedles) => Settled(p.business))
            <=> ~b.business_entity /\ ~m.business_unknown
       /\ (Has(page, TaxNeedles) => Settled(p.tax)) <=> ~b.tax_or_kyc /\ ~r.tax_or_kyc_unverified
       /\ (Has(page, InfrastructureNeedles) => Settled(p.infrastructure))
            <=> ~b.private_infrastructure /\ ~r.infrastructure_unverified
       /\ (Has(page, HistoryNeedles) => Settled(p.history))
            <=> ~b.repository_history /\ ~m.history_unknown
  BY <1>7, <1>10, <1>12 DEF Settled
<1>20. /\ (Has(page, {"personal account"}) => p.personal) <=> ~b.personal_account
       /\ (Has(page, SocialNeedles) => p.social) <=> ~b.non_bot_social_identity
       /\ (Has(page, PriorNeedles) => p.prior) <=> ~b.prior_contribution
  BY <1>6, <1>7
<1>21. QED
  BY <1>4, <1>8, <1>13, <1>14, <1>15, <1>16, <1>17, <1>18, <1>19, <1>20 DEF Suits

LEMMA LearntProfile ==
  ASSUME NEW s \in Screenings, NEW t \in LearntProfiles(s)
  PROVE  /\ t \in Screenings /\ t.page = s.page /\ t.hints = s.hints
         /\ t.profile \in Completions(s.profile)
<1>1. PICK profile \in Completions(s.profile) : t = [s EXCEPT !.profile = profile]
  BY DEF LearntProfiles
<1>2. PICK p : p = s.profile
  OBVIOUS
<1>3. p \in ProfileRecords
  BY <1>2 DEF Screenings
<1>4. profile \in ProfileRecords
  <2>1. CASE \E fact \in UnknownFacts(p), value \in {"yes", "no"} :
               profile = [p EXCEPT ![fact] = value]
    <3>1. PICK fact \in Facts, value \in Answers : profile = [p EXCEPT ![fact] = value]
      BY <2>1 DEF UnknownFacts, Answers
    <3>2. QED
      BY <1>3, <3>1 DEF Facts, ProfileRecords
  <2>2. CASE \E place \in Regions : profile = [p EXCEPT !.region = place]
    BY <1>3, <2>2 DEF ProfileRecords
  <2>3. QED
    BY <1>1, <1>2, <2>1, <2>2 DEF Completions
<1>5. QED
  BY <1>1, <1>4 DEF Screenings

LEMMA RewrittenPage ==
  ASSUME NEW s \in Screenings, NEW t \in RewrittenPages(s)
  PROVE  t \in Screenings /\ t.profile = s.profile /\ t.hints = s.hints
BY DEF RewrittenPages, Screenings

LEMMA LearntStillSuits ==
  ASSUME NEW page, NEW hints, NEW p \in ProfileRecords, NEW q \in Completions(p),
         Suits(page, p, hints)
  PROVE  Suits(page, q, hints)
<1>1. CASE \E fact \in UnknownFacts(p), value \in {"yes", "no"} : q = [p EXCEPT ![fact] = value]
  <2>1. PICK fact \in Facts, value \in {"yes", "no"} :
          p[fact] = "unknown" /\ q = [p EXCEPT ![fact] = value]
    BY <1>1 DEF UnknownFacts
  <2>2. /\ q.personal = p.personal /\ q.social = p.social /\ q.prior = p.prior
        /\ q.region = p.region /\ q.systems = p.systems /\ q.hardware = p.hardware
        /\ q.assets = p.assets /\ q.methods = p.methods
    BY <2>1 DEF Facts, ProfileRecords
  <2>3. \A f \in Facts : f # fact => q[f] = p[f]
    BY <2>1 DEF Facts, ProfileRecords
  <2>4. Supports(page, q, hints)
    BY <2>2 DEF Suits, Supports
  <2>5. /\ Has(page, AgeNeedles) => q.accountAge # "unknown"
        /\ Has(page, AgeNeedles) /\ Has(page, {"N days"}) => q.accountAge # "no"
        /\ Has(page, ReputationNeedles) => Settled(q.reputation)
        /\ Has(page, {"18+", "must be 18"}) => Settled(q.adult)
        /\ Has(page, BusinessNeedles) => Settled(q.business)
    BY <2>1, <2>3 DEF Suits, Settled, Facts
  <2>6. /\ Has(page, TaxNeedles) => Settled(q.tax)
        /\ Has(page, InfrastructureNeedles) => Settled(q.infrastructure)
        /\ Has(page, HistoryNeedles) => Settled(q.history)
    BY <2>1, <2>3 DEF Suits, Settled, Facts
  <2>7. QED
    BY <2>2, <2>4, <2>5, <2>6 DEF Suits
<1>2. CASE p.region = "unknown" /\ \E place \in Regions : q = [p EXCEPT !.region = place]
  <2>1. GeoNamed(page) = {}
    BY <1>2 DEF Suits, Lives
  <2>2. Lives(page, q.region)
    BY <2>1 DEF Lives
  <2>3. Supports(page, q, hints)
    BY <1>2 DEF Suits, Supports, ProfileRecords
  <2>4. QED
    BY <1>2, <2>2, <2>3 DEF Suits, ProfileRecords
<1>3. QED
  BY <1>1, <1>2 DEF Completions

-----------------------------------------------------------------------------
(* The experiment reviewer.                                                  *)

Active(v) == v.books.spent > 0 \/ v.outcome.revenue > 0
Failures(v) == v.books.failed + v.books.rejected
NetOf(v) == v.outcome.revenue + v.outcome.unrealized - v.books.spent - v.outcome.fees

\* What an experiment that goes on must be.
Promising(v) ==
  /\ v.outcome.flags \cap (MajorStopFlags \cup HumanReviewFlags) = {}
  /\ "repeated_failures" \notin v.outcome.flags /\ ~(Failures(v) >= 2)
  /\ ~(v.books.evidence = 0 /\ Active(v))
  /\ ~(v.outcome.stopped /\ ~v.outcome.success)
  /\ ~(v.books.spent > v.books.budget)
  /\ NetOf(v) > 0 \/ v.outcome.success \/ v.books.spent <= 5

GoesOn(v) == ReviewDecision(v.books, v.outcome) \in {"continue", "retry_with_changes"}

LEMMA FlagsRead ==
  ASSUME NEW v
  PROVE  /\ ReviewFlags(v.books, v.outcome) \cap MajorStopFlags
              = v.outcome.flags \cap MajorStopFlags
         /\ ReviewFlags(v.books, v.outcome) \cap HumanReviewFlags
              = v.outcome.flags \cap HumanReviewFlags
         /\ "repeated_failures" \in ReviewFlags(v.books, v.outcome)
              <=> "repeated_failures" \in v.outcome.flags \/ Failures(v) >= 2
<1>1. PICK checks : checks =
        [ failed_wallet_spend |-> v.books.failed > 0,
          rejected_wallet_spend |-> v.books.rejected > 0,
          missing_evidence |-> v.books.evidence = 0,
          no_response_outcome |-> v.books.emails = 0 /\ v.outcome.revenue = 0,
          repeated_failures |-> v.books.failed + v.books.rejected >= 2 ]
  OBVIOUS
<1>2. DOMAIN checks = { "failed_wallet_spend", "rejected_wallet_spend", "missing_evidence",
                        "no_response_outcome", "repeated_failures" }
  BY <1>1
<1>3. checks.repeated_failures <=> Failures(v) >= 2
  BY <1>1 DEF Failures
<1>4. ReviewFlags(v.books, v.outcome) = v.outcome.flags \cup Fired(checks)
  BY <1>1, Zenon DEF ReviewFlags
<1>5. Fired(checks) \subseteq DOMAIN checks
  BY DEF Fired
<1>6. "repeated_failures" \in Fired(checks) <=> Failures(v) >= 2
  BY <1>2, <1>3 DEF Fired
<1>7. QED
  BY <1>2, <1>4, <1>5, <1>6 DEF MajorStopFlags, HumanReviewFlags

LEMMA GoesOnMeans ==
  ASSUME NEW v
  PROVE  GoesOn(v) <=> Promising(v)
<1>1. EvidenceQuality(v.books) = "poor" <=> v.books.evidence = 0
  BY DEF EvidenceQuality
<1>2. BudgetExceeded(v.books) <=> v.books.spent > v.books.budget
  BY DEF BudgetExceeded
<1>3. Net(v.books, v.outcome) = NetOf(v)
  BY DEF Net, NetOf
<1>4. PICK major : major <=> v.outcome.flags \cap MajorStopFlags # {}
  OBVIOUS
<1>5. PICK human : human <=> v.outcome.flags \cap HumanReviewFlags # {}
  OBVIOUS
<1>6. PICK again : again <=> ("repeated_failures" \in v.outcome.flags \/ Failures(v) >= 2)
  OBVIOUS
<1>7. ReviewDecision(v.books, v.outcome) =
        IF major THEN "stop" ELSE IF again THEN "block_category"
        ELSE IF v.books.evidence = 0 /\ Active(v) THEN "human_review"
        ELSE IF human THEN "human_review"
        ELSE IF v.outcome.stopped /\ ~v.outcome.success THEN "stop"
        ELSE IF v.books.spent > v.books.budget THEN "human_review"
        ELSE IF NetOf(v) > 0 \/ v.outcome.success THEN "continue"
        ELSE IF v.books.spent <= 5 THEN "retry_with_changes" ELSE "human_review"
  BY <1>1, <1>2, <1>3, <1>4, <1>5, <1>6, FlagsRead DEF ReviewDecision, Active
<1>8. major \/ human <=> v.outcome.flags \cap (MajorStopFlags \cup HumanReviewFlags) # {}
  BY <1>4, <1>5
<1>9. QED
  BY <1>6, <1>7, <1>8 DEF GoesOn, Promising

\* Everything that counts against v counts against q.
NoBetter(v, q) ==
  /\ v.outcome.flags \subseteq q.outcome.flags
  /\ Failures(q) >= Failures(v) /\ NetOf(q) <= NetOf(v)
  /\ q.books.spent >= v.books.spent /\ q.books.budget = v.books.budget
  /\ q.books.evidence = v.books.evidence /\ q.outcome.revenue = v.outcome.revenue
  /\ v.outcome.stopped => q.outcome.stopped
  /\ q.outcome.success => v.outcome.success

LEMMA BadNewsIsNoBetter ==
  ASSUME NEW v \in ReviewRequests, NEW q \in BadNews(v)
  PROVE  q \in ReviewRequests /\ NoBetter(v, q)
<1>1. CASE q = [v EXCEPT !.books.failed = @ + 1]
  <2>1. q \in ReviewRequests
    BY <1>1 DEF ReviewRequests
  <2>2. NoBetter(v, q)
    BY <1>1 DEF ReviewRequests, NoBetter, Failures, NetOf
  <2>3. QED
    BY <2>1, <2>2
<1>2. CASE q = [v EXCEPT !.books.rejected = @ + 1]
  <2>1. q \in ReviewRequests
    BY <1>2 DEF ReviewRequests
  <2>2. NoBetter(v, q)
    BY <1>2 DEF ReviewRequests, NoBetter, Failures, NetOf
  <2>3. QED
    BY <2>1, <2>2
<1>3. CASE q = [v EXCEPT !.books.spent = @ + 3, !.books.payments = @ + 1]
  <2>1. PICK w : w = [v EXCEPT !.books.spent = @ + 3]
    OBVIOUS
  <2>2. w \in ReviewRequests
    BY <2>1 DEF ReviewRequests
  <2>3. q = [w EXCEPT !.books.payments = @ + 1]
    BY <1>3, <2>1 DEF ReviewRequests
  <2>4. NoBetter(v, w)
    BY <2>1 DEF ReviewRequests, NoBetter, Failures, NetOf
  <2>5. q \in ReviewRequests
    BY <2>2, <2>3 DEF ReviewRequests
  <2>6. NoBetter(w, q)
    BY <2>2, <2>3 DEF ReviewRequests, NoBetter, Failures, NetOf
  <2>7. NetOf(v) \in Int /\ NetOf(w) \in Int /\ NetOf(q) \in Int
    BY <2>2, <2>5 DEF ReviewRequests, NetOf
  <2>8. NoBetter(v, q)
    BY <2>2, <2>4, <2>5, <2>6, <2>7 DEF NoBetter, ReviewRequests, Failures
  <2>9. QED
    BY <2>5, <2>8
<1>4. CASE q = [v EXCEPT !.outcome.fees = @ + 2]
  <2>1. q \in ReviewRequests
    BY <1>4 DEF ReviewRequests
  <2>2. NoBetter(v, q)
    BY <1>4 DEF ReviewRequests, NoBetter, Failures, NetOf
  <2>3. QED
    BY <2>1, <2>2
<1>5. CASE q = [v EXCEPT !.outcome.stopped = TRUE]
  <2>1. q \in ReviewRequests
    BY <1>5 DEF ReviewRequests
  <2>2. NoBetter(v, q)
    BY <1>5 DEF ReviewRequests, NoBetter, Failures, NetOf
  <2>3. QED
    BY <2>1, <2>2
<1>6. CASE q = [v EXCEPT !.outcome.success = FALSE]
  <2>1. q \in ReviewRequests
    BY <1>6 DEF ReviewRequests
  <2>2. NoBetter(v, q)
    BY <1>6 DEF ReviewRequests, NoBetter, Failures, NetOf
  <2>3. QED
    BY <2>1, <2>2
<1>7. CASE \E flag \in {"tos_violation", "complaint", "payout"} :
             q = [v EXCEPT !.outcome.flags = @ \cup {flag}]
  <2>1. PICK flag \in OutcomeFlags : q = [v EXCEPT !.outcome.flags = @ \cup {flag}]
    BY <1>7 DEF OutcomeFlags, MajorStopFlags, HumanReviewFlags
  <2>2. q \in ReviewRequests
    BY <2>1 DEF ReviewRequests
  <2>3. NoBetter(v, q)
    BY <2>1 DEF ReviewRequests, NoBetter, Failures, NetOf
  <2>4. QED
    BY <2>2, <2>3
<1>8. QED
  BY <1>1, <1>2, <1>3, <1>4, <1>5, <1>6, <1>7 DEF BadNews

LEMMA NoRevival ==
  ASSUME NEW v \in ReviewRequests, NEW q \in ReviewRequests, NoBetter(v, q)
  PROVE  GoesOn(q) => GoesOn(v)
<1>1. /\ v.books.spent > v.books.budget => q.books.spent > q.books.budget
      /\ Active(v) => Active(q)
      /\ Failures(v) >= 2 => Failures(q) >= 2
      /\ NetOf(q) > 0 => NetOf(v) > 0
      /\ q.books.spent <= 5 => v.books.spent <= 5
  BY DEF ReviewRequests, NoBetter, Active, Failures, NetOf
<1>2. Promising(q) => Promising(v)
  BY <1>1 DEF Promising, NoBetter
<1>3. QED
  BY <1>2, GoesOnMeans

-----------------------------------------------------------------------------
(* The reconciler.  What the receipts come to is a recursive function over   *)
(* the subsets of the counted ones: it exists because it exists on the sets  *)
(* of up to n of them for each n, and its values are numbers because there   *)
(* is no smallest set for which they are not.                                *)

LEMMA OneMoreReceipt ==
  ASSUME NEW p \in Payouts, NEW q \in MoreReceipts(p)
  PROVE  q \in Payouts
<1>1. PICK receipt \in ReceiptRecords : q = [p EXCEPT !.receipts = Append(@, receipt)]
  BY DecisionsAssumption DEF MoreReceipts
<1>2. Append(p.receipts, receipt) \in Seq(ReceiptRecords)
  BY AppendProperties DEF Payouts
<1>3. QED
  BY <1>1, <1>2 DEF Payouts

LEMMA Smallest ==
  ASSUME NEW S \in SUBSET Nat, S # {}
  PROVE  \E m \in S : \A n \in S : m <= n
<1>1. PICK m \in S : \A n \in S : ~ (<<n, m>> \in OpToRel(<, Nat))
  BY NatLessThanWellFounded, WFMin, Zenon
<1>2. ASSUME NEW n \in S PROVE ~(n < m)
  BY <1>1, Zenon DEF OpToRel
<1>3. QED
  BY <1>2

\* One receipt and what the others come to.
Some(s) == CHOOSE i \in s : TRUE
Plus(receipts, f, s) ==
  IF s = {} THEN 0 ELSE receipts[Some(s)].amount + f[s \ {Some(s)}]

Sums(receipts, which) ==
  CHOOSE f : f = [s \in SUBSET which |-> Plus(receipts, f, s)]

LEMMA TotalIsASum ==
  ASSUME NEW receipts, NEW which
  PROVE  TotalOf(receipts, which) = Sums(receipts, which)[which]
BY Zenon DEF TotalOf, MapThenSumSet, MapThenFoldSet, Sums, Plus, Some

LEMMA OneLess ==
  ASSUME NEW s, IsFiniteSet(s), s # {}
  PROVE  /\ Some(s) \in s /\ IsFiniteSet(s \ {Some(s)})
         /\ Cardinality(s) \in Nat \ {0} /\ Cardinality(s \ {Some(s)}) = Cardinality(s) - 1
<1>1. Some(s) \in s
  BY DEF Some
<1>2. Cardinality(s) \in Nat /\ Cardinality(s) # 0
  BY FS_CardinalityType, FS_EmptySet
<1>3. QED
  BY <1>1, <1>2, FS_RemoveElement

LEMMA SumsExist ==
  ASSUME NEW receipts, NEW which, IsFiniteSet(which), \A i \in which : receipts[i].amount \in Nat
  PROVE  \E f : f = [s \in SUBSET which |-> Plus(receipts, f, s)]
<1> DEFINE Few(n) == {s \in SUBSET which : Cardinality(s) <= n}
           Solved(n) == \E f : f = [s \in Few(n) |-> Plus(receipts, f, s)]
           Unsolved == {n \in Nat : ~Solved(n)}
<1>1. ASSUME NEW s \in SUBSET which
      PROVE  IsFiniteSet(s) /\ Cardinality(s) \in Nat /\ Cardinality(s) <= Cardinality(which)
  BY FS_Subset, FS_CardinalityType
<1>2. Cardinality(which) \in Nat
  BY FS_CardinalityType
<1>3. ASSUME NEW n \in Nat, n = 0 \/ Solved(n - 1)
      PROVE  Solved(n)
  <2>1. PICK g : n = 0 \/ g = [s \in Few(n - 1) |-> Plus(receipts, g, s)]
    BY <1>3
  <2>2. PICK f : f = [s \in Few(n) |-> Plus(receipts, g, s)]
    OBVIOUS
  <2>3. ASSUME NEW s \in Few(n) PROVE Plus(receipts, g, s) = Plus(receipts, f, s)
    <3>1. CASE s = {}
      BY <3>1 DEF Plus
    <3>2. CASE s # {}
      <4>1. PICK t : t = s \ {Some(s)}
        OBVIOUS
      <4>2. s \in SUBSET which /\ Cardinality(s) <= n /\ t \in SUBSET which
        BY <4>1
      <4>3. Cardinality(s) \in Nat \ {0} /\ Cardinality(t) = Cardinality(s) - 1
        BY <1>1, <3>2, <4>1, <4>2, OneLess
      <4>4. n # 0 /\ Cardinality(t) <= n - 1 /\ Cardinality(t) <= n
        BY <4>2, <4>3
      <4>5. t \in Few(n - 1) /\ t \in Few(n)
        BY <4>2, <4>4
      <4>6. g[t] = Plus(receipts, g, t) /\ f[t] = Plus(receipts, g, t)
        BY <2>1, <2>2, <4>4, <4>5
      <4>7. QED
        BY <3>2, <4>1, <4>6 DEF Plus
    <3>3. QED
      BY <3>1, <3>2
  <2>4. f = [s \in Few(n) |-> Plus(receipts, f, s)]
    BY <2>2, <2>3
  <2>5. QED
    BY <2>4
<1>4. Unsolved = {}
  <2> SUFFICES ASSUME Unsolved # {} PROVE FALSE
    OBVIOUS
  <2>1. Unsolved \in SUBSET Nat
    OBVIOUS
  <2> HIDE DEF Solved
  <2>2. PICK n \in Unsolved : \A m \in Unsolved : n <= m
    BY <2>1, Smallest
  <2>3. n = 0 \/ n - 1 \in Nat
    OBVIOUS
  <2>4. n = 0 \/ Solved(n - 1)
    BY <2>2, <2>3
  <2>5. QED
    BY <1>3, <2>2, <2>4
<1>5. Solved(Cardinality(which))
  BY <1>2, <1>4
<1>6. Few(Cardinality(which)) = SUBSET which
  BY <1>1
<1>7. QED
  BY <1>5, <1>6

LEMMA SumsAreNumbers ==
  ASSUME NEW receipts, NEW which, IsFiniteSet(which), \A i \in which : receipts[i].amount \in Nat
  PROVE  \A s \in SUBSET which : Sums(receipts, which)[s] \in Nat
<1>1. PICK f : f = Sums(receipts, which)
  OBVIOUS
<1>2. f = [s \in SUBSET which |-> Plus(receipts, f, s)]
  BY <1>1, SumsExist, Zenon DEF Sums
<1> DEFINE Odd == {n \in Nat : \E s \in SUBSET which : Cardinality(s) = n /\ f[s] \notin Nat}
<1>3. \A s \in SUBSET which : IsFiniteSet(s) /\ Cardinality(s) \in Nat
  BY FS_Subset, FS_CardinalityType
<1>4. Odd = {}
  <2> SUFFICES ASSUME Odd # {} PROVE FALSE
    OBVIOUS
  <2>1. Odd \in SUBSET Nat
    OBVIOUS
  <2>2. PICK n \in Odd : \A m \in Odd : n <= m
    BY <2>1, Smallest
  <2>3. PICK s \in SUBSET which : Cardinality(s) = n /\ f[s] \notin Nat
    BY <2>2
  <2>4. f[s] = Plus(receipts, f, s)
    BY <1>2
  <2>5. s # {}
    BY <2>3, <2>4 DEF Plus
  <2>6. PICK t : t = s \ {Some(s)}
    OBVIOUS
  <2>7. /\ Some(s) \in which /\ t \in SUBSET which
        /\ n \in Nat \ {0} /\ Cardinality(t) = n - 1
    BY <1>3, <2>3, <2>5, <2>6, OneLess
  <2>8. n - 1 \in Nat /\ ~(n <= n - 1)
    BY <2>7
  <2>9. f[t] \in Nat
    BY <2>2, <2>7, <2>8
  <2>10. f[s] = receipts[Some(s)].amount + f[t]
    BY <2>4, <2>5, <2>6 DEF Plus
  <2>11. receipts[Some(s)].amount \in Nat
    BY <2>7
  <2>12. QED
    BY <2>3, <2>9, <2>10, <2>11
<1>5. QED
  BY <1>1, <1>3, <1>4

LEMMA PaidInFull ==
  ASSUME NEW p \in Payouts, p.claim.amount > 0,
         TotalOf(p.receipts, Counted(p.claim, p.receipts)) >= p.claim.amount
  PROVE  Reconcile(p.claim, p.receipts) \in {"matched", "ambiguous_needs_review"}
<1>1. PICK claim \in ClaimRecords, receipts \in Seq(ReceiptRecords) :
        claim = p.claim /\ receipts = p.receipts
  BY DEF Payouts
<1>2. PICK counted : counted = Counted(claim, receipts)
  OBVIOUS
<1>3. counted \subseteq DOMAIN receipts /\ Exact(claim, receipts) \subseteq DOMAIN receipts
  BY <1>2 DEF Counted, Exact
<1>4. IsFiniteSet(DOMAIN receipts)
  BY FS_Interval
<1>5. IsFiniteSet(counted) /\ Cardinality(Exact(claim, receipts)) \in Nat
  BY <1>3, <1>4, FS_Subset, FS_CardinalityType
<1>6. ASSUME NEW i \in counted PROVE receipts[i].amount \in Nat
  <2>1. i \in 1 .. Len(receipts)
    BY <1>3
  <2>2. receipts[i] \in ReceiptRecords
    BY <2>1, ElementOfSeq
  <2>3. QED
    BY <2>2 DEF ReceiptRecords
<1>7. TotalOf(receipts, counted) \in Nat
  BY <1>5, <1>6, TotalIsASum, SumsAreNumbers
<1>8. TotalOf(receipts, counted) > 0 /\ TotalOf(receipts, counted) >= claim.amount
  BY <1>1, <1>2, <1>7 DEF ClaimRecords
<1>9. QED
  BY <1>1, <1>2, <1>5, <1>7, <1>8 DEF Reconcile

-----------------------------------------------------------------------------
(* The terms change monitor.                                                 *)

Changes ==
  { "formatting_only", "payout_method", "submission_deadline", "required_deliverable",
    "refund_chargeback", "payout_amount", "kyc_tax_requirement", "missing_prior_snapshot",
    "automation_policy" }

LEMMA MaxOfFew ==
  ASSUME NEW S \in SUBSET (0 .. 4), S # {}
  PROVE  Max(S) \in S /\ \A x \in S : Max(S) >= x
<1>1. \E m \in S : \A x \in S : m >= x
  <2>1. CASE 4 \in S
    BY <2>1
  <2>2. CASE 4 \notin S /\ 3 \in S
    BY <2>2
  <2>3. CASE 4 \notin S /\ 3 \notin S /\ 2 \in S
    BY <2>3
  <2>4. CASE 4 \notin S /\ 3 \notin S /\ 2 \notin S /\ 1 \in S
    BY <2>4
  <2>5. CASE 4 \notin S /\ 3 \notin S /\ 2 \notin S /\ 1 \notin S
    <3>1. \A x \in S : x = 0
      BY <2>5
    <3>2. 0 \in S
      BY <3>1
    <3>3. QED
      BY <3>1, <3>2
  <2>6. QED
    BY <2>1, <2>2, <2>3, <2>4, <2>5
<1>2. QED
  BY <1>1 DEF Max

LEMMA EveryChangeWeighs ==
  ASSUME NEW fields \in SUBSET Changes, fields # {}
  PROVE  RequiresRecheck(fields)
<1>1. \A field \in Changes : FieldSeverity[field] \in 1 .. 4
  BY DEF Changes, FieldSeverity
<1>2. PICK S : S = {0} \cup {FieldSeverity[field] : field \in fields}
  OBVIOUS
<1>3. S \in SUBSET (0 .. 4)
  BY <1>1, <1>2
<1>4. PICK x \in S : x > 0
  BY <1>1, <1>2
<1>5. Max(S) \in S /\ Max(S) >= x
  BY <1>3, <1>4, MaxOfFew
<1>6. Max(S) > 0
  <2>1. Max(S) \in 0 .. 4 /\ x \in 0 .. 4
    BY <1>3, <1>4, <1>5
  <2>2. QED
    BY <1>4, <1>5, <2>1
<1>7. QED
  BY <1>2, <1>6 DEF RequiresRecheck, Severity

LEMMA EveryChangeIsNamed ==
  ASSUME NEW prior, NEW current, prior # current
  PROVE  ChangedFields(prior, current) \in SUBSET Changes /\ ChangedFields(prior, current) # {}
<1>1. PICK named : named = Fired(NamedChanges(prior, current))
  OBVIOUS
<1>2. DOMAIN NamedChanges(prior, current) =
        { "payout_amount", "payout_method", "submission_deadline", "automation_policy",
          "kyc_tax_requirement", "required_deliverable", "refund_chargeback" }
  BY DEF NamedChanges
<1>3. named \subseteq Changes
  BY <1>1, <1>2 DEF Fired, Changes
<1>4. ChangedFields(prior, current) =
        IF IsEmpty(prior) THEN {"missing_prior_snapshot"}
        ELSE IF (SameText(prior, current) /\ prior # current) \/ (named = {} /\ prior # current)
        THEN named \cup {"formatting_only"} ELSE named
  BY <1>1, Zenon DEF ChangedFields
<1>5. QED
  BY <1>3, <1>4 DEF Changes

-----------------------------------------------------------------------------
(* The specification.                                                        *)

LEMMA DecisionsInvariant == Spec => []DecisionsOK
<1>1. Init => DecisionsOK
  BY DEF Init, NoInquiry, DecisionsOK
<1>2. DecisionsOK /\ [Next]_vars => DecisionsOK'
  <2> SUFFICES ASSUME DecisionsOK, [Next]_vars PROVE DecisionsOK'
    OBVIOUS
  <2>1. CASE UNCHANGED vars
    BY <2>1 DEF vars, DecisionsOK
  <2>2. CASE AskPolicy
    BY <2>2, Opened, DecisionsAssumption DEF AskPolicy, DecisionsOK
  <2>3. CASE AskBudget
    BY <2>3, Opened, DecisionsAssumption DEF AskBudget, DecisionsOK
  <2>4. CASE AskParty
    BY <2>4, Opened, DecisionsAssumption DEF AskParty, DecisionsOK
  <2>5. CASE AskScreening
    <3>1. [page : Pages, profile : Profiles, hints : {{}, {"paypal"}}] \subseteq Screenings
      BY DecisionsAssumption DEF Screenings
    <3>2. PICK subject \in Screenings :
            inquiry' = [kind |-> "screening", about |-> subject, changes |-> 0]
      BY <2>5, <3>1 DEF AskScreening, Open
    <3>3. QED
      BY <3>2 DEF DecisionsOK
  <2>6. CASE AskPayout
    <3>1. [claim : Claims, receipts : {<<>>}] \subseteq Payouts
      <4>1. <<>> \in Seq(ReceiptRecords)
        BY EmptySeq
      <4>2. Claims \subseteq ClaimRecords
        BY DecisionsAssumption
      <4>3. QED
        BY <4>1, <4>2 DEF Payouts
    <3>2. PICK subject \in Payouts :
            inquiry' = [kind |-> "payout", about |-> subject, changes |-> 0]
      BY <2>6, <3>1 DEF AskPayout, Open
    <3>3. QED
      BY <3>2 DEF DecisionsOK
  <2>7. CASE AskReview
    BY <2>7, Opened, DecisionsAssumption DEF AskReview, DecisionsOK
  <2>8. CASE WorsenRequest
    BY <2>8, WorseAsksMore DEF WorsenRequest, Change, DecisionsOK
  <2>9. CASE WorsenBudget
    BY <2>9, WorsePlan DEF WorsenBudget, Change, DecisionsOK
  <2>10. CASE WorsenParty
    BY <2>10, WorseParty DEF WorsenParty, Change, DecisionsOK
  <2>11. CASE LearnFact
    BY <2>11, LearntProfile DEF LearnFact, Change, DecisionsOK
  <2>12. CASE RewriteTerms
    BY <2>12, RewrittenPage DEF RewriteTerms, Change, DecisionsOK
  <2>13. CASE ReceivePayment
    BY <2>13, OneMoreReceipt DEF ReceivePayment, Change, DecisionsOK
  <2>14. CASE ReportBadNews
    BY <2>14, BadNewsIsNoBetter DEF ReportBadNews, Change, DecisionsOK
  <2>15. CASE Close
    BY <2>15 DEF Close, NoInquiry, DecisionsOK
  <2>16. QED
    BY <2>1, <2>2, <2>3, <2>4, <2>5, <2>6, <2>7, <2>8, <2>9, <2>10, <2>11, <2>12, <2>13,
       <2>14, <2>15 DEF Next
<1>3. QED
  BY <1>1, <1>2, PTL DEF Spec

\* Of the steps of Next, only the one that changes an inquiry of a kind keeps it open.
LEMMA StaysOpen ==
  ASSUME NEW kind, kind # "none", StillOpen(kind), Next
  PROVE  /\ ~AskPolicy /\ ~AskBudget /\ ~AskParty
         /\ ~AskScreening /\ ~AskPayout /\ ~AskReview /\ ~Close
<1>1. inquiry # NoInquiry /\ inquiry' # NoInquiry
  BY DEF StillOpen, NoInquiry
<1>2. QED
  BY <1>1 DEF AskPolicy, AskBudget, AskParty, AskScreening, AskPayout, AskReview, Open, Close

LEMMA ChangesItsKind ==
  /\ WorsenRequest => inquiry.kind = "policy"
  /\ WorsenBudget => inquiry.kind = "budget"
  /\ WorsenParty => inquiry.kind = "party"
  /\ LearnFact \/ RewriteTerms => inquiry.kind = "screening"
  /\ ReceivePayment => inquiry.kind = "payout"
  /\ ReportBadNews => inquiry.kind = "review"
BY DEF WorsenRequest, WorsenBudget, WorsenParty, LearnFact, RewriteTerms, ReceivePayment,
       ReportBadNews, Change

\* The policy guard never judges a request more mildly for having got worse, whatever
\* the operator's lists of actions and categories: PolicyDecision looks at the block
\* list before the review list, and no rule reads a fact the wrong way round
\* (rules.py:218-309).
THEOREM PolicyOnlyHardens == Spec => PolicyNeverSoftens
<1>1. DecisionsOK /\ [Next]_vars =>
        [StillOpen("policy") =>
           PolicyRank[PolicyDecision(inquiry'.about)]
             >= PolicyRank[PolicyDecision(inquiry.about)]]_vars
  <2> SUFFICES ASSUME DecisionsOK, Next, StillOpen("policy")
               PROVE  PolicyRank[PolicyDecision(inquiry'.about)]
                        >= PolicyRank[PolicyDecision(inquiry.about)]
    OBVIOUS
  <2>1. WorsenRequest
    BY StaysOpen, ChangesItsKind DEF StillOpen, Next
  <2>2. PICK r, q : r = inquiry.about /\ q = inquiry'.about
    OBVIOUS
  <2>3. r \in PolicyRequests(Nat) /\ q \in WorseRequests(r)
    BY <2>1, <2>2 DEF DecisionsOK, WorsenRequest, Change
  <2>4. PolicyRank[PolicyDecision(q)] >= PolicyRank[PolicyDecision(r)]
    BY <2>3, WorseAsksMore, NoMilderVerdict
  <2>5. QED
    BY <2>2, <2>4
<1>2. QED
  BY <1>1, DecisionsInvariant, PTL DEF Spec, PolicyNeverSoftens

\* A plan that gets dearer or less well covered is not executed unless it was fit to be
\* before, and is not judged more mildly while its fees and revenue are as well known
\* as they were; a counterparty of which something worse is learnt does not fall to a
\* lower tier (budget runner.py:35-44, 69-124, counterparty runner.py:27-86).
THEOREM PlansOnlyHarden == Spec => PlanNeverSoftens
<1> DEFINE Plans ==
      StillOpen("budget") =>
        LET before == BudgetDecision(inquiry.about)
            after == BudgetDecision(inquiry'.about)
        IN  /\ after = "execute_request" => before = "execute_request"
            /\ /\ inquiry'.about.feesKnown = inquiry.about.feesKnown
               /\ inquiry'.about.revenueUnknown = inquiry.about.revenueUnknown
               => BudgetRank[after] >= BudgetRank[before]
    Tiers ==
      StillOpen("party") =>
        TierRank[RiskTier(inquiry'.about)] >= TierRank[RiskTier(inquiry.about)]
<1>1. DecisionsOK /\ Next => Plans
  <2> SUFFICES ASSUME DecisionsOK, Next, StillOpen("budget") PROVE Plans
    OBVIOUS
  <2>1. WorsenBudget
    BY StaysOpen, ChangesItsKind DEF StillOpen, Next
  <2>2. PICK b, q : b = inquiry.about /\ q = inquiry'.about
    OBVIOUS
  <2>3. b \in PlanRequests /\ q \in WorseBudgets(b)
    BY <2>1, <2>2 DEF DecisionsOK, WorsenBudget, Change
  <2>4. /\ BudgetDecision(q) = "execute_request" => BudgetDecision(b) = "execute_request"
        /\ q.feesKnown = b.feesKnown /\ q.revenueUnknown = b.revenueUnknown =>
             BudgetRank[BudgetDecision(q)] >= BudgetRank[BudgetDecision(b)]
    BY <2>3, WorsePlan, NoMilderPlan
  <2>5. QED
    BY <2>2, <2>4
<1>2. DecisionsOK /\ Next => Tiers
  <2> SUFFICES ASSUME DecisionsOK, Next, StillOpen("party") PROVE Tiers
    OBVIOUS
  <2>1. WorsenParty
    BY StaysOpen, ChangesItsKind DEF StillOpen, Next
  <2>2. PICK c, q : c = inquiry.about /\ q = inquiry'.about
    OBVIOUS
  <2>3. c \in PartyRequests /\ q \in WorseParties(c)
    BY <2>1, <2>2 DEF DecisionsOK, WorsenParty, Change
  <2>4. TierRank[RiskTier(q)] >= TierRank[RiskTier(c)]
    BY <2>3, WorseParty, NoMilderTier
  <2>5. QED
    BY <2>2, <2>4
<1>3. DecisionsOK /\ [Next]_vars => [Plans /\ Tiers]_vars
  BY <1>1, <1>2
<1>4. QED
  BY <1>3, DecisionsInvariant, PTL DEF Spec, PlanNeverSoftens

\* A profile found eligible with facts unknown stays eligible however the facts turn
\* out: each fact a page asks for and the profile does not know is a review or a
\* missing requirement of its own (account_eligibility_checker runner.py:62-165).
THEOREM UnknownsNeverHelp == Spec => UnknownFactsFailClosed
<1>1. DecisionsOK /\ LearnFact =>
        LET Verdict(s) == Eligibility(s.page, s.profile, s.hints)
        IN  Verdict(inquiry.about) = "eligible" => Verdict(inquiry'.about) = "eligible"
  <2> SUFFICES ASSUME DecisionsOK, LearnFact,
                      Eligibility(inquiry.about.page, inquiry.about.profile, inquiry.about.hints)
                        = "eligible"
               PROVE  Eligibility(inquiry'.about.page, inquiry'.about.profile,
                                  inquiry'.about.hints) = "eligible"
    OBVIOUS
  <2>1. PICK s, t : s = inquiry.about /\ t = inquiry'.about
    OBVIOUS
  <2>2. s \in Screenings /\ t \in LearntProfiles(s)
    BY <2>1, ChangesItsKind DEF DecisionsOK, LearnFact, Change
  <2>3. /\ t.page = s.page /\ t.hints = s.hints
        /\ s.profile \in ProfileRecords /\ t.profile \in Completions(s.profile)
    BY <2>2, LearntProfile DEF Screenings
  <2>4. Suits(s.page, s.profile, s.hints)
    BY <2>1, EligibleSuits
  <2>5. Suits(s.page, t.profile, s.hints)
    BY <2>3, <2>4, LearntStillSuits
  <2>6. QED
    BY <2>1, <2>3, <2>5, EligibleSuits
<1>2. QED
  BY <1>1, DecisionsInvariant, PTL DEF Spec, UnknownFactsFailClosed

\* A payer who owes something and whose payments add up to it, in whatever parts and
\* whatever else arrived, is never sent a follow-up: the reconciler calls such a payout
\* matched or ambiguous, and the planner drafts for neither (revenue_reconciler
\* runner.py:40-89, payout_followup_planner runner.py:42-63).
THEOREM PayersAreLeftAlone == Spec => []PaidInFullIsNotDunned
<1>1. DecisionsOK => PaidInFullIsNotDunned
  <2> SUFFICES ASSUME DecisionsOK, inquiry.kind = "payout", inquiry.about.claim.amount > 0,
                      TotalOf(inquiry.about.receipts,
                              Counted(inquiry.about.claim, inquiry.about.receipts))
                        >= inquiry.about.claim.amount,
                      NEW case
               PROVE  Followup(Reconcile(inquiry.about.claim, inquiry.about.receipts), case)
                        # "draft_followup"
    BY Zenon DEF PaidInFullIsNotDunned
  <2>1. Reconcile(inquiry.about.claim, inquiry.about.receipts)
          \in {"matched", "ambiguous_needs_review"}
    BY PaidInFull DEF DecisionsOK
  <2>2. QED
    BY <2>1 DEF Followup
<1>2. QED
  BY <1>1, DecisionsInvariant, PTL

\* An experiment that the reviewer does not let go on is not let go on after a further
\* failure, cost or incident (decision.py:25-133, reviewer runner.py:69-81).
THEOREM NothingIsRevived == Spec => BadNewsNeverRevives
<1>1. DecisionsOK /\ ReportBadNews => (GoesOn(inquiry'.about) => GoesOn(inquiry.about))
  <2> SUFFICES ASSUME DecisionsOK, ReportBadNews
               PROVE  GoesOn(inquiry'.about) => GoesOn(inquiry.about)
    OBVIOUS
  <2>1. PICK v, q : v = inquiry.about /\ q = inquiry'.about
    OBVIOUS
  <2>2. v \in ReviewRequests /\ q \in BadNews(v)
    BY <2>1, ChangesItsKind DEF DecisionsOK, ReportBadNews, Change
  <2>3. GoesOn(q) => GoesOn(v)
    BY <2>2, BadNewsIsNoBetter, NoRevival
  <2>4. QED
    BY <2>1, <2>3
<1>2. QED
  BY <1>1, DecisionsInvariant, PTL DEF Spec, BadNewsNeverRevives, GoesOn

\* When rewritten rules change what the TOS checker, the eligibility checker or the
\* submission builder decides, or a price or a revenue, the monitor asks for a recheck:
\* two pages that differ at all have a changed field, if only formatting_only, and
\* every field weighs (terms_change_monitor runner.py:68-118).
THEOREM NoApprovalGoesStale == Spec => StaleApprovalsAreRechecked
<1> DEFINE Answered(s) == << TosDecision(s.page, TRUE), Eligibility(s.page, s.profile, s.hints),
                             SubmissionStatus(s.page), RequiredSpend(s.page),
                             RevenueHigh(s.page) >>
<1>1. DecisionsOK /\ RewriteTerms =>
        (Answered(inquiry.about) # Answered(inquiry'.about)
           => RequiresRecheck(ChangedFields(inquiry.about.page, inquiry'.about.page)))
  <2> SUFFICES ASSUME DecisionsOK, RewriteTerms,
                      Answered(inquiry.about) # Answered(inquiry'.about)
               PROVE  RequiresRecheck(ChangedFields(inquiry.about.page, inquiry'.about.page))
    OBVIOUS
  <2>1. PICK s, t : s = inquiry.about /\ t = inquiry'.about
    OBVIOUS
  <2>2. s \in Screenings /\ t \in RewrittenPages(s)
    BY <2>1, ChangesItsKind DEF DecisionsOK, RewriteTerms, Change
  <2>3. t.profile = s.profile /\ t.hints = s.hints
    BY <2>2, RewrittenPage
  <2>4. s.page # t.page
    BY <2>1, <2>3
  <2>5. RequiresRecheck(ChangedFields(s.page, t.page))
    BY <2>4, EveryChangeIsNamed, EveryChangeWeighs
  <2>6. QED
    BY <2>1, <2>5
<1>2. QED
  BY <1>1, DecisionsInvariant, PTL DEF Spec, StaleApprovalsAreRechecked
=============================================================================
