------------------------------ MODULE PolicyGuard ------------------------------
(***************************************************************************)
(* The policy guard: evaluate_policy of skills/moneybot_policy_guard/      *)
(* rules.py over the taxonomy of taxonomy.py.  A pure function from a      *)
(* request to a verdict.  A rule is named by the string the code appends   *)
(* to matched_rules; the texts of the reasons are left out.                *)
(***************************************************************************)
EXTENDS Naturals, Verdicts

CONSTANTS
  EnabledActions,   \* MoneyBotPolicyConfig.allowed_action_types
  ConfigBlocked,    \* its blocked_categories, normalized
  ConfigReview,     \* its review_required_categories, normalized
  MaxSingleSpend    \* its max_single_spend_usd

ASSUME PolicyAssumption == MaxSingleSpend \in Nat \ {0}

SpendActions == {"spend", "wallet_transfer", "purchase"}
ActionTypes ==
  SpendActions \cup {"research", "email", "browser_submit", "account_create",
                     "code_build", "publish", "other"}
ResearchActions == {"research", "code_build"}

BuiltinBlocked ==
  { "gambling", "prediction_markets", "options_trading", "securities_trading",
    "forex_trading", "futures_trading", "leveraged_trading", "defi_yield_farming",
    "nft_speculation", "token_speculation", "airdrop_farming",
    "autonomous_crypto_trading", "crypto_speculation", "handling_other_peoples_funds",
    "money_transmission", "escrow", "brokerage", "exchange_operation", "mixing",
    "tumbling", "kyc_evasion", "fake_identity", "impersonation", "account_farming",
    "spam", "bulk_outreach", "fake_reviews", "phishing", "credential_harvesting",
    "malware", "exploit_deployment", "scraping_prohibited", "paywall_bypass",
    "deceptive_claims", "hidden_affiliate_referral_abuse" }

BuiltinReview ==
  { "affiliate_marketing", "recurring_billing", "user_data_collection",
    "public_advertising", "cold_outreach", "financial_account_creation",
    "identity_verification" }

AllowedCategories ==
  { "research", "opportunity_analysis", "draft_email", "internal_budget_planning",
    "ledger_recording", "evidence_archival", "static_page_generation", "purchase",
    "infrastructure", "domain", "hosting", "listing_fee", "software_tool",
    "software_credit", "bounty_submission_fee", "experiment_material" }

WalletPatterns ==
  {"bitcoin-cli", "sendall", "wallet.dat", "seed phrase", "private key", "rpc cookie"}

References ==
  { "opportunity_id", "budget_plan_id", "policy_decision_id", "tos_legal_check_id",
    "ledger_record_id", "bot_owned_account_context" }

(***************************************************************************)
(* A request: amount is 0 when there is none (the validator of             *)
(* PolicyCheckRequest refuses a spend action without one, so the rule      *)
(* missing_amount cannot fire), patterns are the wallet access patterns    *)
(* its description or planned tools mention, metadata the keys it carries. *)
(***************************************************************************)
PolicyRequests(amounts) ==
  [ action : ActionTypes, category : STRING, amount : amounts, counterparty : BOOLEAN,
    patterns : SUBSET WalletPatterns, metadata : SUBSET References, approved : BOOLEAN,
    newAccount : BOOLEAN, sendsEmail : BOOLEAN, wallet : BOOLEAN, claims : BOOLEAN,
    userData : BOOLEAN ]

Spends(r) == r.action \in SpendActions
Lacks(r, reference) == reference \notin r.metadata

BlockRules(r) ==
  [ blocked_action_type |-> r.action \notin EnabledActions,
    blocked_category |-> r.category \in BuiltinBlocked \cup ConfigBlocked,
    prohibited_wallet_access |-> r.patterns # {},
    amount_over_single_spend_cap |-> Spends(r) /\ r.amount > MaxSingleSpend,
    missing_counterparty |-> (Spends(r) \/ r.action = "email") /\ ~r.counterparty,
    missing_budget_plan |-> Spends(r) /\ Lacks(r, "budget_plan_id"),
    missing_policy_reference |-> Spends(r) /\ Lacks(r, "policy_decision_id"),
    missing_tos_legal_reference |-> Spends(r) /\ Lacks(r, "tos_legal_check_id"),
    missing_ledger_reference |-> Spends(r) /\ Lacks(r, "ledger_record_id"),
    unknown_executable_wallet_action |-> r.wallet /\ ~Spends(r),
    missing_bot_owned_account_context |->
      r.newAccount /\ Lacks(r, "bot_owned_account_context") ]

ReviewCategories == BuiltinReview \cup ConfigReview

ReviewRules(r) ==
  [ email_send_requires_approval |-> r.sendsEmail /\ ~r.approved,
    missing_email_reference |-> r.sendsEmail /\ Lacks(r, "opportunity_id"),
    missing_browser_reference |->
      r.action = "browser_submit" /\ Lacks(r, "opportunity_id"),
    new_account_requires_review |-> r.newAccount,
    user_data_collection_requires_review |-> r.userData,
    public_claims_require_review |-> r.claims,
    review_required_category |-> r.category \in ReviewCategories,
    unknown_category_defaults_to_review |->
      r.category \notin AllowedCategories \cup ReviewCategories ]

\* Mutant: a request that needs review is reviewed, whatever blocks it.
PolicyDecision_ReviewFirst(r) ==
  IF ~Clear(ReviewRules(r)) THEN "needs_review"
  ELSE IF ~Clear(BlockRules(r)) THEN "block" ELSE "allow"

PolicyDecision(r) ==
  IF ~Clear(BlockRules(r)) THEN "block"
  ELSE IF ~Clear(ReviewRules(r)) THEN "needs_review" ELSE "allow"

\* What an allowed action may spend and do (execution_constraints).
Constraints(r) ==
  IF r.action \in ResearchActions
  THEN [maxSpend |-> 0, purchase |-> FALSE, transfer |-> FALSE]
  ELSE [ maxSpend |-> IF r.amount < MaxSingleSpend THEN r.amount ELSE MaxSingleSpend,
         purchase |-> r.action = "purchase",
         transfer |-> r.wallet ]

PolicyRank == [allow |-> 0, needs_review |-> 1, block |-> 2]
=============================================================================
