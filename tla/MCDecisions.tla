---------------------------- MODULE MCDecisions ----------------------------
EXTENDS Decisions

MCEnabledActions == ActionTypes \ {"other"}
MCConfigBlocked == {"gambling", "domain"}
MCConfigReview == {"hosting"}
\* The configuration has gambling, Domain and hosting.
MCPlanBlocked == {"gambling", "Domain"}
MCMaxSingleSpend == 3
MCCategories == {"gambling", "domain", "Domain", "hosting", "affiliate_marketing", "unlisted"}
MCMaxChanges == 2

(***************************************************************************)
(* Requests that the guard allows, and some that it does not.              *)
(***************************************************************************)
MCRequests ==
  [ action : {"purchase", "email", "research", "browser_submit", "other"},
    category : {"purchase", "hosting"}, amount : {3}, counterparty : {TRUE}, patterns : {{}},
    metadata : {References}, approved : {TRUE}, newAccount : {FALSE}, sendsEmail : {FALSE},
    wallet : {FALSE}, claims : {FALSE}, userData : {FALSE} ]

MCBudgets ==
  [ opportunity : {TRUE}, policy : {"allow"}, claimedPolicy : {"allow"}, tos : {"proceed"},
    claimedTos : {"proceed"}, spend : {0, 1}, fees : {0, 1}, feesKnown : {TRUE},
    otherFees : {0}, recurring : {0}, capped : {TRUE}, recurringCap : {1}, maxLoss : {2, 3},
    balance : {3}, remaining : {3}, categories : {{"purchase"}}, revenue : {2, 9},
    revenueUnknown : BOOLEAN ]

MCParties ==
  [ clearRules : BOOLEAN, clearDeadlines : BOOLEAN, history : {"strong", "unknown", "weak"},
    disputes : {0, 4}, support : {"responsive", "unknown"}, suspicious : BOOLEAN,
    offPlatform : BOOLEAN, kyc : BOOLEAN, domain : {"unknown"} ]

(***************************************************************************)
(* Rules pages: one phrase each, the pairs that work against each other,   *)
(* and pages that differ in an amount, a line or nothing but their layout. *)
(***************************************************************************)
Phrases ==
  { "automation allowed", "no bots", "bot use prohibited", "payment unclear",
    "payout within", "gambling", "commercial use prohibited", "kyc required",
    "eligibility unclear", "no cold outreach", "fake account", "personal account",
    "reputation", "must be 18", "us only", "llc", "tax form", "private vps",
    "github history", "paypal", "payment method", "resident", "gpu", "linux required",
    "screenshot", "submit at", "required field", "invoice review", "refund policy unclear",
    "prior contribution", "karma" }

Pairs ==
  { {"payment unclear", "gambling"}, {"payment unclear", "commercial use prohibited"},
    {"payment unclear", "no bots"}, {"automation allowed", "gambling"},
    {"payout within", "gambling"}, {"tax form", "us only"}, {"us only", "resident"},
    {"account age", "N days"}, {"submit at", "http"}, {"llc", "must be 18"},
    {"reputation", "tax form"}, {"payout within", "kyc required"} }

MCPages ==
  {EmptyPage}
    \cup {Page(Reading({phrase})) : phrase \in Phrases}
    \cup {Page(Reading(pair)) : pair \in Pairs}
    \cup {[Page({}) EXCEPT !.amounts = amounts] : amounts \in {<<>>, <<10>>, <<25>>, <<10, 25>>}}
    \cup {[Page({"spend"}) EXCEPT !.amounts = <<10, 25>>],
          [Page({}) EXCEPT !.due = "soon"], [Page({}) EXCEPT !.layout = "reflowed"],
          [Page({}) EXCEPT !.wording = "other"],
          [Page({"required field"}) EXCEPT !.fields = TRUE],
          [Page({"screenshot"}) EXCEPT !.shots = {1, 2}]}

Operator ==
  [ personal |-> FALSE, social |-> FALSE, prior |-> FALSE, accountAge |-> "unknown",
    reputation |-> "unknown", adult |-> "unknown", business |-> "unknown",
    tax |-> "unknown", infrastructure |-> "unknown", history |-> "unknown",
    region |-> "unknown", systems |-> {"linux"}, hardware |-> {},
    assets |-> {"btc"}, methods |-> {"paypal"} ]
MCProfiles ==
  {Operator, [Operator EXCEPT !.personal = TRUE, !.social = TRUE, !.prior = TRUE,
                              !.region = "us", !.hardware = {"gpu"},
                              !.assets = {"btc", "eth"}]}

MCClaims ==
  [amount : {0, 10}, tolerance : {0, 2}, payer : {"p1", "anyone"}, asset : {"usd"},
   overdue : BOOLEAN]
MCReceipts ==
  [amount : {0, 4, 6, 9, 10}, payer : {"p1", "p2", "unnamed"}, asset : {"usd", "btc"}]

MCReviews ==
  [ books : [spent : {0, 4}, payments : {0, 1}, budget : {5}, failed : {0, 1}, rejected : {0, 1},
             evidence : {0, 1}, emails : {0, 1}],
    outcome : [revenue : {0, 6}, unrealized : {0}, fees : {0}, success : BOOLEAN,
               stopped : {FALSE}, flags : {{}, {"payout"}}] ]
=============================================================================
