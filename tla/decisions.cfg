\* Requests, plans, profiles and experiments of which up to two facts change, and
\* a rules page that is rewritten once.
SPECIFICATION Spec
CONSTANTS
  EnabledActions <- MCEnabledActions
  ConfigBlocked <- MCConfigBlocked
  ConfigReview <- MCConfigReview
  PlanBlocked <- MCPlanBlocked
  PlanReview <- MCConfigReview
  MaxSingleSpend <- MCMaxSingleSpend
  Requests <- MCRequests
  Budgets <- MCBudgets
  Parties <- MCParties
  Pages <- MCPages
  Profiles <- MCProfiles
  Claims <- MCClaims
  Receipts <- MCReceipts
  Reviews <- MCReviews
  Categories <- MCCategories
  MaxChanges <- MCMaxChanges
INVARIANTS
  PaidInFullIsNotDunned
PROPERTIES
  PolicyNeverSoftens PlanNeverSoftens UnknownFactsFailClosed BadNewsNeverRevives
  StaleApprovalsAreRechecked
