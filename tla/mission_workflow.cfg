\* Two missions beside each other over twenty-three requests; a mission ends, so the
\* system may stop.
SPECIFICATION Spec
CONSTANTS
  EnabledActions <- MCEnabledActions
  ConfigBlocked = {}
  ConfigReview = {}
  PlanBlocked = {}
  PlanReview = {}
  MaxSingleSpend <- MCMaxSingleSpend
  Missions = {m1, m2}
  MissionRequests <- MCMissionRequests
  Fees = {0, 1}
  NoRequest = NoRequest
INVARIANTS
  SpendIsAuthorized RerunHasNoEffect
PROPERTIES
  ImplementsGates
CHECK_DEADLOCK FALSE
