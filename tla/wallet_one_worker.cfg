\* One worker thread, crashes, lost ledger writes and lost answers, keys tied to one spend request each.
SPECIFICATION Spec
CONSTANTS
  s1 = s1  s2 = s2  k1 = k1  k2 = k2  k3 = k3
  None = None
  Threads = {t1}
  Spends = {s1, s2}
  Keys = {k1, k2, k3}
  Requests <- RetriedRequests
  Reasons <- MCReasons
  SpendEnabled = TRUE
  MaxSingle = 2  MaxDaily = 3  MaxWeekly = 3
  WindowDays = 2
  MaxDay = 2
  MaxBroadcasts = 2
  Overlap = FALSE
  Faults = {"crash", "ledger", "ambiguous"}
CHECK_DEADLOCK FALSE
INVARIANTS
  TypeOK AtMostOneBroadcast RecordsAreTrue RecordedWithinLimits
  AnnouncedBeforePaid EveryStatusLogged SentAnswerIsTrue
PROPERTIES
  RefinesLifecycle
