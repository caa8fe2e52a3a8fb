\* Two workers, two spend requests, a daily limit that covers one of them.
SPECIFICATION Spec
CONSTANTS
  s1 = s1  s2 = s2  k1 = k1  k2 = k2  k3 = k3
  None = None
  Threads = {t1, t2}
  Spends = {s1, s2}
  Keys = {k1, k2}
  Requests <- TwoPayments
  Reasons <- MCReasons
  SpendEnabled = TRUE
  MaxSingle = 2  MaxDaily = 3  MaxWeekly = 9
  WindowDays = 2
  MaxDay = 0
  MaxBroadcasts = 2
  Overlap = FALSE
  Faults = {}
CHECK_DEADLOCK FALSE
INVARIANT PaidWithinDailyLimit
