\* Two worker threads on different spend requests, a wallet that refuses and
\* fails to lock, no crash: what must hold between restarts.
SPECIFICATION FairSpec
CONSTANTS
  s1 = s1  s2 = s2  k1 = k1  k2 = k2  k3 = k3
  None = None
  Threads = {t1, t2}
  Spends = {s1, s2}
  Keys = {k1, k2}
  Requests <- MixedRequests
  Reasons <- MCReasons
  SpendEnabled = TRUE
  MaxSingle = 2  MaxDaily = 4  MaxWeekly = 4
  WindowDays = 2
  MaxDay = 0
  MaxBroadcasts = 2
  Overlap = FALSE
  Faults = {"wallet"}
CHECK_DEADLOCK FALSE
INVARIANTS
  RefusedIsUnpaid UnlockedIsGuarded KeyPaysOnce
PROPERTIES
  AnswersAreStable SendingSettles
