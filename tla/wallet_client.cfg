\* Two callers that may try again while an attempt still runs, two worker threads, restarts and lost
\* answers; a fresh spend request id for each attempt.
SPECIFICATION ClientSpec
CONSTANTS
  s1 = s1  s2 = s2  s3 = s3  k1 = k1  k2 = k2
  None = None
  Nobody = Nobody
  Clients = {c1, c2}
  Threads = {t1, t2}
  Spends = {s1, s2, s3}
  Keys = {k1, k2}
  Requests <- Attempts
  Reasons <- MCReasons
  PreflightDefects <- MCPreflightDefects
  AmountOf <- MCAmountOf
  MaxAttempts = 2
  SpendEnabled = TRUE
  MaxSingle = 2  MaxDaily = 3  MaxWeekly = 3
  WindowDays = 2
  MaxDay = 1
  MaxBroadcasts = 2
  Overlap = TRUE
  Faults = {"crash", "ledger", "ambiguous"}
SYMMETRY Alike
CHECK_DEADLOCK FALSE
INVARIANTS
  AttemptsPayOnce ReportsAreTrue
