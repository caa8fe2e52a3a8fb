\* Two processes make four calls; they may all have died or be done.
SPECIFICATION Spec
CONSTANTS
  Callers = {c1, c2}
  Downloads <- MCDownloads
  Deadlines <- MCDeadlines
  Torn = Torn
  MaxItems = 3
  MaxIds = 4
INVARIANTS
  PromotionIsBacked ConflictsSurface
SYMMETRY Alike
CHECK_DEADLOCK FALSE
