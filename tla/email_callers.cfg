\* Two callers, a lost call, two days, an opt-out.
SPECIFICATION Spec
CONSTANTS
  None = None
  Callers = {c1, c2}
  Requests <- MailRequests
  Replies <- OptOutReplies
  Drafts = {"d1", "d2"}
  Domains = {"a.org", "b.org"}
  Threads = {"t1", "t2"}
  Senders = {"bot"}
  Keys = {"k1", "k2", "k3"}
  DomainOf <- MCDomainOf
  MaxPerDay = 2
  MaxPerDomain = 2
  MaxFollowups = 1
  MaxDay = 1
  MaxMails = 5
  MaxAudits = 3
  MaxStamps = 4
  MaxAborts = 1
SYMMETRY Symmetry
CHECK_DEADLOCK FALSE
INVARIANTS
  TypeOK LimitsHold OptOutIsHonoured RepeatSendsOnce ReportedMailsLeft
