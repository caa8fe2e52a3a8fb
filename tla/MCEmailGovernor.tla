---------------------------- MODULE MCEmailGovernor ----------------------------
(***************************************************************************)
(* The requests of the model-checking runs of EmailGovernor.               *)
(***************************************************************************)
EXTENDS EmailGovernor, TLC

Symmetry == Permutations(Callers)

Mail(key, draft, thread, date, allowed) ==
  [key |-> key, draft |-> draft, thread |-> thread, sender |-> "bot", date |-> date,
   allowed |-> allowed]

\* A first mail and a follow-up on the next day; another mail to the same domain.
FollowUp == { Mail("k1", "d1", "t1", 0, TRUE), Mail("k2", "d1", "t1", 1, TRUE) }
MailRequests == FollowUp \cup { Mail("k3", "d2", "t2", 1, TRUE) }

OptOutReplies == { [thread |-> "t1", optOut |-> TRUE] }

MCDomainOf == [d \in {"d1", "d2"} |-> "a.org"]
=============================================================================
