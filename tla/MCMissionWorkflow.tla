------------------------- MODULE MCMissionWorkflow -------------------------
EXTENDS MissionWorkflow

\* The operator has switched email off as an action of its own.
MCEnabledActions == ActionTypes \ {"email"}
MCMaxSingleSpend == 5

MCProfile ==
  [ personal |-> FALSE, social |-> FALSE, prior |-> TRUE, accountAge |-> "unknown",
    reputation |-> "yes", adult |-> "yes", business |-> "unknown", tax |-> "unknown",
    infrastructure |-> "yes", history |-> "yes", region |-> "united states",
    systems |-> {"linux"}, hardware |-> {}, assets |-> {"btc"}, methods |-> {"paypal"} ]

(***************************************************************************)
(* The source documents: one that costs 2 and may bring 9, one that costs  *)
(* nothing, and variants of the first that each stop at another gate.      *)
(***************************************************************************)
DocumentWith(phrases, amounts) ==
  [ page |-> [Page(Reading(phrases)) EXCEPT !.amounts = amounts],
    source |-> "s1", category |-> "bounty", rulesUrl |-> TRUE, fits |-> TRUE, url |-> "u1",
    title |-> "Board", rules |-> "r1", text |-> "t1", method |-> {}, deadline |-> TRUE,
    mentions |-> [name |-> {}, category |-> {}] ]

Gig == DocumentWith({"spend"}, <<2, 9>>)
FreeGig == [DocumentWith({}, <<9>>) EXCEPT !.source = "s2", !.url = "u2", !.title = "Free",
                                           !.rules = "none", !.rulesUrl = FALSE, !.text = "t2"]
Variant(phrases) == DocumentWith({"spend"} \cup phrases, <<2, 9>>)
Named(name, category) ==
  [Gig EXCEPT !.mentions = [name |-> name, category |-> category]]
Repost == [Gig EXCEPT !.source = "s3", !.url = "u3", !.title = "Board 2", !.rules = "none",
                      !.rulesUrl = FALSE, !.fits = FALSE]
\* Said better under the URL of the first document.
Retold == [Gig EXCEPT !.source = "s4", !.page.amounts = <<1, 50>>, !.deadline = FALSE]

Plain ==
  [ documents |-> <<Gig>>, profile |-> MCProfile, payment |-> TRUE, recipient |-> FALSE,
    payee |-> "Payee", balance |-> 5, remaining |-> 5, riskGate |-> TRUE, enforce |-> TRUE,
    observed |-> 0, handedIn |-> [fields |-> <<>>, artifacts |-> <<>>] ]
On(documents) == [Plain EXCEPT !.documents = documents]
Screened(state) == [On(<<Variant({"screenshot"})>>) EXCEPT
                      !.handedIn.artifacts = [screenshot |-> state]]

MCMissionRequests ==
  { Plain,
    [Plain EXCEPT !.payment = FALSE, !.recipient = TRUE],
    [Plain EXCEPT !.recipient = TRUE, !.enforce = FALSE, !.observed = 9],
    [Plain EXCEPT !.balance = 1],
    On(<<FreeGig>>), [On(<<FreeGig>>) EXCEPT !.recipient = TRUE],
    On(<<Repost, Gig>>), On(<<Repost>>), On(<<Variant({"suspicious"}), Retold>>),
    On(<<Named({"private key"}, {})>>), On(<<Named({}, {"sendall"})>>),
    On(<<Variant({"gambling"})>>),
    On(<<Variant({"llc"})>>), On(<<Variant({"tax form"})>>),
    On(<<Variant({"personal account"})>>),
    On(<<Variant({"affiliate"})>>), On(<<Variant({"no bots"})>>),
    On(<<Variant({"suspicious"})>>),
    [On(<<Variant({"suspicious"})>>) EXCEPT !.riskGate = FALSE],
    On(<<Variant({"submit at"})>>),
    Screened("missing"), Screened("unlinked"), Screened("linked") }
=============================================================================
