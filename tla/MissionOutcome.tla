--------------------------- MODULE MissionOutcome ---------------------------
(***************************************************************************)
(* The skills that look back at an experiment: the revenue reconciler, the *)
(* payout follow-up planner, the experiment reviewer and the queue planner *)
(* that uses what was learnt.  Pure functions; amounts are whole dollars.  *)
(***************************************************************************)
EXTENDS Integers, Sequences, FiniteSetsExt, Verdicts

(***************************************************************************)
(* The revenue reconciler.  A receipt has an amount, an asset and a payer, *)
(* which is "unnamed" when the observation names none; a claim expects an  *)
(* amount of an asset from a payer, or from "anyone".                      *)
(***************************************************************************)
Counted(claim, receipts) ==
  {i \in DOMAIN receipts :
     /\ receipts[i].asset = claim.asset
     /\ claim.payer # "anyone" => receipts[i].payer \in {"unnamed", claim.payer}}

TotalOf(receipts, which) == MapThenSumSet(LAMBDA i : receipts[i].amount, which)

Exact(claim, receipts) ==
  {i \in Counted(claim, receipts) :
     /\ receipts[i].amount <= claim.amount + claim.tolerance
     /\ receipts[i].amount >= claim.amount - claim.tolerance}

\* Mutant: several receipts without an exact one are a partial payment.
Reconcile_SeveralArePartial(claim, receipts) ==
  LET counted == Counted(claim, receipts)
      exact == Cardinality(Exact(claim, receipts))
      total == TotalOf(receipts, counted)
  IN  CASE exact > 1 -> "ambiguous_needs_review"
        [] exact = 1 -> "matched"
        [] exact = 0 /\ total > 0 ->
             IF Cardinality(counted) > 1 THEN "partial"
             ELSE IF total < claim.amount THEN "underpaid" ELSE "ambiguous_needs_review"
        [] exact = 0 /\ total = 0 -> IF claim.overdue THEN "late" ELSE "missing"

\* One exact receipt is the payment, whatever else arrived; the underpaid and
\* overpaid branches below it in the code are out of reach.
Reconcile(claim, receipts) ==
  LET counted == Counted(claim, receipts)
      exact == Cardinality(Exact(claim, receipts))
      total == TotalOf(receipts, counted)
  IN  CASE exact > 1 -> "ambiguous_needs_review"
        [] exact = 1 -> "matched"
        [] exact = 0 /\ total > 0 ->
             IF total >= claim.amount THEN "ambiguous_needs_review"
             ELSE IF Cardinality(counted) = 1 THEN "underpaid" ELSE "partial"
        [] exact = 0 /\ total = 0 -> IF claim.overdue THEN "late" ELSE "missing"

\* What the snapshot of the reconciliation says next to its status.
ReconcileAdvice(status) ==
  [followup |-> status \notin {"matched", "overpaid_needs_review"},
   flags |-> IF status = "matched" THEN {} ELSE {"payout"}]

(***************************************************************************)
(* The payout follow-up planner, on the status of a reconciliation.        *)
(***************************************************************************)
Followup(status, case) ==
  IF case.ambiguous \/ case.tier = "high" THEN "human_review"
  ELSE IF ~case.evidence THEN "gather_missing_proof"
  ELSE IF status \in {"late", "missing"} /\ case.days <= case.grace THEN "wait"
  ELSE IF status \in {"underpaid", "late", "partial"} THEN "draft_followup"
  ELSE "stop_and_record_loss"

(***************************************************************************)
(* The experiment reviewer.  books are the rows it finds in the ledger for *)
(* the experiment: what the payments cost with their fees, how many there  *)
(* were, the spends that failed or were rejected, and the evidence rows;   *)
(* outcome is what its caller reports.                                     *)
(***************************************************************************)
MajorStopFlags == {"legal_red_flag", "tos_violation", "policy_violation"}
HumanReviewFlags == {"complaint", "payment_dispute", "privacy_issue"}

Net(books, outcome) == outcome.revenue + outcome.unrealized - books.spent - outcome.fees
BudgetExceeded(books) == books.spent > books.budget
EvidenceQuality(books) ==
  IF books.evidence = 0 THEN "poor"
  ELSE IF books.spent = 0 \/ books.payments > 0 THEN "good" ELSE "acceptable"

\* Mutant: only the second failure counts as a repetition.
ReviewFlags_ExactlyTwo(books, outcome) ==
  outcome.flags
    \cup Fired([ failed_wallet_spend |-> books.failed > 0,
                 rejected_wallet_spend |-> books.rejected > 0,
                 missing_evidence |-> books.evidence = 0,
                 no_response_outcome |-> books.emails = 0 /\ outcome.revenue = 0,
                 repeated_failures |-> books.failed + books.rejected = 2 ])

ReviewFlags(books, outcome) ==
  outcome.flags
    \cup Fired([ failed_wallet_spend |-> books.failed > 0,
                 rejected_wallet_spend |-> books.rejected > 0,
                 missing_evidence |-> books.evidence = 0,
                 no_response_outcome |-> books.emails = 0 /\ outcome.revenue = 0,
                 repeated_failures |-> books.failed + books.rejected >= 2 ])

\* The first rule that applies decides.
ReviewDecision(books, outcome) ==
  LET flags == ReviewFlags(books, outcome)
      active == books.spent > 0 \/ outcome.revenue > 0
  IN  IF flags \cap MajorStopFlags # {} THEN "stop"
      ELSE IF "repeated_failures" \in flags THEN "block_category"
      ELSE IF EvidenceQuality(books) = "poor" /\ active THEN "human_review"
      ELSE IF flags \cap HumanReviewFlags # {} THEN "human_review"
      ELSE IF outcome.stopped /\ ~outcome.success THEN "stop"
      ELSE IF BudgetExceeded(books) THEN "human_review"
      ELSE IF Net(books, outcome) > 0 \/ outcome.success THEN "continue"
      ELSE IF books.spent <= 5 THEN "retry_with_changes" ELSE "human_review"

(***************************************************************************)
(* The queue planner.  Items are put in order of their revenue and, with   *)
(* the same revenue, of their deadline, where a deadline of 0 days counts  *)
(* as none; that order is kept among the items of one priority.  Each item *)
(* is compared with the whole budget: reservations do not add up.          *)
(***************************************************************************)
Priority(item, load) ==
  IF item.reviewBlocked \/ load.active >= load.maximum \/ item.reservation > load.budget
  THEN "defer"
  ELSE IF item.failures >= 2 THEN "low"
  ELSE IF item.deadline \in 0 .. 1 /\ item.revenue > 0 THEN "critical"
  ELSE IF item.revenue > 0 /\ item.risk <= 25 THEN "high" ELSE "medium"

PriorityOrder == [critical |-> 0, high |-> 1, medium |-> 2, low |-> 3, defer |-> 4]
NoDeadline == 999

\* a is worked on before b.
QueuedBefore(a, b, load) ==
  LET place(item) == PriorityOrder[Priority(item, load)]
      days(item) == IF item.deadline = 0 THEN NoDeadline ELSE item.deadline
  IN  \/ place(a) < place(b)
      \/ place(a) = place(b) /\ a.revenue > b.revenue
      \/ place(a) = place(b) /\ a.revenue = b.revenue /\ days(a) < days(b)
=============================================================================
