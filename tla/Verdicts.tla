------------------------------ MODULE Verdicts ------------------------------
(***************************************************************************)
(* The skills decide alike: each check that fails appends its name to a    *)
(* list of one kind (blocked, review, missing), and the first kind whose   *)
(* list is not empty names the verdict.                                    *)
(***************************************************************************)
EXTENDS Integers

\* The names of the checks that fired.
Fired(checks) == {name \in DOMAIN checks : checks[name]}

Clear(checks) == Fired(checks) = {}

\* The bounds on a score.
AtLeast(bound, value) == IF value < bound THEN bound ELSE value
AtMost(bound, value) == IF value > bound THEN bound ELSE value
=============================================================================
