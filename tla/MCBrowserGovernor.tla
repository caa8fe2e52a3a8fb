--------------------------- MODULE MCBrowserGovernor ---------------------------
(***************************************************************************)
(* The requests of the model-checking runs of BrowserGovernor.             *)
(***************************************************************************)
EXTENDS BrowserGovernor, TLC

Symmetry == Permutations(Callers)

Ask(op, body, allowed) ==
  [op |-> op, action |-> "a1", body |-> body, allowed |-> allowed]

\* One action: prepared, completed and executed, and executed with a request
\* that is refused.
OneAction ==
  { Ask("prepare", "b1", TRUE), Ask("complete", "b1", TRUE),
    Ask("execute", "b1", TRUE), Ask("execute", "b2", FALSE) }

\* Execution by the backend is switched on and off.
WithAndWithoutBackend == {Operations, {"prepare", "complete"}}
=============================================================================
