----------------------------- MODULE MCLedgerChain -----------------------------
(***************************************************************************)
(* The records of the model-checking runs of LedgerChain.                  *)
(***************************************************************************)
EXTENDS LedgerChain

Make(kind, id, key) == [kind |-> kind, id |-> id, key |-> key]

\* Two audit events that share a key, two rows that share a key, and an update.
MCRecords ==
  { Make("audit", "a1", "ka"), Make("audit", "a2", "ka"),
    Make("row", "r1", "kr"), Make("row", "r2", "kr"), Make("update", "r1", "ku") }

\* A mission's opportunity and the result of its duplicate check.
MissionRecords == { Make("audit", "duplicate", "kd"), Make("row", "opportunity", "ko") }
=============================================================================
