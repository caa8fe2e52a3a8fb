---------------------------- MODULE MissionGates ----------------------------
(***************************************************************************)
(* What a mission promises: it passes its gates one after the other, and   *)
(* it drafts, quotes and pays only when it has passed every one of them.   *)
(* How a gate comes to its verdict is not said here.                       *)
(***************************************************************************)
EXTENDS Naturals

CONSTANTS
  Missions,
  GateCount,   \* how many gates a mission has
  Acts         \* what a mission may do to the world outside

VARIABLES
  passed,      \* how many gates each mission has passed
  done,        \* what each mission has done
  over         \* the missions that have ended

gateVars == <<passed, done, over>>

Init ==
  /\ passed = [m \in Missions |-> 0]
  /\ done = [m \in Missions |-> {}]
  /\ over = {}

PassGate(m) ==
  /\ m \notin over
  /\ passed[m] < GateCount
  /\ passed' = [passed EXCEPT ![m] = @ + 1]
  /\ UNCHANGED <<done, over>>

Act(m) ==
  /\ m \notin over
  /\ passed[m] = GateCount
  /\ \E act \in Acts : done' = [done EXCEPT ![m] = @ \cup {act}]
  /\ UNCHANGED passed
  /\ over' \in {over, over \cup {m}}

End(m) ==
  /\ m \notin over
  /\ over' = over \cup {m}
  /\ UNCHANGED <<passed, done>>

Next == \E m \in Missions : PassGate(m) \/ Act(m) \/ End(m)

Spec == Init /\ [][Next]_gateVars
=============================================================================
