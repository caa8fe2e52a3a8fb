------------------------ MODULE BrowserGovernorProofs ------------------------
(***************************************************************************)
(* The browser governor for any number of callers, actions and requests:   *)
(* types, that a completion is always about a prepare that was approved    *)
(* before it, how often the backend acts for an action, and how many       *)
(* events decide the calls for an action.                                  *)
(***************************************************************************)
EXTENDS BrowserGovernor, FiniteSetTheorems, WellFoundedInduction, TLAPS

\* Stamps are given in the order of the clock.
StampsGiven ==
  /\ \A e \in audits : e.at <= clock
  /\ \A c \in Callers : stamp[c] <= clock

Approved(action, at) ==
  \E p \in audits : p.kind = "prepare" /\ p.status = "done" /\ p.action = action /\ p.at = at

\* A completion under way has its prepare, with an earlier stamp than its own.
Completing == \A c \in Callers :
  /\ pc[c] \in {"validate", "run"} => work[c].op # "complete"
  /\ pc[c] \in {"archive", "write"} /\ work[c].op = "complete" =>
       Approved(work[c].action, found[c])
  /\ pc[c] = "write" /\ work[c].op = "complete" => found[c] < stamp[c]

BrowserInv == TypeOK /\ StampsGiven /\ Completing /\ CompletionHasPrepare

-----------------------------------------------------------------------------
(* The first matching event.                                                 *)

LEMMA Earliest ==
  ASSUME NEW S \in SUBSET Nat, S # {}
  PROVE  \E m \in S : \A n \in S : m <= n
<1>1. PICK m \in S : \A n \in S : ~ (<<n, m>> \in OpToRel(<, Nat))
  BY NatLessThanWellFounded, WFMin, Zenon
<1>2. ASSUME NEW n \in S PROVE ~(n < m)
  BY <1>1, Zenon DEF OpToRel
<1>3. ASSUME NEW n \in S PROVE m <= n
  BY <1>2
<1>4. QED
  BY <1>3

LEMMA FirstMatches ==
  ASSUME TypeOK, NEW op, NEW action, Exists(op, action)
  PROVE  /\ First(op, action) \in Matching(op, action) /\ First(op, action) \in audits
         /\ \A f \in Matching(op, action) : First(op, action).at <= f.at
<1>1. Matching(op, action) \subseteq audits /\ Matching(op, action) # {}
  BY DEF Matching, Exists
<1> DEFINE S == {e.at : e \in Matching(op, action)}
<1>2. S \in SUBSET Nat /\ S # {}
  BY <1>1, LimitsAssumption DEF TypeOK, Events, Stamps
<1>3. PICK m \in S : \A n \in S : m <= n
  BY <1>2, Earliest
<1>4. \E e \in Matching(op, action) : \A f \in Matching(op, action) : e.at <= f.at
  BY <1>3
<1>5. /\ First(op, action) \in Matching(op, action)
      /\ \A f \in Matching(op, action) : First(op, action).at <= f.at
  BY <1>4, Zenon DEF First
<1>6. QED
  BY <1>1, <1>5

-----------------------------------------------------------------------------
LEMMA InitBrowserInv == Init => BrowserInv
<1> SUFFICES ASSUME Init PROVE BrowserInv
  OBVIOUS
<1>1. TypeOK
  <2>1. 0 \in Stamps /\ 0 \in 0 .. MaxRuns /\ 0 \in 0 .. MaxAborts
    BY LimitsAssumption DEF Stamps
  <2>2. /\ runs \in [Requests -> 0 .. MaxRuns] /\ archived \in [Requests -> Nat]
        /\ answers \in [Tasks -> SUBSET Stamps]
        /\ found \in [Callers -> Stamps] /\ stamp \in [Callers -> Stamps]
    BY <2>1 DEF Init
  <2>3. QED
    BY <2>1, <2>2 DEF Init, TypeOK, Steps
<1>2. QED
  BY <1>1 DEF Init, BrowserInv, StampsGiven, Completing, CompletionHasPrepare

\* What a step of a caller gives.
LEMMA NextTypeOK == TypeOK /\ [Next]_vars => TypeOK'
<1> SUFFICES ASSUME TypeOK, [Next]_vars PROVE TypeOK'
  OBVIOUS
<1> USE LimitsAssumption, RequestsAssumption DEF TypeOK, Stamps, Steps, world, callers, Goto
<1>1. CASE UNCHANGED vars
  BY <1>1 DEF vars
<1>2. CASE RecordsArrive \/ Reconfigure
  BY <1>2 DEF RecordsArrive, Reconfigure
<1>3. ASSUME NEW c \in Callers, NEW r \in Requests, Replay(c, r) PROVE TypeOK'
  <2>1. First(r.op, r.action) \in Events
    BY <1>3, FirstMatches DEF Replay, Answers
  <2>2. First(r.op, r.action).at \in Stamps
    BY <2>1 DEF Events
  <2>3. answers' \in [Tasks -> SUBSET Stamps]
    BY <1>3, <2>2 DEF Replay, Decides
  <2>4. QED
    BY <1>3, <2>3 DEF Replay
<1>4. ASSUME NEW c \in Callers, NEW r \in Requests, Start(c, r) PROVE TypeOK'
  BY <1>4 DEF Start, Begin, FirstStep
<1>5. ASSUME NEW c \in Callers, NEW r \in Requests, Conflict(c, r) \/ Refuse(c, r)
      PROVE  TypeOK'
  <2>1. answers' \in [Tasks -> SUBSET Stamps]
    <3>1. CASE Conflict(c, r)
      <4>1. First(r.op, r.action) \in Events
        BY <3>1, FirstMatches DEF Conflict
      <4>2. First(r.op, r.action).at \in Stamps
        BY <4>1 DEF Events
      <4>3. QED
        BY <3>1, <4>2 DEF Conflict, Decides
    <3>2. QED
      BY <1>5, <3>1 DEF Refuse
  <2>2. \E step \in {"conflict", "reject"} : BeginRejection(c, r, step)
    BY <1>5 DEF Conflict, Refuse
  <2>3. QED
    BY <2>1, <2>2 DEF BeginRejection, Begin
<1>6. ASSUME NEW c \in Callers, Validate(c) PROVE TypeOK'
  BY <1>6 DEF Validate, Stamped
<1>7. ASSUME NEW c \in Callers, FindPrepare(c) PROVE TypeOK'
  <2>1. Exists("prepare", work[c].action) => First("prepare", work[c].action).at \in Stamps
    BY FirstMatches DEF Events
  <2>2. QED
    BY <1>7, <2>1 DEF FindPrepare, Stamped
<1>8. ASSUME NEW c \in Callers, RunFails(c) \/ Run(c) PROVE TypeOK'
  <2>1. work[c] \in Requests /\ runs' \in [Requests -> 0 .. MaxRuns]
    BY <1>8 DEF RunFails, Run, Runs
  <2>2. CASE RunFails(c)
    BY <2>1, <2>2 DEF RunFails, Runs, Stamped
  <2>3. CASE Run(c)
    BY <2>1, <2>3 DEF Run, Runs
  <2>4. QED
    BY <1>8, <2>2, <2>3
<1>9. ASSUME NEW c \in Callers, Archive(c) PROVE TypeOK'
  BY <1>9 DEF Archive, Stamped
<1>10. ASSUME NEW c \in Callers, WriteDone(c) PROVE TypeOK'
  <2>1. work[c] \in Requests /\ stamp[c] \in Stamps /\ found[c] \in Stamps
    BY <1>10 DEF WriteDone
  <2>2. audits' \subseteq Events
    BY <1>10, <2>1 DEF WriteDone, Events
  <2>3. answers' \in [Tasks -> SUBSET Stamps]
    BY <1>10, <2>1 DEF WriteDone, Decides
  <2>4. QED
    BY <1>10, <2>2, <2>3 DEF WriteDone, Return
<1>11. ASSUME NEW c \in Callers, WriteRejection(c) PROVE TypeOK'
  <2>1. work[c] \in Requests /\ stamp[c] \in Stamps
    BY <1>11 DEF WriteRejection
  <2>2. audits' \subseteq Events
    BY <1>11, <2>1 DEF WriteRejection, Events, Operations
  <2>3. answers' \in [Tasks -> SUBSET Stamps]
    BY <1>11, <2>1 DEF WriteRejection, Decides
  <2>4. QED
    BY <1>11, <2>2, <2>3 DEF WriteRejection, Return
<1>12. ASSUME NEW c \in Callers, Abort(c) PROVE TypeOK'
  BY <1>12 DEF Abort, Return
<1>13. QED
  BY <1>1, <1>2, <1>3, <1>4, <1>5, <1>6, <1>7, <1>8, <1>9, <1>10, <1>11, <1>12 DEF Next

LEMMA NextBrowserInv == BrowserInv /\ [Next]_vars => BrowserInv'
<1> SUFFICES ASSUME BrowserInv, [Next]_vars PROVE BrowserInv'
  OBVIOUS
<1>1. TypeOK /\ TypeOK'
  BY NextTypeOK DEF BrowserInv
<1>2. /\ clock \in Nat
      /\ \A c \in Callers : stamp[c] \in Nat /\ found[c] \in Nat
      /\ \A e \in audits : e.at \in Nat /\ e.prepared \in Nat
  BY <1>1, LimitsAssumption DEF TypeOK, Events, Stamps
<1>3. ASSUME UNCHANGED audits, clock' \in {clock, clock + 1},
             \A c \in Callers : stamp'[c] \in {stamp[c], 0, clock'},
             \A c \in Callers :
               /\ pc'[c] \in {"validate", "run"} =>
                    \/ pc[c] \in {"validate", "run"} /\ work'[c] = work[c]
                    \/ work'[c].op # "complete"
               /\ pc'[c] \in {"archive", "write"} /\ work'[c].op = "complete" =>
                    \/ /\ pc[c] \in {"archive", "write"}
                       /\ work'[c] = work[c] /\ found'[c] = found[c]
                    \/ Approved(work'[c].action, found'[c])
               /\ pc'[c] = "write" /\ work'[c].op = "complete" =>
                    \/ pc[c] = "write" /\ work'[c] = work[c] /\ found'[c] = found[c] /\ stamp'[c] = stamp[c]
                    \/ found'[c] < stamp'[c]
      PROVE  BrowserInv'
  <2>1. StampsGiven'
    BY <1>2, <1>3 DEF BrowserInv, StampsGiven
  <2>2. Completing'
    BY <1>3 DEF BrowserInv, Completing, Approved
  <2>3. CompletionHasPrepare'
    BY <1>3 DEF BrowserInv, CompletionHasPrepare
  <2>4. QED
    BY <1>1, <2>1, <2>2, <2>3 DEF BrowserInv
<1> USE DEF world, callers, Goto
<1>4. CASE UNCHANGED vars
  BY <1>3, <1>4 DEF vars
<1>5. CASE RecordsArrive \/ Reconfigure
  BY <1>3, <1>5 DEF RecordsArrive, Reconfigure
<1>6. ASSUME NEW c \in Callers, NEW r \in Requests, Replay(c, r) PROVE BrowserInv'
  BY <1>3, <1>6 DEF Replay
<1>7. ASSUME NEW c \in Callers, NEW r \in Requests, Start(c, r) \/ Conflict(c, r) \/ Refuse(c, r)
      PROVE  BrowserInv'
  BY <1>1, <1>3, <1>7 DEF Start, Conflict, Refuse, BeginRejection, Begin, FirstStep, TypeOK
<1>8. ASSUME NEW c \in Callers, Validate(c) PROVE BrowserInv'
  <2>1. work[c].op # "complete"
    BY <1>8 DEF Validate, BrowserInv, Completing
  <2>2. QED
    BY <1>1, <1>3, <1>8, <2>1 DEF Validate, Stamped, TypeOK
<1>9. ASSUME NEW c \in Callers, FindPrepare(c) PROVE BrowserInv'
  <2>1. Exists("prepare", work[c].action) => Approved(work[c].action, First("prepare", work[c].action).at)
    BY <1>1, FirstMatches DEF Matching, Approved
  <2>2. QED
    BY <1>1, <1>3, <1>9, <2>1 DEF FindPrepare, Stamped, TypeOK
<1>10. ASSUME NEW c \in Callers, RunFails(c) \/ Run(c) PROVE BrowserInv'
  <2>1. work[c].op # "complete"
    BY <1>10 DEF RunFails, Run, Runs, BrowserInv, Completing
  <2>2. QED
    BY <1>1, <1>3, <1>10, <2>1 DEF RunFails, Run, Runs, Stamped, TypeOK
<1>11. ASSUME NEW c \in Callers, Archive(c) PROVE BrowserInv'
  <2>1. work[c].op = "complete" => found[c] < clock + 1
    BY <1>2, <1>11 DEF Archive, BrowserInv, Completing, Approved, StampsGiven
  <2>2. QED
    BY <1>1, <1>3, <1>11, <2>1 DEF Archive, Stamped, TypeOK
<1>12. ASSUME NEW c \in Callers, Abort(c) PROVE BrowserInv'
  BY <1>1, <1>3, <1>12 DEF Abort, Return, TypeOK
<1>13. ASSUME NEW c \in Callers, NEW e \in Events,
              audits' = audits \cup {e}, e.at = stamp[c], UNCHANGED clock, Return(c),
              e.kind = "complete" => Approved(e.action, e.prepared) /\ e.prepared < e.at
       PROVE  BrowserInv'
  <2>1. /\ pc'[c] = "idle" /\ stamp'[c] = 0
        /\ \A d \in Callers \ {c} :
             pc'[d] = pc[d] /\ work'[d] = work[d] /\ found'[d] = found[d] /\ stamp'[d] = stamp[d]
    BY <1>1, <1>13 DEF Return, TypeOK
  <2>2. StampsGiven'
    BY <1>2, <1>13, <2>1 DEF BrowserInv, StampsGiven
  <2>3. Completing'
    BY <1>13, <2>1 DEF BrowserInv, Completing, Approved
  <2>4. CompletionHasPrepare'
    BY <1>13 DEF BrowserInv, CompletionHasPrepare, Approved
  <2>5. QED
    BY <1>1, <2>2, <2>3, <2>4 DEF BrowserInv
<1>14. ASSUME NEW c \in Callers, WriteDone(c) PROVE BrowserInv'
  <2> DEFINE e == [kind |-> work[c].op, status |-> "done", action |-> work[c].action,
                   print |-> work[c], at |-> stamp[c], prepared |-> found[c]]
  <2>1. e \in Events /\ audits' = audits \cup {e}
    BY <1>1, <1>14, RequestsAssumption DEF WriteDone, TypeOK, Events
  <2>2. e.kind = "complete" => Approved(e.action, e.prepared) /\ e.prepared < e.at
    BY <1>14 DEF WriteDone, BrowserInv, Completing
  <2>3. e.at = stamp[c] /\ UNCHANGED clock /\ Return(c)
    BY <1>14 DEF WriteDone
  <2> HIDE DEF e
  <2>4. QED
    BY <1>13, <2>1, <2>2, <2>3
<1>15. ASSUME NEW c \in Callers, WriteRejection(c) PROVE BrowserInv'
  <2> DEFINE e == [kind |-> IF work[c].op = "execute" THEN "execute" ELSE "prepare",
                   status |-> "rejected", action |-> work[c].action,
                   print |-> None, at |-> stamp[c], prepared |-> 0]
  <2>1. work[c] \in Requests /\ stamp[c] \in Stamps /\ 0 \in Stamps
    BY <1>1, <1>15, LimitsAssumption DEF WriteRejection, TypeOK, Stamps
  <2>2. e \in Events /\ audits' = audits \cup {e}
    BY <1>15, <2>1, RequestsAssumption DEF WriteRejection, Events, Operations
  <2>3. e.kind # "complete" /\ e.at = stamp[c] /\ UNCHANGED clock /\ Return(c)
    BY <1>15 DEF WriteRejection
  <2> HIDE DEF e
  <2>4. QED
    BY <1>13, <2>2, <2>3
<1>16. QED
  BY <1>4, <1>5, <1>6, <1>7, <1>8, <1>9, <1>10, <1>11, <1>12, <1>14, <1>15 DEF Next

-----------------------------------------------------------------------------
\* The types of the state, for every number of callers and requests.
THEOREM BrowserTypeCorrect == Spec => []TypeOK
<1>1. BrowserInv => TypeOK
  BY DEF BrowserInv
<1>2. QED
  BY <1>1, InitBrowserInv, NextBrowserInv, PTL DEF Spec

\* A completion is recorded only with a prepare of the same action that was approved and
\* stamped before it, although completions, refusals and further prepares of other
\* callers come in between: complete_action reads the prepare event before it archives.
THEOREM CompletionsArePrepared == Spec => []CompletionHasPrepare
<1>1. BrowserInv => CompletionHasPrepare
  BY DEF BrowserInv
<1>2. QED
  BY <1>1, InitBrowserInv, NextBrowserInv, PTL DEF Spec

-----------------------------------------------------------------------------
(* The count of backend calls and of answers.  A lookup and the event it     *)
(* looks for are steps apart, so what bounds them are the callers on their   *)
(* way: none starts once the event is there, and those that had started are  *)
(* counted, with the ones that were lost.                                    *)

At(R, steps) == {c \in Callers : pc[c] \in steps /\ work[c] \in R}
EventsOf(r) == {e \in audits : e.print = r}
Executions(a) == {r \in Requests : r.op = "execute" /\ r.action = a}
Asking(t) == {r \in Requests : Task(r) = t}

MayRun   == {"validate", "run"}
HaveRun  == {"archive", "write", "reject"}
MayDecide == {"validate", "prepared", "run", "archive", "write", "reject"}

Earlier(t, at) == \E f \in Matching(t[1], t[2]) : f.at < at

\* An event that calls find has decided one, or comes after another they find: only
\* conflicts are found without having decided anything.
EventsAreAnswers == \A t \in Tasks : \A e \in Matching(t[1], t[2]) :
  e.at \in answers[t] \/ Earlier(t, e.at)

ConflictsFollow == \A c \in Callers : pc[c] = "conflict" => Earlier(Task(work[c]), stamp[c])

AnswersAreFound == \A t \in Tasks : answers[t] # {} => Exists(t[1], t[2])

AnswersHaveRoom == \A t \in Tasks :
  Cardinality(answers[t]) + Cardinality(At(Asking(t), MayDecide)) <= Cardinality(Callers)

EvidenceLeft == \A r \in Requests :
  /\ Cardinality(EventsOf(r)) + Cardinality(At({r}, {"write"})) <= archived[r]
  /\ r.op = "execute" => archived[r] + Cardinality(At({r}, {"archive"})) <= runs[r]

\* Until an execution has its event, what ran has its caller, or its caller was lost.
RunsHaveCallers == \A a \in ActionIds : ~Exists("execute", a) =>
  Cardinality(BackendCalls(a)) <= Cardinality(At(Executions(a), HaveRun)) + aborts

RunsHaveRoom == \A a \in ActionIds :
  Cardinality(BackendCalls(a)) + Cardinality(At(Executions(a), MayRun))
    <= Cardinality(Callers) + aborts

StepsFitOperations == \A c \in Callers :
  /\ pc[c] = "prepared" => work[c].op = "complete"
  /\ pc[c] = "run" => work[c].op = "execute"

\* The log and the answers are finite.
EventsFinite == IsFiniteSet(audits) /\ \A t \in Tasks : IsFiniteSet(answers[t])

CountInv ==
  /\ EventsFinite /\ StepsFitOperations
  /\ EventsAreAnswers /\ ConflictsFollow /\ AnswersAreFound /\ AnswersHaveRoom
  /\ EvidenceLeft /\ RunsHaveCallers /\ RunsHaveRoom

LEMMA Finite ==
  ASSUME TypeOK, NEW R, NEW S
  PROVE  /\ IsFiniteSet(At(R, S)) /\ Cardinality(At(R, S)) \in Nat
         /\ Cardinality(At(R, S)) <= Cardinality(Callers)
         /\ Cardinality(Callers) \in Nat
<1>1. At(R, S) \in SUBSET Callers /\ IsFiniteSet(Callers)
  BY LimitsAssumption DEF At
<1>2. IsFiniteSet(At(R, S)) /\ Cardinality(At(R, S)) <= Cardinality(Callers)
  BY <1>1, FS_Subset
<1>3. QED
  BY <1>1, <1>2, FS_CardinalityType

LEMMA CallersShare ==
  ASSUME TypeOK, NEW R, NEW S, NEW T, S \cap T = {}, NEW c \in Callers, pc[c] \notin S \cup T
  PROVE  Cardinality(At(R, S)) + Cardinality(At(R, T)) + 1 <= Cardinality(Callers)
<1> DEFINE A == At(R, S)  B == At(R, T)
<1>1. /\ IsFiniteSet(A) /\ IsFiniteSet(B) /\ IsFiniteSet(Callers)
      /\ Cardinality(A) \in Nat /\ Cardinality(B) \in Nat /\ Cardinality(Callers) \in Nat
  BY Finite, LimitsAssumption
<1>2. A \cap B = {} /\ c \notin A \cup B /\ (A \cup B) \cup {c} \in SUBSET Callers
  BY DEF At
<1>3. /\ Cardinality(A \cup B) = Cardinality(A) + Cardinality(B) - Cardinality(A \cap B)
      /\ IsFiniteSet(A \cup B)
  BY <1>1, FS_Union
<1>4. Cardinality(A \cap B) = 0
  BY <1>2, FS_EmptySet
<1>5. Cardinality((A \cup B) \cup {c}) = Cardinality(A \cup B) + 1
  BY <1>2, <1>3, FS_AddElement
<1>6. Cardinality((A \cup B) \cup {c}) <= Cardinality(Callers)
  BY <1>1, <1>2, FS_Subset
<1>7. QED
  BY <1>1, <1>3, <1>4, <1>5, <1>6

Here(c, R, S) == pc[c] \in S /\ work[c] \in R

OnlyMoves(c) == \A d \in Callers \ {c} : pc'[d] = pc[d] /\ work'[d] = work[d]

\* A step of one caller changes the count by that caller.
LEMMA Moves ==
  ASSUME TypeOK, NEW c \in Callers, OnlyMoves(c), NEW R, NEW S
  PROVE  /\ Cardinality(At(R, S)) \in Nat /\ Cardinality(At(R, S))' \in Nat
         /\ (Here(c, R, S) <=> Here(c, R, S)') =>
              Cardinality(At(R, S))' = Cardinality(At(R, S))
         /\ Here(c, R, S) /\ ~Here(c, R, S)' =>
              Cardinality(At(R, S))' = Cardinality(At(R, S)) - 1
         /\ ~Here(c, R, S) /\ Here(c, R, S)' =>
              Cardinality(At(R, S))' = Cardinality(At(R, S)) + 1
<1> DEFINE A == At(R, S)
<1>1. IsFiniteSet(A)
  BY Finite
<1>2. Cardinality(At(R, S)) \in Nat /\ Cardinality(At(R, S))' \in Nat
  <2>1. At(R, S)' \in SUBSET Callers
    BY DEF At
  <2>2. IsFiniteSet(At(R, S)')
    BY <2>1, LimitsAssumption, FS_Subset
  <2>3. QED
    BY <2>2, Finite, FS_CardinalityType
<1>3. CASE Here(c, R, S) <=> Here(c, R, S)'
  <2>1. At(R, S)' = A
    BY <1>3 DEF At, Here, OnlyMoves
  <2>2. QED
    BY <2>1, <1>2, <1>3
<1>4. CASE Here(c, R, S) /\ ~Here(c, R, S)'
  <2>1. c \in A /\ At(R, S)' = A \ {c}
    BY <1>4 DEF At, Here, OnlyMoves
  <2>2. Cardinality(A \ {c}) = Cardinality(A) - 1
    BY <2>1, <1>1, FS_RemoveElement
  <2>3. QED
    BY <1>2, <1>4, <2>1, <2>2
<1>5. CASE ~Here(c, R, S) /\ Here(c, R, S)'
  <2>1. c \notin A /\ At(R, S)' = A \cup {c}
    BY <1>5 DEF At, Here, OnlyMoves
  <2>2. Cardinality(A \cup {c}) = Cardinality(A) + 1
    BY <2>1, <1>1, FS_AddElement
  <2>3. QED
    BY <1>2, <1>5, <2>1, <2>2
<1>6. QED
  BY <1>3, <1>4, <1>5

LEMMA CallsFinite ==
  ASSUME TypeOK, NEW a
  PROVE  IsFiniteSet(BackendCalls(a)) /\ Cardinality(BackendCalls(a)) \in Nat
<1>1. IsFiniteSet(1 .. MaxRuns) /\ IsFiniteSet(Requests)
  BY LimitsAssumption, FS_Interval
<1>2. IsFiniteSet(Requests \X (1 .. MaxRuns))
  BY <1>1, FS_Product
<1>3. BackendCalls(a) \in SUBSET (Requests \X (1 .. MaxRuns))
  BY DEF BackendCalls
<1>4. IsFiniteSet(BackendCalls(a))
  BY <1>2, <1>3, FS_Subset
<1>5. QED
  BY <1>4, FS_CardinalityType

\* One more call is one more of its action.
LEMMA OneMoreCall ==
  ASSUME TypeOK, NEW r \in Requests, runs[r] < MaxRuns,
         runs' = [runs EXCEPT ![r] = @ + 1], NEW a
  PROVE  IF r \in Executions(a)
           THEN Cardinality(BackendCalls(a))' = Cardinality(BackendCalls(a)) + 1
           ELSE Cardinality(BackendCalls(a))' = Cardinality(BackendCalls(a))
<1> DEFINE n == runs[r] + 1
<1>1. /\ runs[r] \in Nat /\ n \in 1 .. MaxRuns /\ runs'[r] = n
      /\ \A q \in Requests : runs[q] \in Nat /\ (q # r => runs'[q] = runs[q])
  BY LimitsAssumption DEF TypeOK
<1>2. CASE r \in Executions(a)
  <2>1. BackendCalls(a)' = BackendCalls(a) \cup {<<r, n>>}
    BY <1>1, <1>2 DEF BackendCalls, Executions
  <2>2. <<r, n>> \notin BackendCalls(a)
    BY <1>1 DEF BackendCalls
  <2>3. Cardinality(BackendCalls(a) \cup {<<r, n>>}) = Cardinality(BackendCalls(a)) + 1
    BY <2>2, CallsFinite, FS_AddElement
  <2>4. QED
    BY <1>2, <2>1, <2>3
<1>3. CASE r \notin Executions(a)
  <2>1. BackendCalls(a)' = BackendCalls(a)
    BY <1>1, <1>3 DEF BackendCalls, Executions
  <2>2. QED
    BY <1>3, <2>1
<1>4. QED
  BY <1>2, <1>3

\* The first event that calls find has decided a call.
LEMMA FirstDecides ==
  ASSUME TypeOK, CountInv, NEW r \in Requests, Exists(r.op, r.action)
  PROVE  Task(r) \in Tasks /\ First(r.op, r.action).at \in answers[Task(r)]
<1>1. Task(r) \in Tasks /\ Task(r)[1] = r.op /\ Task(r)[2] = r.action
  BY RequestsAssumption DEF Task, Tasks
<1>2. PICK e : e = First(r.op, r.action)
  OBVIOUS
<1>3. e \in Matching(r.op, r.action) /\ \A f \in Matching(r.op, r.action) : e.at <= f.at
  BY <1>2, FirstMatches
<1>4. ~Earlier(Task(r), e.at)
  <2>1. \A f \in Matching(r.op, r.action) : f.at \in Nat
    BY LimitsAssumption DEF Matching, TypeOK, Events, Stamps
  <2>2. QED
    BY <1>1, <1>3, <2>1 DEF Earlier
<1>5. QED
  BY <1>1, <1>2, <1>3, <1>4 DEF CountInv, EventsAreAnswers

LEMMA InitCountInv == Init => CountInv
<1> SUFFICES ASSUME Init PROVE CountInv
  OBVIOUS
<1>1. Cardinality({}) = 0 /\ IsFiniteSet({}) /\ Cardinality(Callers) \in Nat
  BY LimitsAssumption, FS_EmptySet, FS_CardinalityType
<1>2. ASSUME NEW R, NEW S, "idle" \notin S PROVE Cardinality(At(R, S)) = 0
  <2>1. At(R, S) = {}
    BY <1>2 DEF Init, At
  <2>2. QED
    BY <1>1, <2>1
<1>3. AnswersHaveRoom
  <2>1. \A t \in Tasks : answers[t] = {} /\ Cardinality(At(Asking(t), MayDecide)) = 0
    BY <1>2 DEF Init, MayDecide
  <2>2. QED
    BY <1>1, <2>1 DEF AnswersHaveRoom
<1>4. EvidenceLeft
  <2>1. ASSUME NEW r \in Requests
        PROVE  /\ Cardinality(EventsOf(r)) = 0 /\ Cardinality(At({r}, {"write"})) = 0
               /\ Cardinality(At({r}, {"archive"})) = 0 /\ archived[r] = 0 /\ runs[r] = 0
    <3>1. EventsOf(r) = {}
      BY DEF Init, EventsOf
    <3>2. QED
      BY <1>1, <1>2, <3>1 DEF Init
  <2>2. QED
    BY <2>1 DEF EvidenceLeft
<1>5. ASSUME NEW a PROVE Cardinality(BackendCalls(a)) = 0
  <2>1. BackendCalls(a) = {}
    BY LimitsAssumption DEF Init, BackendCalls
  <2>2. QED
    BY <1>1, <2>1
<1>6. RunsHaveCallers
  <2>1. \A a : Cardinality(At(Executions(a), HaveRun)) = 0
    BY <1>2 DEF HaveRun
  <2>2. QED
    BY <1>5, <2>1 DEF Init, RunsHaveCallers
<1>7. RunsHaveRoom
  <2>1. \A a : Cardinality(At(Executions(a), MayRun)) = 0
    BY <1>2 DEF MayRun
  <2>2. QED
    BY <1>1, <1>5, <2>1 DEF Init, RunsHaveRoom
<1>8. /\ StepsFitOperations /\ EventsAreAnswers /\ ConflictsFollow
      /\ AnswersAreFound /\ EventsFinite
  BY <1>1 DEF Init, StepsFitOperations, EventsAreAnswers, ConflictsFollow, AnswersAreFound,
              EventsFinite, Matching
<1>9. QED
  BY <1>3, <1>4, <1>6, <1>7, <1>8 DEF CountInv

\* Steps that write nothing, run nothing and archive nothing: a caller starts or goes
\* from check to check, or its call is lost.
LEMMA QuietSteps ==
  ASSUME TypeOK, CountInv, NEW c \in Callers, OnlyMoves(c),
         UNCHANGED <<audits, answers, archived, runs>>,
         aborts' \in {aborts, aborts + 1}, aborts \in Nat,
         pc[c] \in HaveRun => aborts' = aborts + 1,
         pc'[c] \in {"validate", "prepared"} =>
           pc[c] = "idle" /\ ~Exists(work'[c].op, work'[c].action),
         pc'[c] = "prepared" => work'[c].op = "complete",
         pc'[c] = "run" => pc[c] = "validate" /\ work'[c] = work[c] /\ work[c].op = "execute",
         pc'[c] = "archive" =>
           pc[c] \in {"validate", "prepared"} /\ work'[c] = work[c] /\ work[c].op # "execute",
         pc'[c] # "write",
         pc'[c] = "reject" =>
           \/ pc[c] \in {"validate", "prepared"} /\ work'[c] = work[c]
           \/ pc[c] = "idle" /\ ~Exists(work'[c].op, work'[c].action),
         pc'[c] = "conflict" => Earlier(Task(work'[c]), stamp'[c]),
         \A d \in Callers \ {c} : stamp'[d] = stamp[d]
  PROVE  CountInv'
<1> USE DEF CountInv
<1>1. /\ \A op, action : Exists(op, action)' <=> Exists(op, action)
      /\ \A r : EventsOf(r)' = EventsOf(r)
      /\ \A a : BackendCalls(a)' = BackendCalls(a)
      /\ \A op, action : Matching(op, action)' = Matching(op, action)
  BY DEF Exists, Matching, EventsOf, BackendCalls
<1>2. Cardinality(Callers) \in Nat /\ aborts' \in Nat
  BY LimitsAssumption, FS_CardinalityType
<1>3. EventsFinite' /\ EventsAreAnswers' /\ AnswersAreFound' /\ ConflictsFollow'
  BY <1>1 DEF EventsFinite, EventsAreAnswers, ConflictsFollow, AnswersAreFound, Earlier, OnlyMoves
<1>4. StepsFitOperations'
  BY DEF StepsFitOperations, OnlyMoves
<1>5. AnswersHaveRoom'
  <2>1. ASSUME NEW t \in Tasks
        PROVE  Cardinality(answers[t]) + Cardinality(At(Asking(t), MayDecide))' <= Cardinality(Callers)
    <3>1. Cardinality(answers[t]) + Cardinality(At(Asking(t), MayDecide)) <= Cardinality(Callers)
      BY DEF AnswersHaveRoom
    <3>2. /\ Cardinality(answers[t]) \in Nat /\ Cardinality(At(Asking(t), MayDecide)) \in Nat
          /\ Cardinality(At(Asking(t), MayDecide))' \in Nat
      BY Moves, FS_CardinalityType DEF EventsFinite
    <3>3. CASE Here(c, Asking(t), MayDecide)' => Here(c, Asking(t), MayDecide)
      BY <1>2, <3>1, <3>2, <3>3, Moves
    <3>4. CASE Here(c, Asking(t), MayDecide)' /\ ~Here(c, Asking(t), MayDecide)
      <4>1. pc'[c] \in MayDecide /\ Task(work'[c]) = t
        BY <3>4 DEF Here, Asking
      <4>2. pc[c] = "idle" /\ ~Exists(t[1], t[2])
        BY <3>4, <4>1 DEF Here, MayDecide, Task
      <4>3. answers[t] = {}
        BY <4>2 DEF AnswersAreFound
      <4>4. Cardinality(answers[t]) = 0
        BY <4>3, FS_EmptySet
      <4>5. /\ Cardinality(At(Asking(t), MayDecide)) + Cardinality(At(Asking(t), {})) + 1
                 <= Cardinality(Callers)
            /\ Cardinality(At(Asking(t), {})) \in Nat
        BY <4>2, CallersShare, Finite DEF MayDecide
      <4>6. QED
        BY <1>2, <3>2, <3>4, <4>4, <4>5, Moves
    <3>5. QED
      BY <3>3, <3>4
  <2>2. QED
    BY <2>1 DEF AnswersHaveRoom
<1>6. EvidenceLeft'
  <2>1. ASSUME NEW r \in Requests
        PROVE  /\ Cardinality(EventsOf(r)) + Cardinality(At({r}, {"write"}))' <= archived[r]
               /\ r.op = "execute" => archived[r] + Cardinality(At({r}, {"archive"}))' <= runs[r]
    <3>1. /\ Cardinality(EventsOf(r)) + Cardinality(At({r}, {"write"})) <= archived[r]
          /\ r.op = "execute" => archived[r] + Cardinality(At({r}, {"archive"})) <= runs[r]
      BY DEF EvidenceLeft
    <3>2. IsFiniteSet(EventsOf(r))
      <4>1. EventsOf(r) \in SUBSET audits
        BY DEF EventsOf
      <4>2. QED
        BY <4>1, FS_Subset DEF EventsFinite
    <3>3. /\ Cardinality(EventsOf(r)) \in Nat /\ archived[r] \in Nat /\ runs[r] \in Nat
          /\ Cardinality(At({r}, {"write"})) \in Nat /\ Cardinality(At({r}, {"write"}))' \in Nat
          /\ Cardinality(At({r}, {"archive"})) \in Nat /\ Cardinality(At({r}, {"archive"}))' \in Nat
      BY <3>2, LimitsAssumption, Moves, FS_CardinalityType DEF TypeOK
    <3>4. ~Here(c, {r}, {"write"})' /\ (r.op = "execute" => ~Here(c, {r}, {"archive"})')
      BY DEF Here
    <3>5. /\ Cardinality(At({r}, {"write"}))' <= Cardinality(At({r}, {"write"}))
          /\ r.op = "execute" =>
               Cardinality(At({r}, {"archive"}))' <= Cardinality(At({r}, {"archive"}))
      BY <3>3, <3>4, Moves
    <3>6. QED
      BY <3>1, <3>3, <3>5
  <2>2. QED
    BY <1>1, <2>1 DEF EvidenceLeft
<1>7. RunsHaveCallers'
  <2>1. ASSUME NEW a \in ActionIds, ~Exists("execute", a)
        PROVE  Cardinality(BackendCalls(a)) <= Cardinality(At(Executions(a), HaveRun))' + aborts'
    <3>1. Cardinality(BackendCalls(a)) <= Cardinality(At(Executions(a), HaveRun)) + aborts
      BY <2>1 DEF RunsHaveCallers
    <3>2. /\ Cardinality(At(Executions(a), HaveRun)) \in Nat
          /\ Cardinality(At(Executions(a), HaveRun))' \in Nat
          /\ Cardinality(BackendCalls(a)) \in Nat
      BY Moves, CallsFinite
    <3>3. CASE Here(c, Executions(a), HaveRun) /\ ~Here(c, Executions(a), HaveRun)'
      <4>1. aborts' = aborts + 1
        BY <3>3 DEF Here
      <4>2. QED
        BY <3>1, <3>2, <3>3, <4>1, Moves
    <3>4. CASE ~(Here(c, Executions(a), HaveRun) /\ ~Here(c, Executions(a), HaveRun)')
      <4>1. Cardinality(At(Executions(a), HaveRun)) <= Cardinality(At(Executions(a), HaveRun))'
        BY <3>2, <3>4, Moves
      <4>2. QED
        BY <1>2, <3>1, <3>2, <4>1
    <3>5. QED
      BY <3>3, <3>4
  <2>2. QED
    BY <1>1, <2>1 DEF RunsHaveCallers
<1>8. RunsHaveRoom'
  <2>1. ASSUME NEW a \in ActionIds
        PROVE  Cardinality(BackendCalls(a)) + Cardinality(At(Executions(a), MayRun))'
                 <= Cardinality(Callers) + aborts'
    <3>1. Cardinality(BackendCalls(a)) + Cardinality(At(Executions(a), MayRun))
            <= Cardinality(Callers) + aborts
      BY DEF RunsHaveRoom
    <3>2. /\ Cardinality(At(Executions(a), MayRun)) \in Nat
          /\ Cardinality(At(Executions(a), MayRun))' \in Nat
          /\ Cardinality(At(Executions(a), HaveRun)) \in Nat
          /\ Cardinality(BackendCalls(a)) \in Nat
      BY Moves, CallsFinite
    <3>3. CASE Here(c, Executions(a), MayRun)' => Here(c, Executions(a), MayRun)
      <4>1. Cardinality(At(Executions(a), MayRun))' <= Cardinality(At(Executions(a), MayRun))
        BY <3>2, <3>3, Moves
      <4>2. QED
        BY <1>2, <3>1, <3>2, <4>1
    <3>4. CASE Here(c, Executions(a), MayRun)' /\ ~Here(c, Executions(a), MayRun)
      <4>1. pc'[c] = "validate" /\ pc[c] = "idle" /\ ~Exists("execute", a)
        BY <3>4 DEF Here, MayRun, Executions
      <4>2. Cardinality(BackendCalls(a)) <= Cardinality(At(Executions(a), HaveRun)) + aborts
        BY <4>1 DEF RunsHaveCallers
      <4>3. Cardinality(At(Executions(a), MayRun)) + Cardinality(At(Executions(a), HaveRun)) + 1
              <= Cardinality(Callers)
        BY <4>1, CallersShare DEF MayRun, HaveRun
      <4>4. Cardinality(At(Executions(a), MayRun))' = Cardinality(At(Executions(a), MayRun)) + 1
        BY <3>4, Moves
      <4>5. QED
        BY <1>2, <3>2, <4>2, <4>3, <4>4
    <3>5. QED
      BY <3>3, <3>4
  <2>2. QED
    BY <1>1, <2>1 DEF RunsHaveRoom
<1>9. QED
  BY <1>3, <1>4, <1>5, <1>6, <1>7, <1>8

\* The backend is called: a caller that may run becomes one that has.
LEMMA RunSteps ==
  ASSUME TypeOK, CountInv, NEW c \in Callers, RunFails(c) \/ Run(c)
  PROVE  CountInv'
<1> USE DEF CountInv
<1>1. PICK r \in Requests : r = work[c]
  BY DEF TypeOK, RunFails, Run, Runs
<1>2. /\ OnlyMoves(c) /\ UNCHANGED <<audits, answers, archived, aborts, work>>
      /\ pc[c] = "run" /\ pc'[c] \in {"archive", "reject"} /\ r = work[c] /\ r.op = "execute"
      /\ runs[r] < MaxRuns /\ runs' = [runs EXCEPT ![r] = @ + 1]
  BY <1>1 DEF RunFails, Run, Runs, Stamped, Goto, OnlyMoves, TypeOK, StepsFitOperations
<1>3. /\ \A op, action : Exists(op, action)' <=> Exists(op, action)
      /\ \A op, action : Matching(op, action)' = Matching(op, action)
      /\ \A q : EventsOf(q)' = EventsOf(q)
      /\ \A d \in Callers \ {c} : stamp'[d] = stamp[d]
  BY <1>2 DEF Exists, Matching, EventsOf, RunFails, Run, Stamped, TypeOK
<1>4. Cardinality(Callers) \in Nat /\ aborts \in Nat
  BY LimitsAssumption, FS_CardinalityType DEF TypeOK
<1>5. /\ EventsFinite' /\ EventsAreAnswers' /\ AnswersAreFound' /\ StepsFitOperations'
      /\ ConflictsFollow'
  BY <1>2, <1>3 DEF EventsFinite, EventsAreAnswers, AnswersAreFound, StepsFitOperations,
                    ConflictsFollow, Earlier, OnlyMoves
<1>6. AnswersHaveRoom'
  <2>1. ASSUME NEW t \in Tasks
        PROVE  Cardinality(answers[t]) + Cardinality(At(Asking(t), MayDecide))' <= Cardinality(Callers)
    <3>1. Cardinality(answers[t]) + Cardinality(At(Asking(t), MayDecide)) <= Cardinality(Callers)
      BY DEF AnswersHaveRoom
    <3>2. /\ Cardinality(answers[t]) \in Nat /\ Cardinality(At(Asking(t), MayDecide)) \in Nat
          /\ Cardinality(At(Asking(t), MayDecide))' \in Nat
      BY <1>2, Moves, FS_CardinalityType DEF EventsFinite
    <3>3. Here(c, Asking(t), MayDecide)' => Here(c, Asking(t), MayDecide)
      BY <1>2 DEF Here, MayDecide
    <3>4. QED
      BY <1>2, <1>4, <3>1, <3>2, <3>3, Moves
  <2>2. QED
    BY <1>2, <2>1 DEF AnswersHaveRoom
<1>7. EvidenceLeft'
  <2>1. ASSUME NEW q \in Requests
        PROVE  /\ Cardinality(EventsOf(q)) + Cardinality(At({q}, {"write"}))' <= archived[q]
               /\ q.op = "execute" => archived[q] + Cardinality(At({q}, {"archive"}))' <= runs'[q]
    <3>1. /\ Cardinality(EventsOf(q)) + Cardinality(At({q}, {"write"})) <= archived[q]
          /\ q.op = "execute" => archived[q] + Cardinality(At({q}, {"archive"})) <= runs[q]
      BY DEF EvidenceLeft
    <3>2. /\ archived[q] \in Nat /\ runs[q] \in Nat
          /\ Cardinality(At({q}, {"archive"})) \in Nat /\ Cardinality(At({q}, {"archive"}))' \in Nat
      BY <1>2, LimitsAssumption, Moves DEF TypeOK
    <3>3. Cardinality(At({q}, {"write"}))' = Cardinality(At({q}, {"write"}))
      <4>1. ~Here(c, {q}, {"write"}) /\ ~Here(c, {q}, {"write"})'
        BY <1>2 DEF Here
      <4>2. QED
        BY <1>2, <4>1, Moves
    <3>4. CASE q = r
      <4>1. runs'[q] = runs[q] + 1
        BY <1>2, <3>4 DEF TypeOK
      <4>2. ~Here(c, {q}, {"archive"})
        BY <1>2 DEF Here
      <4>3. Cardinality(At({q}, {"archive"}))' <= Cardinality(At({q}, {"archive"})) + 1
        BY <1>2, <3>2, <4>2, Moves
      <4>4. QED
        BY <3>1, <3>2, <3>3, <4>1, <4>3
    <3>5. CASE q # r
      <4>1. runs'[q] = runs[q]
        BY <1>2, <3>5 DEF TypeOK
      <4>2. ~Here(c, {q}, {"archive"}) /\ ~Here(c, {q}, {"archive"})'
        BY <1>2, <3>5 DEF Here
      <4>3. Cardinality(At({q}, {"archive"}))' = Cardinality(At({q}, {"archive"}))
        BY <1>2, <4>2, Moves
      <4>4. QED
        BY <3>1, <3>3, <4>1, <4>3
    <3>6. QED
      BY <3>4, <3>5
  <2>2. QED
    BY <1>2, <1>3, <2>1 DEF EvidenceLeft
<1>8. ASSUME NEW a \in ActionIds
      PROVE  /\ Cardinality(BackendCalls(a))' + Cardinality(At(Executions(a), MayRun))'
                  <= Cardinality(Callers) + aborts
             /\ ~Exists("execute", a) => Cardinality(BackendCalls(a))'
                  <= Cardinality(At(Executions(a), HaveRun))' + aborts
  <2> DEFINE E == Executions(a)
  <2>1. /\ Cardinality(BackendCalls(a)) + Cardinality(At(E, MayRun)) <= Cardinality(Callers) + aborts
        /\ ~Exists("execute", a) =>
             Cardinality(BackendCalls(a)) <= Cardinality(At(E, HaveRun)) + aborts
    BY DEF RunsHaveRoom, RunsHaveCallers
  <2>2. /\ Cardinality(BackendCalls(a)) \in Nat
        /\ Cardinality(At(E, MayRun)) \in Nat /\ Cardinality(At(E, MayRun))' \in Nat
        /\ Cardinality(At(E, HaveRun)) \in Nat /\ Cardinality(At(E, HaveRun))' \in Nat
    BY <1>2, Moves, CallsFinite
  <2>3. /\ Here(c, E, MayRun) <=> r \in E
        /\ ~Here(c, E, MayRun)' /\ ~Here(c, E, HaveRun)
        /\ Here(c, E, HaveRun)' <=> r \in E
    BY <1>2 DEF Here, MayRun, HaveRun
  <2>4. CASE r \in E
    <3>1. /\ Cardinality(BackendCalls(a))' = Cardinality(BackendCalls(a)) + 1
      BY <1>2, <2>4, OneMoreCall
    <3>2. /\ Cardinality(At(E, MayRun))' = Cardinality(At(E, MayRun)) - 1
          /\ Cardinality(At(E, HaveRun))' = Cardinality(At(E, HaveRun)) + 1
      BY <1>2, <2>3, <2>4, Moves
    <3>3. QED
      BY <1>4, <2>1, <2>2, <3>1, <3>2
  <2>5. CASE r \notin E
    <3>1. Cardinality(BackendCalls(a))' = Cardinality(BackendCalls(a))
      BY <1>2, <2>5, OneMoreCall
    <3>2. /\ Cardinality(At(E, MayRun))' = Cardinality(At(E, MayRun))
          /\ Cardinality(At(E, HaveRun))' = Cardinality(At(E, HaveRun))
      BY <1>2, <2>3, <2>5, Moves
    <3>3. QED
      BY <2>1, <3>1, <3>2
  <2>6. QED
    BY <2>4, <2>5
<1>9. RunsHaveCallers' /\ RunsHaveRoom'
  BY <1>2, <1>3, <1>8 DEF RunsHaveCallers, RunsHaveRoom
<1>10. QED
  BY <1>5, <1>6, <1>7, <1>9

\* The evidence is archived, and the event stamped.
LEMMA ArchiveSteps ==
  ASSUME TypeOK, CountInv, NEW c \in Callers, Archive(c)
  PROVE  CountInv'
<1> USE DEF CountInv
<1>1. PICK r \in Requests : r = work[c]
  BY DEF TypeOK, Archive
<1>2. /\ OnlyMoves(c) /\ UNCHANGED <<audits, answers, runs, aborts, work>>
      /\ pc[c] = "archive" /\ pc'[c] = "write" /\ r = work[c]
      /\ archived' = [archived EXCEPT ![r] = @ + 1]
  BY <1>1 DEF Archive, Stamped, Goto, OnlyMoves, TypeOK
<1>3. /\ \A op, action : Exists(op, action)' <=> Exists(op, action)
      /\ \A op, action : Matching(op, action)' = Matching(op, action)
      /\ \A q : EventsOf(q)' = EventsOf(q)
      /\ \A a : BackendCalls(a)' = BackendCalls(a)
      /\ \A d \in Callers \ {c} : stamp'[d] = stamp[d]
  BY <1>2 DEF Exists, Matching, EventsOf, BackendCalls, Archive, Stamped, TypeOK
<1>4. ASSUME NEW R, NEW S, {"archive", "write"} \subseteq S \/ S \cap {"archive", "write"} = {}
      PROVE  At(R, S)' = At(R, S)
  BY <1>2, <1>4 DEF At, OnlyMoves
<1>5. /\ EventsFinite' /\ EventsAreAnswers' /\ AnswersAreFound' /\ StepsFitOperations'
      /\ ConflictsFollow'
  BY <1>2, <1>3 DEF EventsFinite, EventsAreAnswers, AnswersAreFound, StepsFitOperations,
                    ConflictsFollow, Earlier, OnlyMoves
<1>6. AnswersHaveRoom'
  <2>1. \A t : At(Asking(t), MayDecide)' = At(Asking(t), MayDecide)
    BY <1>4 DEF MayDecide
  <2>2. QED
    BY <1>2, <2>1 DEF AnswersHaveRoom
<1>7. EvidenceLeft'
  <2>1. ASSUME NEW q \in Requests
        PROVE  /\ Cardinality(EventsOf(q)) + Cardinality(At({q}, {"write"}))' <= archived'[q]
               /\ q.op = "execute" =>
                    archived'[q] + Cardinality(At({q}, {"archive"}))' <= runs[q]
    <3>1. /\ Cardinality(EventsOf(q)) + Cardinality(At({q}, {"write"})) <= archived[q]
          /\ q.op = "execute" => archived[q] + Cardinality(At({q}, {"archive"})) <= runs[q]
      BY DEF EvidenceLeft
    <3>2. IsFiniteSet(EventsOf(q))
      <4>1. EventsOf(q) \in SUBSET audits
        BY DEF EventsOf
      <4>2. QED
        BY <4>1, FS_Subset DEF EventsFinite
    <3>3. /\ Cardinality(EventsOf(q)) \in Nat /\ archived[q] \in Nat /\ runs[q] \in Nat
          /\ Cardinality(At({q}, {"write"})) \in Nat /\ Cardinality(At({q}, {"write"}))' \in Nat
          /\ Cardinality(At({q}, {"archive"})) \in Nat /\ Cardinality(At({q}, {"archive"}))' \in Nat
      BY <1>2, <3>2, LimitsAssumption, Moves, FS_CardinalityType DEF TypeOK
    <3>4. CASE q = r
      <4>1. archived'[q] = archived[q] + 1
        BY <1>2, <3>4 DEF TypeOK
      <4>2. /\ ~Here(c, {q}, {"write"}) /\ Here(c, {q}, {"write"})'
            /\ Here(c, {q}, {"archive"}) /\ ~Here(c, {q}, {"archive"})'
        BY <1>2, <3>4 DEF Here
      <4>3. /\ Cardinality(At({q}, {"write"}))' = Cardinality(At({q}, {"write"})) + 1
            /\ Cardinality(At({q}, {"archive"}))' = Cardinality(At({q}, {"archive"})) - 1
        BY <1>2, <4>2, Moves
      <4>4. QED
        BY <3>1, <3>3, <4>1, <4>3
    <3>5. CASE q # r
      <4>1. archived'[q] = archived[q]
        BY <1>2, <3>5 DEF TypeOK
      <4>2. At({q}, {"write"})' = At({q}, {"write"}) /\ At({q}, {"archive"})' = At({q}, {"archive"})
        BY <1>2, <3>5 DEF At, OnlyMoves
      <4>3. QED
        BY <3>1, <4>1, <4>2
    <3>6. QED
      BY <3>4, <3>5
  <2>2. QED
    BY <1>2, <1>3, <2>1 DEF EvidenceLeft
<1>8. RunsHaveCallers' /\ RunsHaveRoom'
  <2>1. \A R : At(R, HaveRun)' = At(R, HaveRun) /\ At(R, MayRun)' = At(R, MayRun)
    BY <1>4 DEF HaveRun, MayRun
  <2>2. QED
    BY <1>2, <1>3, <2>1 DEF RunsHaveCallers, RunsHaveRoom
<1>9. QED
  BY <1>5, <1>6, <1>7, <1>8

LEMMA Grows ==
  ASSUME NEW A, NEW e, IsFiniteSet(A)
  PROVE  /\ IsFiniteSet(A \cup {e}) /\ Cardinality(A) \in Nat
         /\ Cardinality(A \cup {e}) \in Nat /\ Cardinality(A \cup {e}) <= Cardinality(A) + 1
<1>1. Cardinality(A) \in Nat
  BY FS_CardinalityType
<1>2. CASE e \in A
  <2>1. A \cup {e} = A
    BY <1>2
  <2>2. QED
    BY <1>1, <2>1
<1>3. CASE e \notin A
  <2>1. IsFiniteSet(A \cup {e}) /\ Cardinality(A \cup {e}) = Cardinality(A) + 1
    BY <1>3, FS_AddElement
  <2>2. QED
    BY <1>1, <2>1
<1>4. QED
  BY <1>2, <1>3

\* An event is written: from now on it is found, so nobody starts again.
LEMMA WriteSteps ==
  ASSUME TypeOK, CountInv, NEW c \in Callers, WriteDone(c) \/ WriteRejection(c)
  PROVE  CountInv'
<1> USE DEF CountInv
<1>1. PICK r \in Requests : r = work[c]
  BY DEF TypeOK, WriteDone, WriteRejection
<1>2. PICK e : /\ audits' = audits \cup {e} /\ e.action = r.action /\ e.at = stamp[c]
               /\ r.op = "execute" => e.kind = "execute"
               /\ \/ /\ pc[c] = "write" /\ e.print = r /\ e.status = "done" /\ e.kind = r.op
                     /\ Decides(r, e.at)
                  \/ /\ pc[c] \in {"reject", "conflict"} /\ e.print = None
                     /\ e.status = "rejected" /\ e.kind # "complete"
                     /\ e.kind = "execute" => r.op = "execute"
                     /\ IF pc[c] = "reject" /\ r.op = "execute" THEN Decides(r, e.at)
                                                              ELSE answers' = answers
  <2>1. CASE WriteDone(c)
    <3>1. PICK e : e = [kind |-> r.op, status |-> "done", action |-> r.action,
                        print |-> r, at |-> stamp[c], prepared |-> found[c]]
      OBVIOUS
    <3>2. audits' = audits \cup {e} /\ pc[c] = "write" /\ Decides(r, stamp[c])
      BY <1>1, <2>1, <3>1 DEF WriteDone
    <3>3. QED
      BY <3>1, <3>2
  <2>2. CASE WriteRejection(c)
    <3>1. PICK e : e = [kind |-> IF r.op = "execute" THEN "execute" ELSE "prepare",
                        status |-> "rejected", action |-> r.action,
                        print |-> None, at |-> stamp[c], prepared |-> 0]
      OBVIOUS
    <3>2. /\ audits' = audits \cup {e} /\ pc[c] \in {"reject", "conflict"}
          /\ IF pc[c] = "reject" /\ r.op = "execute" THEN Decides(r, stamp[c])
                                                    ELSE answers' = answers
      BY <1>1, <2>2, <3>1 DEF WriteRejection
    <3>3. e.kind = (IF r.op = "execute" THEN "execute" ELSE "prepare") /\ e.status = "rejected"
          /\ e.action = r.action /\ e.print = None /\ e.at = stamp[c]
      BY <3>1
    <3>4. QED
      BY <3>2, <3>3
  <2>3. QED
    BY <2>1, <2>2
<1>3. /\ OnlyMoves(c) /\ UNCHANGED <<archived, runs, aborts>>
      /\ pc'[c] = "idle" /\ work'[c] = None
  BY DEF WriteDone, WriteRejection, Return, OnlyMoves, TypeOK, world
<1>4. \A a : BackendCalls(a)' = BackendCalls(a)
  BY <1>3 DEF BackendCalls
<1> DEFINE deciding == pc[c] = "write" \/ (pc[c] = "reject" /\ r.op = "execute")
<1>5. /\ \A op, action : Matching(op, action) \subseteq Matching(op, action)'
      /\ \A op, action : Matching(op, action)' \subseteq Matching(op, action) \cup {e}
      /\ \A op, action : Exists(op, action) => Exists(op, action)'
      /\ r.op = "execute" => Exists("execute", r.action)'
      /\ deciding => Exists(r.op, r.action)'
  BY <1>2 DEF Exists, Matching
<1>6. /\ None \notin Requests /\ Task(r) \in Tasks
      /\ \A t \in Tasks : answers'[t] = IF deciding /\ t = Task(r) THEN answers[t] \cup {e.at}
                                                               ELSE answers[t]
  <2>1. None \notin Requests /\ Task(r) \in Tasks
    BY RequestsAssumption DEF Task, Tasks
  <2>2. CASE deciding
    BY <1>2, <2>1, <2>2 DEF Decides, TypeOK
  <2>3. CASE ~deciding
    BY <1>2, <2>1, <2>3
  <2>4. QED
    BY <2>1, <2>2, <2>3
<1>7. EventsFinite'
  <2>1. \A t \in Tasks : answers'[t] \in {answers[t], answers[t] \cup {e.at}}
    BY <1>6
  <2>2. IsFiniteSet(audits \cup {e})
    BY Grows DEF EventsFinite
  <2>3. ASSUME NEW t \in Tasks PROVE IsFiniteSet(answers'[t])
    <3>1. IsFiniteSet(answers[t]) /\ IsFiniteSet(answers[t] \cup {e.at})
      BY Grows DEF EventsFinite
    <3>2. QED
      BY <2>1, <3>1
  <2>4. QED
    BY <1>2, <2>2, <2>3 DEF EventsFinite
<1>8. EventsAreAnswers' /\ ConflictsFollow'
  <2>1. \A t, at : Earlier(t, at) => Earlier(t, at)'
    BY <1>5 DEF Earlier
  <2>2. ASSUME NEW t \in Tasks, NEW f \in Matching(t[1], t[2])'
        PROVE  f.at \in answers'[t] \/ Earlier(t, f.at)'
    <3>1. CASE f \in Matching(t[1], t[2])
      BY <1>6, <2>1, <3>1 DEF EventsAreAnswers
    <3>2. CASE f = e /\ e \notin Matching(t[1], t[2])
      <4>1. e.kind = t[1] /\ e.action = t[2] /\ (t[1] = "execute" \/ e.status = "done")
        BY <2>2, <3>2 DEF Matching
      <4>2. r.op = t[1] /\ r.action = t[2]
        BY <1>2, <4>1
      <4>3. Task(r) = t
        BY <4>2 DEF Task, Tasks
      <4>4. CASE deciding
        BY <1>6, <3>2, <4>3, <4>4
      <4>5. CASE ~deciding
        <5>1. pc[c] = "conflict"
          BY <1>2, <4>1, <4>2, <4>5
        <5>2. Earlier(t, e.at)
          BY <1>1, <1>2, <4>3, <5>1 DEF ConflictsFollow
        <5>3. QED
          BY <2>1, <3>2, <5>2
      <4>6. QED
        BY <4>4, <4>5
    <3>3. QED
      BY <1>5, <2>2, <3>1, <3>2
  <2>3. ASSUME NEW d \in Callers, pc'[d] = "conflict" PROVE Earlier(Task(work[d]), stamp[d])'
    <3>1. d # c
      BY <1>3, <2>3
    <3>2. pc'[d] = pc[d] /\ work'[d] = work[d] /\ stamp'[d] = stamp[d]
      BY <1>3, <3>1 DEF OnlyMoves, WriteDone, WriteRejection, Return, TypeOK
    <3>3. Earlier(Task(work[d]), stamp[d])
      BY <2>3, <3>2 DEF ConflictsFollow
    <3>4. QED
      BY <2>1, <3>2, <3>3 DEF Earlier, Task
  <2>4. QED
    BY <2>2, <2>3 DEF EventsAreAnswers, ConflictsFollow
<1>9. AnswersAreFound'
  <2>1. ASSUME NEW t \in Tasks, answers'[t] # {} PROVE Exists(t[1], t[2])'
    <3>1. CASE answers[t] # {}
      BY <1>5, <3>1 DEF AnswersAreFound
    <3>2. CASE deciding /\ t = Task(r)
      BY <1>5, <3>2 DEF Task
    <3>3. QED
      BY <1>6, <2>1, <3>1, <3>2
  <2>2. QED
    BY <2>1 DEF AnswersAreFound
<1>10. StepsFitOperations'
  BY <1>3 DEF StepsFitOperations, OnlyMoves
<1>11. AnswersHaveRoom'
  <2>1. ASSUME NEW t \in Tasks
        PROVE  Cardinality(answers'[t]) + Cardinality(At(Asking(t), MayDecide))' <= Cardinality(Callers)
    <3>1. Cardinality(answers[t]) + Cardinality(At(Asking(t), MayDecide)) <= Cardinality(Callers)
      BY DEF AnswersHaveRoom
    <3>2. /\ Cardinality(At(Asking(t), MayDecide)) \in Nat
          /\ Cardinality(At(Asking(t), MayDecide))' \in Nat
          /\ Cardinality(answers[t]) \in Nat /\ Cardinality(answers[t] \cup {e.at}) \in Nat
          /\ Cardinality(answers[t] \cup {e.at}) <= Cardinality(answers[t]) + 1
          /\ Cardinality(Callers) \in Nat
      BY <1>3, Moves, Finite, Grows DEF EventsFinite
    <3>3. ~Here(c, Asking(t), MayDecide)'
      BY <1>3 DEF Here, MayDecide
    <3>4. CASE deciding /\ t = Task(r)
      <4>1. answers'[t] = answers[t] \cup {e.at}
        BY <1>6, <3>4
      <4>2. Here(c, Asking(t), MayDecide)
        BY <1>1, <3>4 DEF Here, MayDecide, Asking
      <4>3. Cardinality(At(Asking(t), MayDecide))' = Cardinality(At(Asking(t), MayDecide)) - 1
        BY <1>3, <3>3, <4>2, Moves
      <4>4. QED
        BY <3>1, <3>2, <4>1, <4>3
    <3>5. CASE ~(deciding /\ t = Task(r))
      <4>1. answers'[t] = answers[t]
        BY <1>6, <3>5
      <4>2. Cardinality(At(Asking(t), MayDecide))' <= Cardinality(At(Asking(t), MayDecide))
        BY <1>3, <3>2, <3>3, Moves
      <4>3. QED
        BY <3>1, <3>2, <4>1, <4>2
    <3>6. QED
      BY <3>4, <3>5
  <2>2. QED
    BY <2>1 DEF AnswersHaveRoom
<1>12. EvidenceLeft'
  <2>1. ASSUME NEW q \in Requests
        PROVE  /\ Cardinality(EventsOf(q)') + Cardinality(At({q}, {"write"}))' <= archived[q]
               /\ q.op = "execute" => archived[q] + Cardinality(At({q}, {"archive"}))' <= runs[q]
    <3>1. /\ Cardinality(EventsOf(q)) + Cardinality(At({q}, {"write"})) <= archived[q]
          /\ q.op = "execute" => archived[q] + Cardinality(At({q}, {"archive"})) <= runs[q]
      BY DEF EvidenceLeft
    <3>2. IsFiniteSet(EventsOf(q))
      <4>1. EventsOf(q) \in SUBSET audits
        BY DEF EventsOf
      <4>2. QED
        BY <4>1, FS_Subset DEF EventsFinite
    <3>3. /\ Cardinality(EventsOf(q)) \in Nat /\ archived[q] \in Nat
          /\ Cardinality(EventsOf(q) \cup {e}) \in Nat
          /\ Cardinality(EventsOf(q) \cup {e}) <= Cardinality(EventsOf(q)) + 1
          /\ Cardinality(At({q}, {"write"})) \in Nat /\ Cardinality(At({q}, {"write"}))' \in Nat
      BY <1>3, <3>2, Moves, Grows DEF TypeOK
    <3>4. At({q}, {"archive"})' = At({q}, {"archive"})
      BY <1>2, <1>3 DEF At, OnlyMoves
    <3>5. CASE pc[c] = "write" /\ q = r
      <4>1. EventsOf(q)' = EventsOf(q) \cup {e}
        BY <1>2, <3>5 DEF EventsOf
      <4>2. Here(c, {q}, {"write"}) /\ ~Here(c, {q}, {"write"})'
        BY <1>1, <1>3, <3>5 DEF Here
      <4>3. Cardinality(At({q}, {"write"}))' = Cardinality(At({q}, {"write"})) - 1
        BY <1>3, <4>2, Moves
      <4>4. QED
        BY <3>1, <3>3, <3>4, <4>1, <4>3
    <3>6. CASE ~(pc[c] = "write" /\ q = r)
      <4>1. EventsOf(q)' = EventsOf(q)
        BY <1>2, <1>6, <3>6 DEF EventsOf
      <4>2. ~Here(c, {q}, {"write"})'
        BY <1>3 DEF Here
      <4>3. Cardinality(At({q}, {"write"}))' <= Cardinality(At({q}, {"write"}))
        BY <1>3, <3>3, <4>2, Moves
      <4>4. QED
        BY <3>1, <3>3, <3>4, <4>1, <4>3
    <3>7. QED
      BY <3>5, <3>6
  <2>2. QED
    BY <1>3, <2>1 DEF EvidenceLeft
<1>13. RunsHaveCallers'
  <2>1. ASSUME NEW a \in ActionIds, ~Exists("execute", a)'
        PROVE  At(Executions(a), HaveRun)' = At(Executions(a), HaveRun) /\ ~Exists("execute", a)
    <3>1. work[c] \notin Executions(a) /\ ~Exists("execute", a)
      BY <1>1, <1>5, <2>1 DEF Executions
    <3>2. QED
      BY <1>3, <3>1 DEF At, OnlyMoves, HaveRun
  <2>2. QED
    BY <1>3, <1>4, <2>1 DEF RunsHaveCallers
<1>14. RunsHaveRoom'
  <2>1. \A R : At(R, MayRun)' = At(R, MayRun)
    BY <1>2, <1>3 DEF At, OnlyMoves, MayRun
  <2>2. QED
    BY <1>3, <1>4, <2>1 DEF RunsHaveRoom
<1>15. QED
  BY <1>7, <1>8, <1>9, <1>10, <1>11, <1>12, <1>13, <1>14

LEMMA NextCountInv == BrowserInv /\ CountInv /\ [Next]_vars => CountInv'
<1> SUFFICES ASSUME BrowserInv, CountInv, [Next]_vars PROVE CountInv'
  OBVIOUS
<1>1. TypeOK /\ aborts \in Nat
  BY DEF BrowserInv, TypeOK
<1>2. ASSUME UNCHANGED <<audits, answers, archived, runs, callers, aborts>> PROVE CountInv'
  BY <1>2 DEF CountInv, EventsFinite, StepsFitOperations, EventsAreAnswers, ConflictsFollow,
              AnswersAreFound, AnswersHaveRoom, EvidenceLeft, RunsHaveCallers, RunsHaveRoom,
              Exists, Matching, Earlier, EventsOf, BackendCalls, At, callers
<1>3. CASE UNCHANGED vars
  BY <1>2, <1>3 DEF vars, world
<1>4. CASE RecordsArrive \/ Reconfigure
  BY <1>2, <1>4 DEF RecordsArrive, Reconfigure
<1>5. ASSUME NEW r \in Requests, Exists(r.op, r.action), Decides(r, First(r.op, r.action).at)
      PROVE  answers' = answers
  BY <1>1, <1>5, FirstDecides DEF Decides, TypeOK
<1>6. ASSUME NEW c \in Callers, NEW r \in Requests, Replay(c, r) PROVE CountInv'
  BY <1>2, <1>5, <1>6 DEF Replay, Answers, world
<1>7. ASSUME NEW c \in Callers, NEW r \in Requests, Start(c, r) \/ Refuse(c, r) PROVE CountInv'
  <2>1. /\ OnlyMoves(c) /\ UNCHANGED <<audits, answers, archived, runs, aborts>>
        /\ pc[c] = "idle" /\ pc'[c] \in {FirstStep(r), "reject"} /\ work'[c] = r
        /\ pc'[c] = "prepared" => r.op = "complete"
        /\ ~Exists(r.op, r.action)
        /\ \A d \in Callers \ {c} : stamp'[d] = stamp[d]
    BY <1>1, <1>7 DEF Start, Refuse, BeginRejection, Begin, FirstStep, OnlyMoves, TypeOK, world
  <2>2. QED
    BY <1>1, <2>1, QuietSteps DEF HaveRun, FirstStep
<1>8. ASSUME NEW c \in Callers, NEW r \in Requests, Conflict(c, r) PROVE CountInv'
  <2>1. /\ OnlyMoves(c) /\ UNCHANGED <<audits, archived, runs, aborts>>
        /\ pc[c] = "idle" /\ pc'[c] = "conflict" /\ work'[c] = r /\ stamp'[c] = clock + 1
        /\ \A d \in Callers \ {c} : stamp'[d] = stamp[d]
    BY <1>1, <1>8 DEF Conflict, BeginRejection, Begin, OnlyMoves, TypeOK, world
  <2>2. answers' = answers
    BY <1>5, <1>8 DEF Conflict
  <2>3. Earlier(Task(work'[c]), stamp'[c])
    <3>1. PICK f \in Matching(r.op, r.action) : TRUE
      BY <1>8 DEF Conflict, Exists
    <3>2. f.at \in Nat /\ f.at <= clock /\ clock \in Nat
      BY <1>1, LimitsAssumption DEF Matching, BrowserInv, StampsGiven, TypeOK, Events, Stamps
    <3>3. QED
      BY <2>1, <3>1, <3>2 DEF Earlier, Task
  <2>4. QED
    BY <1>1, <2>1, <2>2, <2>3, QuietSteps DEF HaveRun
<1>9. ASSUME NEW c \in Callers, Validate(c) PROVE CountInv'
  <2>1. /\ OnlyMoves(c) /\ UNCHANGED <<audits, answers, archived, runs, aborts, work>>
        /\ pc[c] = "validate" /\ \A d \in Callers \ {c} : stamp'[d] = stamp[d]
        /\ \/ pc'[c] = "reject"
           \/ pc'[c] = "run" /\ work[c].op = "execute"
           \/ pc'[c] = "archive" /\ work[c].op # "execute"
    BY <1>1, <1>9 DEF Validate, Stamped, Goto, OnlyMoves, TypeOK, world
  <2>2. QED
    BY <1>1, <2>1, QuietSteps DEF HaveRun
<1>10. ASSUME NEW c \in Callers, FindPrepare(c) PROVE CountInv'
  <2>1. /\ OnlyMoves(c) /\ UNCHANGED <<audits, answers, archived, runs, aborts, work>>
        /\ pc[c] = "prepared" /\ pc'[c] \in {"reject", "archive"}
        /\ \A d \in Callers \ {c} : stamp'[d] = stamp[d]
    BY <1>1, <1>10 DEF FindPrepare, Stamped, Goto, OnlyMoves, TypeOK, world
  <2>2. work[c].op = "complete"
    BY <2>1 DEF CountInv, StepsFitOperations
  <2>3. QED
    BY <1>1, <2>1, <2>2, QuietSteps DEF HaveRun
<1>11. ASSUME NEW c \in Callers, Abort(c) PROVE CountInv'
  <2>1. /\ OnlyMoves(c) /\ UNCHANGED <<audits, answers, archived, runs>>
        /\ aborts' = aborts + 1 /\ pc'[c] = "idle"
        /\ \A d \in Callers \ {c} : stamp'[d] = stamp[d]
    BY <1>1, <1>11 DEF Abort, Return, OnlyMoves, TypeOK, world
  <2>2. QED
    BY <1>1, <2>1, QuietSteps DEF HaveRun
<1>12. QED
  BY <1>1, <1>3, <1>4, <1>6, <1>7, <1>9, <1>10, <1>11, <1>8, RunSteps, ArchiveSteps, WriteSteps
     DEF Next

LEMMA CountInvariant == Spec => [](BrowserInv /\ CountInv)
BY InitBrowserInv, NextBrowserInv, InitCountInv, NextCountInv, PTL DEF Spec

\* The backend acts for an action at most once per caller and lost call, however often
\* its execution is asked for: from its first event on, a failure's too, no later call
\* reaches the backend.  And the log claims no more than happened: a completed
\* execution was run, and what is logged as done left its evidence (service.py:103-207).
THEOREM RunsStayAccounted == Spec => []RunsAreAccounted
<1>1. BrowserInv /\ CountInv => RunsAreAccounted
  <2> SUFFICES ASSUME BrowserInv, CountInv PROVE RunsAreAccounted
    OBVIOUS
  <2>1. TypeOK /\ aborts \in Nat
    BY DEF BrowserInv, TypeOK
  <2>2. RunsBounded
    <3>1. ASSUME NEW a \in ActionIds
          PROVE  Cardinality(BackendCalls(a)) <= Cardinality(Callers) + aborts
      <4>1. Cardinality(BackendCalls(a)) + Cardinality(At(Executions(a), MayRun))
              <= Cardinality(Callers) + aborts
        BY DEF CountInv, RunsHaveRoom
      <4>2. /\ Cardinality(BackendCalls(a)) \in Nat /\ Cardinality(Callers) \in Nat
            /\ Cardinality(At(Executions(a), MayRun)) \in Nat
        BY <2>1, CallsFinite, Finite
      <4>3. QED
        BY <2>1, <4>1, <4>2
    <3>2. QED
      BY <3>1 DEF RunsBounded
  <2>3. CompletedRan
    <3>1. ASSUME NEW r \in Requests
          PROVE  /\ Cardinality({e \in audits : e.print = r}) <= archived[r]
                 /\ r.op = "execute" => archived[r] <= runs[r]
      <4>1. /\ Cardinality(EventsOf(r)) + Cardinality(At({r}, {"write"})) <= archived[r]
            /\ r.op = "execute" => archived[r] + Cardinality(At({r}, {"archive"})) <= runs[r]
        BY DEF CountInv, EvidenceLeft
      <4>2. IsFiniteSet(EventsOf(r))
        <5>1. EventsOf(r) \in SUBSET audits
          BY DEF EventsOf
        <5>2. QED
          BY <5>1, FS_Subset DEF CountInv, EventsFinite
      <4>3. /\ Cardinality(EventsOf(r)) \in Nat /\ archived[r] \in Nat /\ runs[r] \in Nat
            /\ Cardinality(At({r}, {"write"})) \in Nat /\ Cardinality(At({r}, {"archive"})) \in Nat
        BY <2>1, <4>2, LimitsAssumption, Finite, FS_CardinalityType DEF TypeOK
      <4>4. QED
        BY <4>1, <4>3 DEF EventsOf
    <3>2. QED
      BY <3>1 DEF CompletedRan
  <2>4. QED
    BY <2>2, <2>3 DEF RunsAreAccounted
<1>2. QED
  BY <1>1, CountInvariant, PTL

\* However often an action is repeated, and by whatever requests, what decides its
\* calls is one of as many events as there are callers: the success or the rejection of
\* the execution, the approved prepare or the completion that a call is answered with
\* or conflicts with.  Once one is written no caller takes the action up again, and a
\* conflict is never the first event that a later call finds (service.py:51-60, 103-121).
THEOREM AnswersStayFew == Spec => []AnswersAgree
<1>1. BrowserInv /\ CountInv => AnswersAgree
  <2> SUFFICES ASSUME BrowserInv, CountInv, NEW t \in Tasks
               PROVE  Cardinality(answers[t]) <= Cardinality(Callers)
    BY DEF AnswersAgree
  <2>1. Cardinality(answers[t]) + Cardinality(At(Asking(t), MayDecide)) <= Cardinality(Callers)
    BY DEF CountInv, AnswersHaveRoom
  <2>2. /\ Cardinality(answers[t]) \in Nat /\ Cardinality(At(Asking(t), MayDecide)) \in Nat
        /\ Cardinality(Callers) \in Nat
    BY Finite, FS_CardinalityType DEF BrowserInv, CountInv, EventsFinite
  <2>3. QED
    BY <2>1, <2>2
<1>2. QED
  BY <1>1, CountInvariant, PTL
=============================================================================
