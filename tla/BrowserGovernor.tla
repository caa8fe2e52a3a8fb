--------------------------- MODULE BrowserGovernor ---------------------------
(***************************************************************************)
(* The browser governor (plugins/browser_governor/service.py): an action   *)
(* is prepared and completed by whoever does it by hand, or executed by    *)
(* the browser backend.  Like the email governor it keeps no state and     *)
(* decides what was done before from the audit events in the ledger, by    *)
(* the first of them in the order of created_at; an event gets that stamp  *)
(* before it is written, so that one with a later stamp may be written     *)
(* first.  One action per ledger read, ledger write, archive call and      *)
(* backend call.                                                           *)
(***************************************************************************)
EXTENDS Naturals, FiniteSets

CONSTANTS
  Callers,     \* threads or processes that call the governor
  Requests,    \* what they ask for
  ActionIds, Bodies,
  None,        \* no request, no fingerprint
  Configurations,   \* the operations a BrowserGovernorConfig lets through: none,
                    \* the manual ones (enabled), all (execution_enabled as well)
  MaxStamps,   \* bound: audit events that get a stamp
  MaxRuns,     \* bound: backend calls per request
  MaxAborts    \* bound: calls that raise or die on the way

Operations == {"prepare", "execute", "complete"}

(***************************************************************************)
(* A request: the operation, the action id, the other fields, and whether  *)
(* it passes the checks of its own fields (profile, personal account, KYC, *)
(* captcha, bot evasion, host).  The whole request is its fingerprint.     *)
(***************************************************************************)
ASSUME RequestsAssumption ==
  /\ Requests \subseteq [op: Operations, action: ActionIds, body: Bodies, allowed: BOOLEAN]
  /\ None \notin Requests

ASSUME LimitsAssumption ==
  /\ Configurations \subseteq {{}, {"prepare", "complete"}, Operations}
  /\ MaxStamps \in Nat /\ MaxRuns \in Nat /\ MaxAborts \in Nat
  /\ IsFiniteSet(Callers) /\ IsFiniteSet(Requests)

VARIABLES
  served,      \* what the present configuration lets through
  records,     \* are policy decision, opportunity and spend request in the ledger?
  audits,      \* audit events: [kind, status, action, print, at, prepared]
  archived,    \* complete evidence of a call in the archive, by request
  runs,        \* backend calls by request: what the browser did in the world
  answers,     \* stamps of the events that decided calls, by operation and action
  pc, work,    \* what each caller does, for which request
  found,       \* the stamp of the prepare event a completion has read
  stamp,       \* created_at of the event about to be written
  clock,       \* the last stamp given
  aborts       \* calls that did not come to their end

callers == <<pc, work, found, stamp>>
world   == <<served, records, archived, runs>>
vars    == <<world, audits, answers, callers, clock, aborts>>

Stamps == 0 .. MaxStamps
Events == [kind: Operations, status: {"done", "rejected"}, action: ActionIds,
           print: Requests \cup {None}, at: Stamps, prepared: Stamps]
Steps == {"idle", "validate", "prepared", "run", "archive", "write", "reject", "conflict"}
Tasks == Operations \X ActionIds
Task(r) == <<r.op, r.action>>

TypeOK ==
  /\ served \in Configurations
  /\ records \in BOOLEAN
  /\ audits \subseteq Events
  /\ archived \in [Requests -> Nat] /\ runs \in [Requests -> 0 .. MaxRuns]
  /\ answers \in [Tasks -> SUBSET Stamps]
  /\ pc \in [Callers -> Steps]
  /\ work \in [Callers -> Requests \cup {None}]
  /\ \A c \in Callers : pc[c] = "idle" <=> work[c] = None
  /\ found \in [Callers -> Stamps] /\ stamp \in [Callers -> Stamps]
  /\ clock \in Stamps /\ aborts \in 0 .. MaxAborts

Init ==
  /\ served \in Configurations
  /\ records = FALSE /\ audits = {}
  /\ archived = [r \in Requests |-> 0] /\ runs = [r \in Requests |-> 0]
  /\ answers = [t \in Tasks |-> {}]
  /\ pc = [c \in Callers |-> "idle"] /\ work = [c \in Callers |-> None]
  /\ found = [c \in Callers |-> 0] /\ stamp = [c \in Callers |-> 0]
  /\ clock = 0 /\ aborts = 0

-----------------------------------------------------------------------------
\* What the governor reads back.

\* Mutant: a rejection counts like what it rejects.
Matching_AnyStatus(op, action) == {e \in audits : e.kind = op /\ e.action = action}

\* Mutant: an execution that was rejected is not found.
Matching_DoneOnly(op, action) ==
  {e \in audits : e.kind = op /\ e.action = action /\ e.status = "done"}

\* _find_prepare_payload and _find_completion_payload want a success;
\* _find_execute_payload takes any outcome.
Matching(op, action) == {e \in audits :
  e.kind = op /\ e.action = action /\ (op = "execute" \/ e.status = "done")}

Exists(op, action) == Matching(op, action) # {}
First(op, action) ==
  CHOOSE e \in Matching(op, action) : \A f \in Matching(op, action) : e.at <= f.at

Answers(r) == Exists(r.op, r.action) /\ First(r.op, r.action).print = r

-----------------------------------------------------------------------------
Goto(c, step) == pc' = [pc EXCEPT ![c] = step] /\ UNCHANGED work

\* The next event of the caller is stamped, and written by its next step.
Stamped(c, step) ==
  /\ clock < MaxStamps
  /\ clock' = clock + 1
  /\ stamp' = [stamp EXCEPT ![c] = clock + 1]
  /\ Goto(c, step)

\* Mutant: the caller keeps the request it has finished.
Return_Keeps(c) ==
  /\ pc' = [pc EXCEPT ![c] = "idle"]
  /\ found' = [found EXCEPT ![c] = 0] /\ stamp' = [stamp EXCEPT ![c] = 0]
  /\ UNCHANGED work

Return(c) ==
  /\ pc' = [pc EXCEPT ![c] = "idle"]
  /\ work' = [work EXCEPT ![c] = None]
  /\ found' = [found EXCEPT ![c] = 0] /\ stamp' = [stamp EXCEPT ![c] = 0]

\* The policy guard, the scout and the wallet client have done their part.
RecordsArrive ==
  /\ ~records
  /\ records' = TRUE
  /\ UNCHANGED <<served, archived, runs, audits, answers, callers, clock, aborts>>

\* A process with another configuration takes over; calls under way have read theirs.
Reconfigure ==
  /\ served' \in Configurations \ {served}
  /\ UNCHANGED <<records, archived, runs, audits, answers, callers, clock, aborts>>

\* The event at stamp "at" decides a call for r.
Decides(r, at) == answers' = [answers EXCEPT ![Task(r)] = @ \cup {at}]

\* The call is answered with the first event of the action, when the fingerprint is
\* its own.
Replay(c, r) ==
  /\ pc[c] = "idle" /\ Answers(r)
  /\ Decides(r, First(r.op, r.action).at)
  /\ UNCHANGED <<world, audits, callers, clock, aborts>>

Begin(c, r, step) ==
  /\ pc[c] = "idle"
  /\ pc' = [pc EXCEPT ![c] = step]
  /\ work' = [work EXCEPT ![c] = r]
  /\ UNCHANGED <<world, audits, found, aborts>>

FirstStep(r) == IF r.op = "complete" THEN "prepared" ELSE "validate"

Start(c, r) ==
  /\ r.op \in served /\ ~Exists(r.op, r.action)
  /\ Begin(c, r, FirstStep(r)) /\ UNCHANGED <<answers, stamp, clock>>

BeginRejection(c, r, step) ==
  /\ clock < MaxStamps
  /\ clock' = clock + 1
  /\ stamp' = [stamp EXCEPT ![c] = clock + 1]
  /\ Begin(c, r, step)

\* action_id_conflict: the first event has another fingerprint, or none, like the
\* rejection of an execution.
Conflict(c, r) ==
  /\ Exists(r.op, r.action) /\ ~Answers(r)
  /\ Decides(r, First(r.op, r.action).at)
  /\ BeginRejection(c, r, "conflict")

\* browser_disabled, browser_execution_disabled.
Refuse(c, r) ==
  /\ ~Exists(r.op, r.action) /\ r.op \notin served
  /\ BeginRejection(c, r, "reject")
  /\ UNCHANGED answers

\* Mutant: the request is archived without being carried out.
Validate_NoRun(c) ==
  /\ pc[c] = "validate"
  /\ IF work[c].allowed /\ records
     THEN Goto(c, "archive") /\ UNCHANGED <<stamp, clock>>
     ELSE Stamped(c, "reject")
  /\ UNCHANGED <<world, audits, answers, found, aborts>>

\* _validate_request: the fields, then the records it names.
Validate(c) ==
  /\ pc[c] = "validate"
  /\ IF work[c].allowed /\ records
     THEN /\ Goto(c, IF work[c].op = "execute" THEN "run" ELSE "archive")
          /\ UNCHANGED <<stamp, clock>>
     ELSE Stamped(c, "reject")
  /\ UNCHANGED <<world, audits, answers, found, aborts>>

\* complete_action looks for the prepare event it completes.
FindPrepare(c) ==
  LET a == work[c].action
  IN /\ pc[c] = "prepared"
     /\ IF Exists("prepare", a)
        THEN /\ found' = [found EXCEPT ![c] = First("prepare", a).at]
             /\ Goto(c, "archive") /\ UNCHANGED <<stamp, clock>>
        ELSE Stamped(c, "reject") /\ UNCHANGED found
     /\ UNCHANGED <<world, audits, answers, aborts>>

Runs(c) ==
  /\ pc[c] = "run" /\ runs[work[c]] < MaxRuns
  /\ runs' = [runs EXCEPT ![work[c]] = @ + 1]

\* Mutant: a failure of the backend is returned without an event.
RunFails_Silent(c) ==
  /\ Runs(c)
  /\ Return(c)
  /\ UNCHANGED <<served, records, archived, audits, answers, clock, aborts>>

\* The backend raises BrowserAutomationError after some or all of the steps.
RunFails(c) ==
  /\ Runs(c)
  /\ Stamped(c, "reject")
  /\ UNCHANGED <<served, records, archived, audits, answers, found, aborts>>

Run(c) ==
  /\ Runs(c)
  /\ Goto(c, "archive")
  /\ UNCHANGED <<served, records, archived, audits, answers, found, stamp, clock, aborts>>

\* One artifact for prepare and complete, four for execute; Abort stands for the
\* call that fails among them.
Archive(c) ==
  /\ pc[c] = "archive"
  /\ archived' = [archived EXCEPT ![work[c]] = @ + 1]
  /\ Stamped(c, "write")
  /\ UNCHANGED <<served, records, runs, audits, answers, found, aborts>>

WriteDone(c) ==
  /\ pc[c] = "write"
  /\ audits' = audits \cup
       {[kind |-> work[c].op, status |-> "done", action |-> work[c].action,
         print |-> work[c], at |-> stamp[c], prepared |-> found[c]]}
  /\ Decides(work[c], stamp[c])
  /\ Return(c)
  /\ UNCHANGED <<world, clock, aborts>>

\* _record_rejection: no fingerprint, and a completion is rejected as a prepare.  A
\* rejected execution is the outcome of its action and found by later calls; a
\* rejected prepare or completion is not, and what decided a conflict is the event
\* it is in conflict with.
WriteRejection(c) ==
  /\ pc[c] \in {"reject", "conflict"}
  /\ audits' = audits \cup
       {[kind |-> IF work[c].op = "execute" THEN "execute" ELSE "prepare",
         status |-> "rejected", action |-> work[c].action,
         print |-> None, at |-> stamp[c], prepared |-> 0]}
  /\ IF pc[c] = "reject" /\ work[c].op = "execute"
     THEN Decides(work[c], stamp[c])
     ELSE UNCHANGED answers
  /\ Return(c)
  /\ UNCHANGED <<world, clock, aborts>>

\* A ledger, archive or backend call raises, or the process dies.
Abort(c) ==
  /\ pc[c] # "idle" /\ aborts < MaxAborts
  /\ aborts' = aborts + 1
  /\ Return(c)
  /\ UNCHANGED <<world, audits, answers, clock>>

Next ==
  \/ RecordsArrive
  \/ Reconfigure
  \/ \E c \in Callers :
       \/ \E r \in Requests : Replay(c, r) \/ Start(c, r) \/ Conflict(c, r) \/ Refuse(c, r)
       \/ Validate(c) \/ FindPrepare(c) \/ RunFails(c) \/ Run(c) \/ Archive(c)
       \/ WriteDone(c) \/ WriteRejection(c) \/ Abort(c)

Spec == Init /\ [][Next]_vars

-----------------------------------------------------------------------------
(* Properties.                                                               *)

\* The backend calls for the executions of an action, numbered by request.
BackendCalls(a) == {call \in Requests \X (1 .. MaxRuns) :
  call[1].op = "execute" /\ call[1].action = a /\ call[2] <= runs[call[1]]}

\* The browser acts for an action once, plus once for each further caller and
\* for each call that died before its event: any event of an execution, of a
\* failed one too, keeps later calls from the backend.
RunsBounded == \A a \in ActionIds :
  Cardinality(BackendCalls(a)) <= Cardinality(Callers) + aborts

\* An execution the log calls completed was run, and its evidence is archived.
CompletedRan == \A r \in Requests :
  /\ Cardinality({e \in audits : e.print = r}) <= archived[r]
  /\ r.op = "execute" => archived[r] <= runs[r]

\* Both: no run beyond those, and none that is logged but did not happen
\* (service.py:102-207).
RunsAreAccounted == RunsBounded /\ CompletedRan

\* A completion is about a prepare that was approved before it, for the same
\* action: a rejected prepare does not open the way.
CompletionHasPrepare == \A e \in audits : e.kind = "complete" =>
  \E p \in audits : /\ p.kind = "prepare" /\ p.status = "done" /\ p.action = e.action
                    /\ p.at = e.prepared /\ p.at < e.at

\* However often an action is repeated, what decides its calls is one of as many
\* events as there are callers, rejections of executions and the events that conflicts
\* are in conflict with included: no caller takes it up again once there is one, and
\* the conflicts a decided action leaves behind decide nothing.  More is not true: an
\* event with an earlier stamp may be written after the first and then decides, so
\* that a repeat of a completed execution can be refused (service.py:106-108).
AnswersAgree == \A t \in Tasks : Cardinality(answers[t]) <= Cardinality(Callers)
=============================================================================
