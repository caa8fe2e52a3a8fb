------------------------ MODULE MissionWorkflowProofs ------------------------
(***************************************************************************)
(* The mission workflow for any number of missions and any requests: it    *)
(* keeps the order of its gates, pays only what is authorized, and does    *)
(* nothing for an opportunity that the ledger knew when it began.          *)
(***************************************************************************)
EXTENDS MissionWorkflow, FiniteSetTheorems, TLAPS

Stages == GateNames \cup {"duplicate_check"}
Opening == {"idle", "selected", "fresh"}
Acting == {"draft", "quote", "pay"}
Closing == {"finalize"} \cup Ended
Steps == Opening \cup GateNames \cup Acting \cup Closing

MissionsOK ==
  /\ at \in [Missions -> Steps]
  /\ acts \in [Missions -> SUBSET Acting]
  /\ DOMAIN request = Missions /\ DOMAIN chosen = Missions
  /\ DOMAIN verdicts = Missions /\ DOMAIN knownBefore = Missions
  /\ \A m \in Missions : DOMAIN verdicts[m] = Stages

\* The gates before the one a mission is at have approved it, the others are silent.
ApprovedTo(m, i) == \A j \in 1 .. i : Approved(m, Gates[j])
SilentFrom(m, i) == \A j \in i .. Len(Gates) : verdicts[m][Gates[j]] = "none"

InSequence(m) ==
  /\ at[m] \in Opening => SilentFrom(m, 1)
  /\ \A i \in DOMAIN Gates : at[m] = Gates[i] => ApprovedTo(m, i - 1) /\ SilentFrom(m, i)
  /\ at[m] \in Acting => ApprovedTo(m, Len(Gates))

GateInv == MissionsOK /\ \A m \in Missions : InSequence(m)

\* A mission that goes on is not about an opportunity that was known when it began.
IsNew(m) ==
  request[m].enforce => \A row \in knownBefore[m] : row.print.url # Document(m).url

NothingTwice == \A m \in Missions :
  /\ knownBefore[m] \subseteq known
  /\ at[m] \in {"idle", "selected"} => acts[m] = {}
  /\ at[m] \notin {"idle", "selected"} \cup Closing \/ acts[m] # {} => IsNew(m)

\* The document a mission is about is one it was given, its policy decision is the
\* one on its own payment, and it pays what it was asked to pay.
Executed(m) ==
  PolicyDecision(ExecutionPolicyRequest(request[m], Document(m)).request)

Grounded == \A m \in Missions :
  /\ at[m] \notin {"idle"} \cup Ended =>
       request[m] \in MissionRequests /\ chosen[m] \in DOMAIN request[m].documents
  /\ verdicts[m].execution_policy # "none" => verdicts[m].execution_policy = Executed(m)
  /\ at[m] = "pay" => request[m].payment /\ HandoffAmount(m) # 0

\* A spend is authorized when it is made, and its mission decides nothing any more.
Authorized(s) ==
  /\ Clear(BundleErrors(s))
  /\ s.amount <= Constraints(
       ExecutionPolicyRequest(request[s.mission], Document(s.mission)).request).maxSpend

SpendsOK == \A s \in spends :
  s.mission \in Missions /\ at[s.mission] \in Closing /\ Authorized(s)

SpendInv == GateInv /\ Grounded /\ SpendsOK

-----------------------------------------------------------------------------
(* The gates and the steps have different names.                             *)

LEMMA GateFacts ==
  /\ Len(Gates) = 8 /\ DOMAIN Gates = 1 .. 8
  /\ Gates[1] = "eligibility" /\ Gates[2] = "initial_policy" /\ Gates[3] = "tos_legal"
  /\ Gates[4] = "budget" /\ Gates[5] = "counterparty_risk" /\ Gates[6] = "execution_policy"
  /\ Gates[7] = "submission_package" /\ Gates[8] = "deliverable_quality"
BY DEF Gates

LEMMA GatesAreStages == GateNames = {Gates[i] : i \in 1 .. 8} /\ GateNames \subseteq Stages
BY GateFacts DEF GateNames, Stages

LEMMA GatesDiffer ==
  ASSUME NEW i \in 1 .. 8, NEW j \in 1 .. 8, Gates[i] = Gates[j]
  PROVE  i = j
<1>1. i \in {1, 2, 3, 4, 5, 6, 7, 8} /\ j \in {1, 2, 3, 4, 5, 6, 7, 8}
  OBVIOUS
<1>2. QED
  BY <1>1, GateFacts

LEMMA GatesAreNoSteps ==
  ASSUME NEW i \in 1 .. 8
  PROVE  Gates[i] \notin Opening \cup Acting \cup Closing \cup {"duplicate_check"}
<1>1. i \in {1, 2, 3, 4, 5, 6, 7, 8}
  OBVIOUS
<1>2. QED
  BY <1>1, GateFacts DEF Opening, Acting, Closing, Ended

LEMMA StepsDiffer ==
  Opening \cap Acting = {} /\ Opening \cap Closing = {} /\ Acting \cap Closing = {}
BY DEF Opening, Acting, Closing, Ended

\* The tier of a counterparty is one of three.
LEMMA Tiers ==
  ASSUME NEW c
  PROVE  RiskTier(c) \in {"low", "medium", "high"}
BY DEF RiskTier

-----------------------------------------------------------------------------
(* How many gates have approved a mission.                                   *)

LEMMA FirstOnes ==
  ASSUME NEW P, NEW k \in 0 .. 8, 1 .. k \subseteq P, k < 8 => k + 1 \notin P
  PROVE  Cardinality({i \in 1 .. 8 : \A j \in 1 .. i : j \in P}) = k
<1>1. {i \in 1 .. 8 : \A j \in 1 .. i : j \in P} = 1 .. k
  <2>1. ASSUME NEW i \in 1 .. 8, \A j \in 1 .. i : j \in P PROVE i \in 1 .. k
    <3>1. CASE i <= k
      BY <3>1
    <3>2. CASE k + 1 <= i
      <4>1. k + 1 \in 1 .. i /\ k < 8
        BY <3>2
      <4>2. QED
        BY <2>1, <4>1
    <3>3. QED
      BY <3>1, <3>2
  <2>2. ASSUME NEW i \in 1 .. k PROVE i \in 1 .. 8 /\ \A j \in 1 .. i : j \in P
    OBVIOUS
  <2>3. QED
    BY <2>1, <2>2
<1>2. Cardinality(1 .. k) = k
  <2>1. 1 \in Int /\ k \in Int
    OBVIOUS
  <2>2. Cardinality(1 .. k) = IF 1 > k THEN 0 ELSE k - 1 + 1
    BY <2>1, FS_Interval, Zenon
  <2>3. QED
    BY <2>2
<1>3. QED
  BY <1>1, <1>2

LEMMA Counted8 ==
  ASSUME NEW m, NEW k \in 0 .. 8,
         ApprovedTo(m, k), k < 8 => ~Approved(m, Gates[k + 1])
  PROVE  GatesPassed(m) = k
<1> DEFINE P == {j \in 1 .. 8 : Approved(m, Gates[j])}
<1>1. 1 .. k \subseteq P /\ (k < 8 => k + 1 \notin P)
  BY DEF ApprovedTo
<1>2. {i \in 1 .. 8 : \A j \in 1 .. i : j \in P}
        = {i \in 1 .. 8 : \A j \in 1 .. i : Approved(m, Gates[j])}
  OBVIOUS
<1> HIDE DEF P
<1>3. Cardinality({i \in 1 .. 8 : \A j \in 1 .. i : j \in P}) = k
  BY <1>1, FirstOnes
<1>4. QED
  BY <1>2, <1>3, GateFacts DEF GatesPassed

LEMMA CountedNext ==
  ASSUME NEW m, NEW k \in 0 .. 8,
         ApprovedTo(m, k)', k < 8 => ~Approved(m, Gates[k + 1])'
  PROVE  GatesPassed(m)' = k
<1>0. PICK P : P = {j \in 1 .. 8 : Approved(m, Gates[j])'}
  OBVIOUS
<1>1. 1 .. k \subseteq P /\ (k < 8 => k + 1 \notin P)
  BY <1>0 DEF ApprovedTo
<1>2. {i \in 1 .. 8 : \A j \in 1 .. i : j \in P}
        = {i \in 1 .. 8 : \A j \in 1 .. i : Approved(m, Gates[j])'}
  BY <1>0
<1>3. Cardinality({i \in 1 .. 8 : \A j \in 1 .. i : j \in P}) = k
  BY <1>1, FirstOnes
<1>4. QED
  BY <1>2, <1>3, GateFacts DEF GatesPassed

\* What a step leaves alone.
LEMMA Untouched ==
  ASSUME NEW n, request'[n] = request[n],
         \A i \in 1 .. 8 : verdicts'[n][Gates[i]] = verdicts[n][Gates[i]]
  PROVE  /\ \A i \in 1 .. 8 : Approved(n, Gates[i])' <=> Approved(n, Gates[i])
         /\ GatesPassed(n)' = GatesPassed(n)
         /\ \A i \in 0 .. 8 : ApprovedTo(n, i)' <=> ApprovedTo(n, i)
         /\ \A i \in 1 .. 8 : SilentFrom(n, i)' <=> SilentFrom(n, i)
<1>1. \A i \in 1 .. 8 : Approved(n, Gates[i])' <=> Approved(n, Gates[i])
  BY DEF Approved
<1>2. {i \in 1 .. 8 : \A j \in 1 .. i : Approved(n, Gates[j])'}
        = {i \in 1 .. 8 : \A j \in 1 .. i : Approved(n, Gates[j])}
  BY <1>1
<1>3. GatesPassed(n)' = GatesPassed(n)
  BY <1>2, GateFacts DEF GatesPassed
<1>4. \A i \in 0 .. 8 : ApprovedTo(n, i)' <=> ApprovedTo(n, i)
  BY <1>1 DEF ApprovedTo
<1>5. \A i \in 1 .. 8 : SilentFrom(n, i)' <=> SilentFrom(n, i)
  BY GateFacts DEF SilentFrom
<1>6. QED
  BY <1>1, <1>3, <1>4, <1>5

\* A silent gate has not approved.
LEMMA SilentCount ==
  ASSUME NEW m, NEW i \in 1 .. 8, ApprovedTo(m, i - 1), SilentFrom(m, i)
  PROVE  GatesPassed(m) = i - 1
<1>1. ~Approved(m, Gates[i])
  BY GateFacts DEF SilentFrom, Approved
<1>2. i - 1 \in 0 .. 8 /\ (i - 1) + 1 = i
  OBVIOUS
<1>3. QED
  BY <1>1, <1>2, Counted8

-----------------------------------------------------------------------------
(* The gates.  A verdict that passes is an approval, and no other is.        *)

LEMMA ApprovalIsPassing ==
  ASSUME NEW m, NEW i \in 1 .. 8, NEW r, NEW d, NEW given,
         request'[m] = r, verdicts'[m][Gates[i]] = Verdict(Gates[i], r, d, given)
  PROVE  Passes(Gates[i], r, Verdict(Gates[i], r, d, given)) <=> Approved(m, Gates[i])'
<1>1. i \in {1, 2, 3, 4, 5, 6, 7, 8}
  OBVIOUS
<1>2. PICK v : v = Verdict(Gates[i], r, d, given)
  OBVIOUS
<1>3. CASE i = 5
  <2>1. Gates[i] = "counterparty_risk"
    BY <1>3, GateFacts
  <2>2. v = RiskTier(PartyRequest(r, d))
    BY <1>2, <2>1 DEF Verdict
  <2>3. v \in {"low", "medium", "high"}
    BY <2>2, Tiers
  <2>4. QED
    BY <1>2, <2>1, <2>3 DEF Passes, Approved
<1>4. CASE i # 5
  <2>1. Gates[i] # "counterparty_risk"
    BY <1>1, <1>4, GateFacts
  <2>2. Passes(Gates[i], r, v) <=> v = Approval[Gates[i]]
    BY <2>1 DEF Passes
  <2>3. verdicts'[m][Gates[i]] = v
    BY <1>2
  <2>4. CASE i \in {1, 2, 3, 4}
    BY <1>1, <2>2, <2>3, <2>4, <1>2, GateFacts DEF Approval, Approved
  <2>5. CASE i \in {6, 7, 8}
    BY <1>1, <2>2, <2>3, <2>5, <1>2, GateFacts DEF Approval, Approved
  <2>6. QED
    BY <1>1, <1>4, <2>4, <2>5
<1>5. QED
  BY <1>3, <1>4

LEMMA Taken ==
  ASSUME GateInv, NEW m \in Missions, NEW i \in 1 .. 8, TakeGate(m, i)
  PROVE  /\ ApprovedTo(m, i - 1) /\ SilentFrom(m, i)
         /\ at'[m] = IF Approved(m, Gates[i])'
                     THEN IF i < 8 THEN Gates[i + 1] ELSE "draft"
                     ELSE "finalize"
         /\ \A j \in 1 .. 8 \ {i} : verdicts'[m][Gates[j]] = verdicts[m][Gates[j]]
         /\ \A n \in Missions \ {m} : verdicts'[n] = verdicts[n] /\ at'[n] = at[n]
         /\ DOMAIN verdicts' = Missions /\ DOMAIN at' = Missions
         /\ \A n \in Missions : DOMAIN verdicts'[n] = Stages
         /\ verdicts'[m][Gates[i]] = Verdict(Gates[i], request[m], Document(m), verdicts[m])
<1>1. MissionsOK /\ InSequence(m) /\ at[m] = Gates[i] /\ request' = request
  BY GateFacts DEF GateInv, TakeGate
<1>2. ApprovedTo(m, i - 1) /\ SilentFrom(m, i)
  BY <1>1, GateFacts DEF InSequence
<1>3. PICK v : v = Verdict(Gates[i], request[m], Document(m), verdicts[m])
  OBVIOUS
<1>4. /\ verdicts' = [verdicts EXCEPT ![m][Gates[i]] = v]
      /\ at' = [at EXCEPT ![m] = IF ~Passes(Gates[i], request[m], v) THEN "finalize"
                                 ELSE IF i < 8 THEN Gates[i + 1] ELSE "draft"]
  BY <1>3, GateFacts DEF TakeGate, Answer, Goto
<1>5. /\ \A n \in Missions \ {m} : verdicts'[n] = verdicts[n] /\ at'[n] = at[n]
      /\ DOMAIN verdicts' = Missions /\ DOMAIN at' = Missions
      /\ at'[m] = IF ~Passes(Gates[i], request[m], v) THEN "finalize"
                  ELSE IF i < 8 THEN Gates[i + 1] ELSE "draft"
      /\ verdicts'[m] = [verdicts[m] EXCEPT ![Gates[i]] = v]
  BY <1>1, <1>4 DEF MissionsOK
<1>6. /\ verdicts'[m][Gates[i]] = v
      /\ \A j \in 1 .. 8 \ {i} : verdicts'[m][Gates[j]] = verdicts[m][Gates[j]]
      /\ DOMAIN verdicts'[m] = Stages
  <2>1. Gates[i] \in DOMAIN verdicts[m] /\ DOMAIN verdicts[m] = Stages
    BY <1>1, GatesAreStages DEF MissionsOK
  <2>2. \A j \in 1 .. 8 \ {i} : Gates[j] # Gates[i]
    BY GatesDiffer
  <2>3. QED
    BY <1>5, <2>1, <2>2
<1>7. Passes(Gates[i], request[m], v) <=> Approved(m, Gates[i])'
  BY <1>1, <1>3, <1>6, ApprovalIsPassing
<1>8. \A n \in Missions : DOMAIN verdicts'[n] = Stages
  BY <1>1, <1>5, <1>6 DEF MissionsOK
<1>9. QED
  BY <1>2, <1>3, <1>5, <1>6, <1>7, <1>8

-----------------------------------------------------------------------------
(* The order of the gates is kept.                                           *)

LEMMA OthersInSequence ==
  ASSUME GateInv, NEW m \in Missions, MissionsOK', InSequence(m)',
         \A n \in Missions \ {m} :
           at'[n] = at[n] /\ verdicts'[n] = verdicts[n] /\ request'[n] = request[n]
  PROVE  GateInv'
<1>1. ASSUME NEW n \in Missions \ {m} PROVE InSequence(n)'
  <2>1. /\ \A i \in 0 .. 8 : ApprovedTo(n, i)' <=> ApprovedTo(n, i)
        /\ \A i \in 1 .. 8 : SilentFrom(n, i)' <=> SilentFrom(n, i)
    BY Untouched
  <2>2. InSequence(n) /\ at'[n] = at[n]
    BY DEF GateInv
  <2>3. \A i \in 1 .. 8 : i - 1 \in 0 .. 8
    OBVIOUS
  <2>4. QED
    BY <2>1, <2>2, <2>3, GateFacts DEF InSequence
<1>2. QED
  BY <1>1 DEF GateInv

\* What a mission does outside its gates leaves their verdicts alone.
LEMMA OutsideGates ==
  ASSUME GateInv, NEW m \in Missions,
         \/ CheckDuplicate(m) \/ OpenOpportunity(m) \/ DraftEmail(m) \/ QuotePayment(m)
         \/ Pay(m) \/ Finalize(m) \/ Die(m)
  PROVE  /\ request' = request /\ chosen' = chosen /\ knownBefore' = knownBefore
         /\ \A n \in Missions : \A i \in 1 .. 8 :
              verdicts'[n][Gates[i]] = verdicts[n][Gates[i]]
         /\ \A n \in Missions \ {m} : verdicts'[n] = verdicts[n]
         /\ DOMAIN verdicts' = Missions /\ \A n \in Missions : DOMAIN verdicts'[n] = Stages
<1>1. request' = request /\ chosen' = chosen /\ knownBefore' = knownBefore
  BY DEF CheckDuplicate, OpenOpportunity, DraftEmail, QuotePayment, Pay, Finalize, Die
<1>2. CASE verdicts' = verdicts
  BY <1>1, <1>2 DEF GateInv, MissionsOK
<1>3. CASE CheckDuplicate(m)
  <2>1. PICK v : verdicts' = [verdicts EXCEPT ![m]["duplicate_check"] = v]
    BY <1>3 DEF CheckDuplicate, Answer
  <2>2. \A i \in 1 .. 8 : Gates[i] # "duplicate_check"
    BY GatesAreNoSteps
  <2>3. QED
    BY <1>1, <2>1, <2>2 DEF GateInv, MissionsOK
<1>4. QED
  BY <1>2, <1>3 DEF OpenOpportunity, DraftEmail, QuotePayment, Pay, Finalize, Die

\* Where it goes from where.
LEMMA Ways ==
  ASSUME MissionsOK, NEW m \in Missions, Step(m) \/ Die(m)
  PROVE  /\ at[m] \notin Ended
         /\ \A n \in Missions \ {m} : at'[n] = at[n] /\ acts'[n] = acts[n]
         /\ DOMAIN at' = Missions
         /\ Begin(m) => at[m] = "idle" /\ at'[m] \in {"failed", "selected"}
         /\ CheckDuplicate(m) => at[m] = "selected" /\ at'[m] \in {"finalize", "fresh"}
         /\ OpenOpportunity(m) => at[m] = "fresh" /\ at'[m] = Gates[1]
         /\ DraftEmail(m) => at[m] = "draft" /\ at'[m] = "quote"
         /\ QuotePayment(m) => at[m] = "quote" /\ at'[m] \in {"finalize", "failed", "pay"}
         /\ Pay(m) => at[m] = "pay" /\ at'[m] = "finalize"
         /\ Finalize(m) => at[m] = "finalize" /\ at'[m] = "done"
         /\ Die(m) => at'[m] = "died" /\ at[m] # "idle"
<1>1. DOMAIN at = Missions /\ DOMAIN acts = Missions
  BY DEF MissionsOK
<1>2. PICK step : at' = [at EXCEPT ![m] = step]
  BY DEF Step, Begin, CheckDuplicate, OpenOpportunity, TakeGate, DraftEmail, QuotePayment, Pay,
         Finalize, Die, Goto
<1>3. \A n \in Missions \ {m} : at'[n] = at[n] /\ DOMAIN at' = Missions /\ at'[m] = step
  BY <1>1, <1>2
<1>4. \A n \in Missions \ {m} : acts'[n] = acts[n]
  BY <1>1 DEF Step, Begin, CheckDuplicate, OpenOpportunity, TakeGate, DraftEmail, QuotePayment,
              Pay, Finalize, Die
<1>5. at[m] \notin Ended
  <2>1. \A i \in 1 .. 8 : Gates[i] \notin Ended
    BY GatesAreNoSteps DEF Closing
  <2>2. QED
    BY <2>1, GateFacts DEF Step, Begin, CheckDuplicate, OpenOpportunity, TakeGate, DraftEmail,
                           QuotePayment, Pay, Finalize, Die, Ended
<1>6. /\ Begin(m) => at[m] = "idle" /\ at'[m] \in {"failed", "selected"}
      /\ CheckDuplicate(m) => at[m] = "selected" /\ at'[m] \in {"finalize", "fresh"}
      /\ OpenOpportunity(m) => at[m] = "fresh" /\ at'[m] = Gates[1]
  BY <1>1 DEF Begin, CheckDuplicate, OpenOpportunity, Goto
<1>7. /\ DraftEmail(m) => at[m] = "draft" /\ at'[m] = "quote"
      /\ QuotePayment(m) => at[m] = "quote" /\ at'[m] \in {"finalize", "failed", "pay"}
      /\ Pay(m) => at[m] = "pay" /\ at'[m] = "finalize"
  BY <1>1 DEF DraftEmail, QuotePayment, Pay, Goto
<1>8. /\ Finalize(m) => at[m] = "finalize" /\ at'[m] = "done"
      /\ Die(m) => at'[m] = "died" /\ at[m] # "idle"
  BY <1>1 DEF Finalize, Die, Goto
<1>9. DOMAIN at' = Missions
  BY <1>1, <1>2
<1>10. QED
  BY <1>3, <1>4, <1>5, <1>6, <1>7, <1>8, <1>9

\* What it does, it does after its gates.
LEMMA Deeds ==
  ASSUME MissionsOK, NEW m \in Missions, Step(m) \/ Die(m)
  PROVE  \/ acts' = acts
         \/ /\ DraftEmail(m) \/ QuotePayment(m) \/ Pay(m)
            /\ \E act \in Acting : acts' = [acts EXCEPT ![m] = @ \cup {act}]
<1>1. CASE DraftEmail(m)
  <2>1. CASE request[m].recipient
    BY <1>1, <2>1 DEF DraftEmail, Acting
  <2>2. CASE ~request[m].recipient
    BY <1>1, <2>2 DEF DraftEmail, MissionsOK
  <2>3. QED
    BY <2>1, <2>2
<1>2. CASE QuotePayment(m)
  BY <1>2 DEF QuotePayment, Acting
<1>3. CASE Pay(m)
  BY <1>3 DEF Pay, Acting
<1>4. QED
  BY <1>1, <1>2, <1>3 DEF Step, Begin, CheckDuplicate, OpenOpportunity, TakeGate, Finalize, Die

LEMMA NextMissionsOK ==
  ASSUME GateInv, NEW m \in Missions, Step(m) \/ Die(m)
  PROVE  MissionsOK'
<1>1. MissionsOK
  BY DEF GateInv
<1>2. acts' \in [Missions -> SUBSET Acting]
  BY <1>1, Deeds DEF MissionsOK
<1>3. /\ DOMAIN request' = Missions /\ DOMAIN chosen' = Missions
      /\ DOMAIN knownBefore' = Missions
  BY <1>1 DEF MissionsOK, Step, Begin, CheckDuplicate, OpenOpportunity, TakeGate, DraftEmail,
              QuotePayment, Pay, Finalize, Die
<1>4. DOMAIN verdicts' = Missions /\ \A n \in Missions : DOMAIN verdicts'[n] = Stages
  <2>1. CASE Begin(m)
    BY <1>1, <2>1 DEF MissionsOK, Begin
  <2>2. CASE \E i \in DOMAIN Gates : TakeGate(m, i)
    BY <2>2, Taken, GateFacts
  <2>3. QED
    BY <2>1, <2>2, OutsideGates DEF Step
<1>5. at'[m] \in Steps
  <2>1. CASE \E i \in DOMAIN Gates : TakeGate(m, i)
    <3>1. PICK i \in 1 .. 8 : TakeGate(m, i)
      BY <2>1, GateFacts
    <3>2. at'[m] \in {"draft", "finalize"} \cup {Gates[j] : j \in 1 .. 8}
      BY <3>1, Taken
    <3>3. QED
      BY <3>2, GatesAreStages DEF Steps, Acting, Closing
  <2>2. CASE OpenOpportunity(m)
    BY <1>1, <2>2, Ways, GatesAreStages DEF Steps
  <2>3. QED
    BY <1>1, <2>1, <2>2, Ways DEF Step, Steps, Opening, Acting, Closing, Ended
<1>6. \A n \in Missions \ {m} : at'[n] \in Steps
  BY <1>1, Ways DEF MissionsOK
<1>7. \E step : at' = [at EXCEPT ![m] = step]
  BY DEF Step, Begin, CheckDuplicate, OpenOpportunity, TakeGate, DraftEmail, QuotePayment, Pay,
         Finalize, Die, Goto
<1>8. at' \in [Missions -> Steps]
  BY <1>1, <1>5, <1>6, <1>7 DEF MissionsOK
<1>9. QED
  BY <1>2, <1>3, <1>4, <1>8 DEF MissionsOK

LEMMA NextGateInv ==
  ASSUME GateInv, NEW m \in Missions, Step(m) \/ Die(m)
  PROVE  GateInv'
<1>1. MissionsOK /\ InSequence(m) /\ MissionsOK'
  BY NextMissionsOK DEF GateInv
<1>2. \A n \in Missions \ {m} :
        at'[n] = at[n] /\ verdicts'[n] = verdicts[n] /\ request'[n] = request[n]
  <2>1. CASE Begin(m)
    BY <1>1, <2>1, Ways DEF Begin, MissionsOK
  <2>2. CASE \E i \in DOMAIN Gates : TakeGate(m, i)
    BY <2>2, Taken, GateFacts DEF TakeGate
  <2>3. QED
    BY <1>1, <2>1, <2>2, Ways, OutsideGates DEF Step
<1>3. InSequence(m)'
  <2>1. CASE Begin(m)
    <3>1. at'[m] \in {"failed", "selected"} /\ SilentFrom(m, 1) /\ verdicts' = verdicts
      BY <1>1, <2>1, Ways DEF InSequence, Opening, Begin
    <3>2. SilentFrom(m, 1)'
      BY <3>1 DEF SilentFrom
    <3>3. at'[m] \notin Acting /\ \A i \in 1 .. 8 : at'[m] # Gates[i]
      BY <3>1, GatesAreNoSteps DEF Opening, Acting, Closing, Ended
    <3>4. QED
      BY <3>2, <3>3, GateFacts DEF InSequence
  <2>2. CASE \E i \in DOMAIN Gates : TakeGate(m, i)
    <3>1. PICK i \in 1 .. 8 : TakeGate(m, i)
      BY <2>2, GateFacts
    <3>2. ApprovedTo(m, i - 1) /\ SilentFrom(m, i) /\ request' = request
      BY <3>1, Taken DEF TakeGate
    <3>3. \A j \in 1 .. 8 \ {i} : verdicts'[m][Gates[j]] = verdicts[m][Gates[j]]
      BY <3>1, Taken
    <3>4. \A j \in 1 .. 8 \ {i} : Approved(m, Gates[j])' <=> Approved(m, Gates[j])
      BY <3>2, <3>3 DEF Approved
    <3>5. CASE Approved(m, Gates[i])'
      <4>1. ApprovedTo(m, i)'
        <5>1. ASSUME NEW j \in 1 .. i PROVE Approved(m, Gates[j])'
          <6>1. CASE j = i
            BY <3>5, <6>1
          <6>2. CASE j # i
            <7>1. j \in 1 .. 8 \ {i} /\ j \in 1 .. i - 1
              BY <6>2
            <7>2. QED
              BY <3>2, <3>4, <7>1 DEF ApprovedTo
          <6>3. QED
            BY <6>1, <6>2
        <5>2. QED
          BY <5>1 DEF ApprovedTo
      <4>2. CASE i < 8
        <5>1. at'[m] = Gates[i + 1] /\ i + 1 \in 1 .. 8 /\ (i + 1) - 1 = i
          BY <3>1, <3>5, <4>2, Taken
        <5>2. SilentFrom(m, i + 1)'
          <6>1. \A j \in i + 1 .. 8 : j \in 1 .. 8 \ {i} /\ j \in i .. 8
            OBVIOUS
          <6>2. QED
            BY <3>2, <3>3, <6>1, GateFacts DEF SilentFrom
        <5>3. at'[m] \notin Opening \cup Acting /\ \A j \in 1 .. 8 : at'[m] = Gates[j] => j = i + 1
          BY <5>1, GatesDiffer, GatesAreNoSteps
        <5>4. QED
          BY <4>1, <5>1, <5>2, <5>3, GateFacts DEF InSequence
      <4>3. CASE i = 8
        <5>1. at'[m] = "draft"
          BY <3>1, <3>5, <4>3, Taken
        <5>2. at'[m] \notin Opening /\ \A j \in 1 .. 8 : at'[m] # Gates[j]
          BY <5>1, GatesAreNoSteps DEF Opening, Acting
        <5>3. QED
          BY <4>1, <4>3, <5>2, GateFacts DEF InSequence
      <4>4. QED
        BY <4>2, <4>3
    <3>6. CASE ~Approved(m, Gates[i])'
      <4>1. at'[m] \in Closing
        BY <3>1, <3>6, Taken DEF Closing
      <4>2. QED
        BY <4>1, GatesAreNoSteps, StepsDiffer, GateFacts DEF InSequence
    <3>7. QED
      BY <3>5, <3>6
  <2>3. CASE \/ CheckDuplicate(m) \/ OpenOpportunity(m) \/ DraftEmail(m) \/ QuotePayment(m)
             \/ Pay(m) \/ Finalize(m) \/ Die(m)
    <3>1. /\ \A i \in 0 .. 8 : ApprovedTo(m, i)' <=> ApprovedTo(m, i)
          /\ \A i \in 1 .. 8 : SilentFrom(m, i)' <=> SilentFrom(m, i)
      BY <2>3, OutsideGates, Untouched
    <3>2. CASE OpenOpportunity(m)
      <4>1. at[m] \in Opening /\ at'[m] = Gates[1]
        BY <1>1, <3>2, Ways DEF Opening
      <4>2. SilentFrom(m, 1)' /\ ApprovedTo(m, 0)'
        BY <1>1, <3>1, <4>1 DEF InSequence, ApprovedTo
      <4>3. at'[m] \notin Opening \cup Acting /\ \A j \in 1 .. 8 : at'[m] = Gates[j] => j = 1
        BY <4>1, GatesDiffer, GatesAreNoSteps
      <4>4. 1 - 1 = 0
        OBVIOUS
      <4>5. QED
        BY <4>2, <4>3, <4>4, GateFacts DEF InSequence
    <3>3. CASE at'[m] \in Closing
      BY <3>3, GatesAreNoSteps, StepsDiffer, GateFacts DEF InSequence
    <3>4. CASE CheckDuplicate(m) /\ at'[m] = "fresh"
      <4>1. at[m] \in Opening /\ at'[m] \in Opening
        BY <1>1, <3>4, Ways DEF Opening
      <4>2. SilentFrom(m, 1)'
        BY <1>1, <3>1, <4>1 DEF InSequence
      <4>3. QED
        BY <4>1, <4>2, GatesAreNoSteps, StepsDiffer, GateFacts DEF InSequence
    <3>5. CASE at[m] \in Acting /\ at'[m] \in Acting
      <4>1. ApprovedTo(m, 8)'
        BY <1>1, <3>1, <3>5, GateFacts DEF InSequence
      <4>2. QED
        BY <3>5, <4>1, GatesAreNoSteps, StepsDiffer, GateFacts DEF InSequence
    <3>6. QED
      BY <1>1, <2>3, <3>2, <3>3, <3>4, <3>5, Ways DEF Acting, Closing, Ended
  <2>4. QED
    BY <2>1, <2>2, <2>3 DEF Step
<1>4. QED
  BY <1>1, <1>2, <1>3, OthersInSequence

-----------------------------------------------------------------------------
(* Every step is one that the abstract mission may take, or none.            *)

PassedCount == [n \in Missions |-> GatesPassed(n)]
Over == {n \in Missions : at[n] \in Ended}

LEMMA OverAfter ==
  ASSUME MissionsOK, NEW m \in Missions, Step(m) \/ Die(m)
  PROVE  /\ m \notin Over
         /\ Over' = IF at'[m] \in Ended THEN Over \cup {m} ELSE Over
BY Ways DEF Over

LEMMA OthersCount ==
  ASSUME GateInv, NEW m \in Missions, Step(m) \/ Die(m),
         NEW k, GatesPassed(m)' = k
  PROVE  PassedCount' = [PassedCount EXCEPT ![m] = k]
<1>1. ASSUME NEW n \in Missions \ {m}
      PROVE  request'[n] = request[n] /\ verdicts'[n] = verdicts[n]
  <2>1. CASE Begin(m)
    BY <2>1 DEF Begin, GateInv, MissionsOK
  <2>2. CASE \E i \in DOMAIN Gates : TakeGate(m, i)
    BY <2>2, Taken, GateFacts DEF TakeGate
  <2>3. QED
    BY <2>1, <2>2, OutsideGates DEF Step
<1>2. \A n \in Missions \ {m} : GatesPassed(n)' = GatesPassed(n)
  BY <1>1, Untouched
<1>3. QED
  BY <1>2 DEF PassedCount

LEMMA CountAfter ==
  ASSUME GateInv, NEW m \in Missions, Step(m) \/ Die(m)
  PROVE  \/ /\ GatesPassed(m)' = GatesPassed(m) /\ ~\E i \in DOMAIN Gates : TakeGate(m, i)
         \/ /\ GatesPassed(m)' \in {GatesPassed(m), GatesPassed(m) + 1}
            /\ GatesPassed(m) \in 0 .. 7
            /\ acts' = acts /\ at'[m] \notin Ended
<1>1. MissionsOK /\ InSequence(m)
  BY DEF GateInv
<1>2. CASE Begin(m)
  <2>1. SilentFrom(m, 1) /\ verdicts' = verdicts /\ ~\E i \in DOMAIN Gates : TakeGate(m, i)
    BY <1>1, <1>2, GatesAreNoSteps, GateFacts DEF InSequence, Opening, Begin, TakeGate
  <2>2. ~Approved(m, Gates[1]) /\ ~Approved(m, Gates[1])'
    BY <2>1, GateFacts DEF SilentFrom, Approved
  <2>3. ApprovedTo(m, 0) /\ ApprovedTo(m, 0)' /\ 0 \in 0 .. 8 /\ 0 + 1 = 1
    BY DEF ApprovedTo
  <2>4. GatesPassed(m) = 0 /\ GatesPassed(m)' = 0
    BY <2>2, <2>3, Counted8, CountedNext
  <2>5. QED
    BY <2>1, <2>4
<1>3. ASSUME NEW i \in 1 .. 8, TakeGate(m, i)
      PROVE  /\ GatesPassed(m)' \in {GatesPassed(m), GatesPassed(m) + 1}
             /\ GatesPassed(m) \in 0 .. 7
             /\ acts' = acts /\ at'[m] \notin Ended
  <2>1. ApprovedTo(m, i - 1) /\ SilentFrom(m, i) /\ request' = request /\ acts' = acts
    BY <1>3, Taken DEF TakeGate
  <2>2. GatesPassed(m) = i - 1
    BY <2>1, SilentCount
  <2>3. \A j \in 1 .. 8 \ {i} : Approved(m, Gates[j])' <=> Approved(m, Gates[j])
    BY <1>3, <2>1, Taken DEF Approved
  <2>4. ApprovedTo(m, i - 1)'
    <3>1. \A j \in 1 .. i - 1 : j \in 1 .. 8 \ {i}
      OBVIOUS
    <3>2. QED
      BY <2>1, <2>3, <3>1 DEF ApprovedTo
  <2>5. CASE ~Approved(m, Gates[i])'
    <3>1. i - 1 \in 0 .. 8 /\ (i - 1) + 1 = i
      OBVIOUS
    <3>2. GatesPassed(m)' = i - 1
      BY <2>4, <2>5, <3>1, CountedNext
    <3>3. at'[m] \notin Ended
      BY <1>3, <2>5, Taken DEF Ended
    <3>4. QED
      BY <2>1, <2>2, <3>2, <3>3
  <2>6. CASE Approved(m, Gates[i])'
    <3>1. ApprovedTo(m, i)'
      <4>1. \A j \in 1 .. i : j = i \/ j \in 1 .. i - 1
        OBVIOUS
      <4>2. QED
        BY <2>4, <2>6, <4>1 DEF ApprovedTo
    <3>2. i < 8 => ~Approved(m, Gates[i + 1])'
      <4>1. i < 8 => i + 1 \in 1 .. 8 \ {i} /\ i + 1 \in i .. 8
        OBVIOUS
      <4>2. i < 8 => verdicts[m][Gates[i + 1]] = "none"
        BY <2>1, <4>1, GateFacts DEF SilentFrom
      <4>3. QED
        BY <2>3, <4>1, <4>2 DEF Approved
    <3>3. GatesPassed(m)' = i
      <4>1. i \in 0 .. 8
        OBVIOUS
      <4>2. QED
        BY <3>1, <3>2, <4>1, CountedNext
    <3>4. at'[m] \in {"draft"} \cup {Gates[j] : j \in 1 .. 8}
      BY <1>3, <2>6, Taken
    <3>5. at'[m] \notin Ended
      BY <3>4, GatesAreNoSteps DEF Closing, Ended
    <3>6. QED
      BY <2>1, <2>2, <3>3, <3>5
  <2>7. QED
    BY <2>5, <2>6
<1>4. CASE \/ CheckDuplicate(m) \/ OpenOpportunity(m) \/ DraftEmail(m) \/ QuotePayment(m)
           \/ Pay(m) \/ Finalize(m) \/ Die(m)
  <2>1. GatesPassed(m)' = GatesPassed(m)
    BY <1>4, OutsideGates, Untouched
  <2>2. QED
    BY <1>3, <2>1, GateFacts
<1>5. QED
  BY <1>2, <1>3, <1>4, GateFacts DEF Step

LEMMA MapsStep ==
  ASSUME GateInv, NEW m \in Missions, Step(m) \/ Die(m)
  PROVE  \/ Promise!PassGate(m) \/ Promise!Act(m) \/ Promise!End(m)
         \/ PassedCount' = PassedCount /\ acts' = acts /\ Over' = Over
<1>1. MissionsOK /\ InSequence(m)
  BY DEF GateInv
<1>2. m \notin Over /\ Over' = IF at'[m] \in Ended THEN Over \cup {m} ELSE Over
  BY <1>1, OverAfter
<1>3. PassedCount[m] = GatesPassed(m) /\ Len(Gates) = 8
  BY GateFacts DEF PassedCount
<1>4. GatesPassed(m)' = GatesPassed(m) => PassedCount' = PassedCount
  <2>1. PassedCount = [PassedCount EXCEPT ![m] = GatesPassed(m)]
    BY DEF PassedCount
  <2>2. QED
    BY <2>1, OthersCount
<1>5. CASE acts' = acts /\ GatesPassed(m)' = GatesPassed(m)
  <2>1. CASE at'[m] \in Ended
    BY <1>2, <1>4, <1>5, <2>1 DEF Promise!End, PassedCount, Over
  <2>2. CASE at'[m] \notin Ended
    BY <1>2, <1>4, <1>5, <2>2
  <2>3. QED
    BY <2>1, <2>2
<1>6. CASE /\ acts' = acts /\ GatesPassed(m)' = GatesPassed(m) + 1
           /\ GatesPassed(m) \in 0 .. 7 /\ at'[m] \notin Ended
  <2>1. PassedCount' = [PassedCount EXCEPT ![m] = GatesPassed(m) + 1]
    BY <1>6, OthersCount
  <2>2. PassedCount' = [PassedCount EXCEPT ![m] = @ + 1]
    BY <1>3, <2>1
  <2>3. QED
    BY <1>2, <1>3, <1>6, <2>2 DEF Promise!PassGate, PassedCount, Over
<1>7. CASE acts' # acts
  <2>1. PICK act \in Acting : acts' = [acts EXCEPT ![m] = @ \cup {act}]
    BY <1>1, <1>7, Deeds
  <2>2. at[m] \in Acting
    BY <1>1, <1>7, Deeds, Ways DEF Acting
  <2>3. GatesPassed(m) = 8
    BY <1>1, <2>2, Counted8, GateFacts DEF InSequence
  <2>4. GatesPassed(m)' = GatesPassed(m)
    BY <2>3, CountAfter
  <2>5. QED
    BY <1>2, <1>3, <1>4, <2>1, <2>3, <2>4 DEF Promise!Act, PassedCount, Over, Acting
<1>8. QED
  BY <1>5, <1>6, <1>7, CountAfter

LEMMA InitGateInv == Init => GateInv
<1> SUFFICES ASSUME Init PROVE GateInv
  OBVIOUS
<1>1. \A m \in Missions : /\ at[m] = "idle" /\ acts[m] = {}
                          /\ verdicts[m] = [stage \in Stages |-> "none"]
  BY DEF Init, Stages
<1>2. MissionsOK
  BY <1>1 DEF Init, MissionsOK, Steps, Opening
<1>3. ASSUME NEW m \in Missions PROVE InSequence(m)
  <2>1. SilentFrom(m, 1)
    BY <1>1, GatesAreStages, GateFacts DEF SilentFrom
  <2>2. at[m] \in Opening
    BY <1>1 DEF Opening
  <2>3. QED
    BY <2>1, <2>2, GatesAreNoSteps, StepsDiffer, GateFacts DEF InSequence
<1>4. QED
  BY <1>2, <1>3 DEF GateInv

LEMMA StepGateInv == GateInv /\ [Next]_vars => GateInv'
<1>1. ASSUME GateInv, UNCHANGED vars PROVE GateInv'
  <2>1. /\ MissionsOK'
        /\ \A m \in Missions : InSequence(m)'
    BY <1>1 DEF vars, missionVars, GateInv, MissionsOK, InSequence, ApprovedTo, SilentFrom, Approved
  <2>2. QED
    BY <2>1 DEF GateInv
<1>2. QED
  BY <1>1, NextGateInv DEF Next

\* For any number of missions, requests and gate verdicts: a mission passes its gates
\* one after the other, drafts, quotes and pays only after all eight, and does nothing
\* after its end, wherever it dies and whatever verdict stops it (workflow.py:201, 222,
\* 249, 290, 322, 357, 396, 429).
THEOREM MissionsKeepTheirGates == Spec => ImplementsGates
<1>1. Init => Promise!Init
  <2> SUFFICES ASSUME Init PROVE Promise!Init
    OBVIOUS
  <2>1. \A m \in Missions : GatesPassed(m) = 0
    <3>1. ASSUME NEW m \in Missions PROVE SilentFrom(m, 1) /\ ApprovedTo(m, 1 - 1)
      BY InitGateInv DEF Init, GateInv, InSequence, Opening, ApprovedTo
    <3>2. QED
      BY <3>1, SilentCount
  <2>2. \A m \in Missions : at[m] \notin Ended
    BY DEF Init, Ended
  <2>3. QED
    BY <2>1, <2>2 DEF Init, Promise!Init
<1>2. GateInv /\ [Next]_vars => [Promise!Next]_(Promise!gateVars)
  <2>1. ASSUME GateInv, NEW m \in Missions, Step(m) \/ Die(m)
        PROVE  [Promise!Next]_(Promise!gateVars)
    BY <2>1, MapsStep DEF Promise!Next, Promise!gateVars, PassedCount, Over
  <2>2. ASSUME UNCHANGED vars PROVE UNCHANGED Promise!gateVars
    BY <2>2 DEF vars, missionVars, Promise!gateVars, GatesPassed, Approved
  <2>3. QED
    BY <2>1, <2>2 DEF Next
<1>3. QED
  BY <1>1, <1>2, InitGateInv, StepGateInv, PTL DEF Spec, ImplementsGates, Promise!Spec

-----------------------------------------------------------------------------
(* Nothing is done for an opportunity that was known.                        *)

\* A known URL is a duplicate, whatever else is different.
LEMMA KnownUrl ==
  ASSUME NEW candidate, NEW rows, NEW print \in rows, print.url = candidate.url
  PROVE  IsDuplicate(candidate, rows)
<1>1. MatchReason(candidate, print) = "exact_url_match"
  BY DEF MatchReason
<1>2. QED
  BY <1>1 DEF IsDuplicate, MatchReasons

LEMMA NextNothingTwice ==
  ASSUME GateInv, NothingTwice, NEW m \in Missions, Step(m) \/ Die(m)
  PROVE  NothingTwice'
<1>1. MissionsOK
  BY DEF GateInv
<1>2. known \subseteq known'
  BY DEF Step, Begin, CheckDuplicate, OpenOpportunity, TakeGate, DraftEmail, QuotePayment, Pay,
         Finalize, Die
<1>3. \A n \in Missions \ {m} :
        /\ at'[n] = at[n] /\ acts'[n] = acts[n] /\ request'[n] = request[n]
        /\ chosen'[n] = chosen[n] /\ knownBefore'[n] = knownBefore[n]
  <2>1. CASE Begin(m)
    BY <1>1, <2>1, Ways DEF Begin, MissionsOK
  <2>2. CASE \E i \in DOMAIN Gates : TakeGate(m, i)
    BY <1>1, <2>2, Ways DEF TakeGate
  <2>3. QED
    BY <1>1, <2>1, <2>2, Ways, OutsideGates DEF Step
<1>4. ASSUME NEW n \in Missions \ {m}
      PROVE  /\ knownBefore'[n] \subseteq known'
             /\ at'[n] \in {"idle", "selected"} => acts'[n] = {}
             /\ at'[n] \notin {"idle", "selected"} \cup Closing \/ acts'[n] # {} => IsNew(n)'
  BY <1>2, <1>3 DEF NothingTwice, IsNew, Document
<1>5. CASE Begin(m)
  <2>1. /\ at[m] = "idle" /\ at'[m] \in {"failed", "selected"} /\ acts' = acts
        /\ knownBefore'[m] = known
    BY <1>1, <1>5, Ways DEF Begin, MissionsOK
  <2>2. acts'[m] = {} /\ at'[m] \in {"idle", "selected"} \cup Closing
    BY <2>1 DEF NothingTwice, Closing, Ended
  <2>3. QED
    BY <1>2, <1>4, <2>1, <2>2 DEF NothingTwice
<1>6. ASSUME ~Begin(m)
      PROVE  request' = request /\ chosen' = chosen /\ knownBefore' = knownBefore
             /\ (IsNew(m)' <=> IsNew(m))
  <2>1. request' = request /\ chosen' = chosen /\ knownBefore' = knownBefore
    BY <1>6, OutsideGates DEF Step, TakeGate
  <2>2. QED
    BY <2>1 DEF IsNew, Document
<1>7. CASE CheckDuplicate(m)
  <2>1. at[m] = "selected" /\ at'[m] \in {"finalize", "fresh"} /\ acts' = acts
    BY <1>1, <1>7, Ways DEF CheckDuplicate
  <2>2. acts'[m] = {}
    BY <2>1 DEF NothingTwice
  <2>3. at'[m] = "fresh" => IsNew(m)
    <3>1. SUFFICES ASSUME at'[m] = "fresh", request[m].enforce, NEW row \in knownBefore[m],
                          row.print.url = Document(m).url
                   PROVE  FALSE
      BY DEF IsNew
    <3>2. ~(request[m].enforce /\ IsDuplicate(Fingerprint(Document(m)), {k.print : k \in known}))
      BY <1>1, <1>7, <3>1 DEF CheckDuplicate, Goto, MissionsOK
    <3>3. row.print \in {k.print : k \in known}
      BY DEF NothingTwice
    <3>4. Fingerprint(Document(m)).url = Document(m).url
      BY DEF Fingerprint
    <3>5. QED
      BY <3>1, <3>2, <3>3, <3>4, KnownUrl
  <2>4. ~Begin(m)
    BY <2>1 DEF Begin
  <2>5. QED
    BY <1>2, <1>4, <1>6, <2>1, <2>2, <2>3, <2>4 DEF NothingTwice, Closing
<1>8. CASE ~Begin(m) /\ ~CheckDuplicate(m)
  <2>1. at'[m] \notin {"idle", "selected"}
    <3>1. CASE \E i \in DOMAIN Gates : TakeGate(m, i)
      <4>1. at'[m] \in {"draft", "finalize"} \cup {Gates[j] : j \in 1 .. 8}
        BY <3>1, Taken, GateFacts
      <4>2. QED
        BY <4>1, GatesAreNoSteps DEF Opening
    <3>2. at'[m] = Gates[1] => at'[m] \notin {"idle", "selected"}
      BY GateFacts
    <3>3. QED
      BY <1>1, <1>8, <3>1, <3>2, Ways DEF Step
  <2>2. acts'[m] # {} => acts[m] # {} \/ at[m] \in Acting
    BY <1>1, Deeds, Ways DEF Acting
  <2>3. at'[m] \notin Closing => at[m] \notin {"idle", "selected"} \cup Closing
    <3>1. CASE \E i \in DOMAIN Gates : TakeGate(m, i)
      BY <3>1, GatesAreNoSteps, GateFacts DEF TakeGate, Opening
    <3>2. QED
      BY <1>1, <1>8, <3>1, Ways DEF Step, Closing, Ended
  <2>4. Acting \cap ({"idle", "selected"} \cup Closing) = {}
    BY DEF Acting, Closing, Ended
  <2>5. at'[m] \notin {"idle", "selected"} \cup Closing \/ acts'[m] # {} => IsNew(m)'
    BY <1>6, <1>8, <2>2, <2>3, <2>4 DEF NothingTwice
  <2>6. knownBefore'[m] \subseteq known'
    BY <1>2, <1>6, <1>8 DEF NothingTwice
  <2>7. QED
    BY <1>4, <2>1, <2>5, <2>6 DEF NothingTwice
<1>9. QED
  BY <1>5, <1>7, <1>8

\* A mission run again, after one that died or paid, does nothing for the same source
\* if that one's row was in the ledger when it began (workflow.py:165-182).
THEOREM RerunsDoNothing == Spec => []RerunHasNoEffect
<1>1. Init => NothingTwice
  BY DEF Init, NothingTwice
<1>2. GateInv /\ NothingTwice /\ [Next]_vars => NothingTwice'
  <2>1. ASSUME NothingTwice, UNCHANGED vars PROVE NothingTwice'
    BY <2>1 DEF vars, missionVars, NothingTwice, IsNew, Document
  <2>2. QED
    BY <2>1, NextNothingTwice DEF Next
<1>3. NothingTwice => RerunHasNoEffect
  BY DEF NothingTwice, RerunHasNoEffect, IsNew
<1>4. QED
  BY <1>1, <1>2, <1>3, InitGateInv, StepGateInv, PTL DEF Spec

-----------------------------------------------------------------------------
(* A payment is authorized by what its mission has on record.                *)

\* The plan is for what the document costs, and so is the policy request.
LEMMA Costs ==
  ASSUME NEW r \in MissionRequests, NEW d \in {r.documents[i] : i \in DOMAIN r.documents},
         NEW given
  PROVE  /\ RequiredSpend(d.page) \in Nat
         /\ BudgetRequest(r, d, given).maxLoss = RequiredSpend(d.page)
         /\ BudgetRequest(r, d, given).categories = {"purchase"}
         /\ TotalBudget(BudgetRequest(r, d, given)) = RequiredSpend(d.page)
         /\ ExecutionPolicyRequest(r, d).request.amount = RequiredSpend(d.page)
<1>1. PICK cost : cost = RequiredSpend(d.page)
  OBVIOUS
<1>2. d.page.amounts \in Seq(Nat)
  BY MissionAssumption
<1>3. cost \in Nat
  BY <1>1, <1>2 DEF RequiredSpend
<1>4. BudgetRequest(r, d, given).spend = cost /\ BudgetRequest(r, d, given).maxLoss = cost
      /\ BudgetRequest(r, d, given).fees = 0 /\ BudgetRequest(r, d, given).otherFees = 0
      /\ BudgetRequest(r, d, given).recurring = 0
      /\ BudgetRequest(r, d, given).categories = {"purchase"}
  BY <1>1 DEF BudgetRequest
<1>5. TotalBudget(BudgetRequest(r, d, given)) = cost
  BY <1>3, <1>4 DEF TotalBudget
<1>6. ExecutionPolicyRequest(r, d).request.amount = cost
  BY <1>1 DEF ExecutionPolicyRequest, PolicyRequest
<1>7. QED
  BY <1>1, <1>3, <1>4, <1>5, <1>6

\* What the policy was asked when there is something to pay.
LEMMA AskedForPayment ==
  ASSUME NEW r, NEW d, Pays(r, d)
  PROVE  LET policy == ExecutionPolicyRequest(r, d)
         IN  /\ policy.payment /\ policy.counterparty = r.payee
             /\ policy.tools = {"wallet_governor_client"}
             /\ policy.request.action = "purchase" /\ policy.request.category = "purchase"
             /\ policy.request.wallet
BY DEF ExecutionPolicyRequest, PolicyRequest, Pays

LEMMA AllowedIsCapped ==
  ASSUME NEW p, PolicyDecision(p) = "allow", p.action = "purchase"
  PROVE  ~(p.amount > MaxSingleSpend)
<1>1. Clear(BlockRules(p))
  BY DEF PolicyDecision
<1>2. BlockRules(p)["amount_over_single_spend_cap"] = (Spends(p) /\ p.amount > MaxSingleSpend)
      /\ "amount_over_single_spend_cap" \in DOMAIN BlockRules(p)
  BY DEF BlockRules
<1>3. ~BlockRules(p)["amount_over_single_spend_cap"]
  BY <1>1, <1>2 DEF Clear, Fired
<1>4. Spends(p)
  BY DEF Spends, SpendActions
<1>5. QED
  BY <1>2, <1>3, <1>4

SpendOf(m) ==
  [ mission |-> m, amount |-> HandoffAmount(m), counterparty |-> request[m].payee,
    category |-> "purchase",
    evidence |-> {kind \in DOMAIN EvidenceSubject : EvidenceSubject[kind] \in WalletSubjects} ]

\* Only the source document is about a record that the wallet request names.
LEMMA EvidenceOfSpend ==
  {kind \in DOMAIN EvidenceSubject : EvidenceSubject[kind] \in WalletSubjects}
    = {"source_document"}
BY DEF EvidenceSubject, WalletSubjects

LEMMA PaymentAuthorized ==
  ASSUME GateInv, Grounded, NEW m \in Missions, at[m] = "pay"
  PROVE  Authorized(SpendOf(m))
<1>1. PICK s : s = SpendOf(m)
  OBVIOUS
<1>2. PICK r : r = request[m]
  OBVIOUS
<1>3. PICK d : d = Document(m)
  OBVIOUS
<1>4. PICK given : given = verdicts[m]
  OBVIOUS
<1>5. PICK cost : cost = RequiredSpend(d.page)
  OBVIOUS
<1>6. r \in MissionRequests /\ chosen[m] \in DOMAIN r.documents /\ d = r.documents[chosen[m]]
      /\ r.payment
  BY <1>2, <1>3 DEF Grounded, Document, Ended
<1>7. /\ cost \in Nat
      /\ BudgetRequest(r, d, given).maxLoss = cost
      /\ BudgetRequest(r, d, given).categories = {"purchase"}
      /\ TotalBudget(BudgetRequest(r, d, given)) = cost
      /\ ExecutionPolicyRequest(r, d).request.amount = cost
  BY <1>5, <1>6, Costs
<1>8. s.mission = m /\ s.amount = cost /\ s.counterparty = r.payee /\ s.category = "purchase"
      /\ s.evidence = {"source_document"}
  BY <1>1, <1>2, <1>3, <1>4, <1>7, EvidenceOfSpend DEF SpendOf, HandoffAmount
<1>9. cost # 0 /\ Pays(r, d)
  <2>1. HandoffAmount(m) = cost
    BY <1>2, <1>3, <1>4, <1>7 DEF HandoffAmount
  <2>2. cost # 0
    BY <2>1 DEF Grounded
  <2>3. QED
    BY <1>5, <1>6, <1>7, <2>2 DEF Pays
<1>10. PICK policy : policy = ExecutionPolicyRequest(r, d)
  OBVIOUS
<1>11. /\ policy.payment /\ policy.counterparty = r.payee
       /\ policy.tools = {"wallet_governor_client"} /\ policy.request.amount = cost
       /\ policy.request.action = "purchase" /\ policy.request.category = "purchase"
       /\ policy.request.wallet
  BY <1>7, <1>9, <1>10, AskedForPayment
<1>12. /\ given.execution_policy = "allow" /\ given.budget = "execute_request"
       /\ given.tos_legal = "proceed"
  <2>1. \A i \in 1 .. 8 : Approved(m, Gates[i])
    BY GateFacts DEF GateInv, InSequence, Acting, ApprovedTo
  <2>2. Approved(m, Gates[6]) /\ Approved(m, Gates[4]) /\ Approved(m, Gates[3])
    BY <2>1
  <2>3. Approved(m, "execution_policy") /\ Approved(m, "budget") /\ Approved(m, "tos_legal")
    BY <2>2, GateFacts
  <2>4. QED
    BY <1>4, <2>3 DEF Approved
<1>13. PolicyDecision(policy.request) = "allow"
  BY <1>2, <1>3, <1>4, <1>10, <1>12 DEF Grounded, Executed
<1>14. ~(cost > MaxSingleSpend)
  BY <1>11, <1>13, AllowedIsCapped
<1>15. Clear(PolicyErrors(s))
  <2>1. DOMAIN PolicyErrors(s) =
          { "policy_not_allow", "policy_not_executable", "policy_amount_exceeded",
            "policy_counterparty_mismatch", "policy_category_mismatch" }
    BY DEF PolicyErrors
  <2>2. policy = ExecutionPolicyRequest(request[s.mission], Document(s.mission))
    BY <1>2, <1>3, <1>8, <1>10
  <2>3. ~PolicyErrors(s).policy_not_allow
    BY <1>4, <1>8, <1>12 DEF PolicyErrors
  <2>4. ~PolicyErrors(s).policy_not_executable
    BY <1>11, <2>2 DEF PolicyErrors, Spends, SpendActions
  <2>5. ~PolicyErrors(s).policy_amount_exceeded
    <3>1. ~(policy.request.amount < s.amount)
      BY <1>7, <1>8, <1>11
    <3>2. QED
      BY <2>2, <3>1, Zenon DEF PolicyErrors
  <2>6. ~PolicyErrors(s).policy_counterparty_mismatch /\ ~PolicyErrors(s).policy_category_mismatch
    BY <1>8, <1>11, <2>2 DEF PolicyErrors
  <2>7. QED
    BY <2>1, <2>3, <2>4, <2>5, <2>6 DEF Clear, Fired
<1>16. Clear(EvidenceErrors(s))
  <2>1. DOMAIN EvidenceErrors(s) =
          {"evidence_missing", "evidence_unrelated", "evidence_type_not_allowed"}
    BY DEF EvidenceErrors
  <2>2. ~EvidenceErrors(s).evidence_missing
    BY <1>8 DEF EvidenceErrors
  <2>3. EvidenceSubject["source_document"] = "opportunity"
    BY DEF EvidenceSubject
  <2>4. ~EvidenceErrors(s).evidence_unrelated
    BY <1>8, <2>3 DEF EvidenceErrors
  <2>5. ~EvidenceErrors(s).evidence_type_not_allowed
    BY <1>8 DEF EvidenceErrors, AllowedSpendEvidenceTypes
  <2>6. QED
    BY <2>1, <2>2, <2>4, <2>5 DEF Clear, Fired
<1>17. Clear(BundleErrors(s))
  <2>1. DOMAIN BundleErrors(s) =
          { "policy", "evidence", "budget_not_executable", "budget_amount_exceeded",
            "budget_wallet_spend_not_allowed", "tos_not_proceed", "category_unknown" }
    BY DEF BundleErrors
  <2>2. ~BundleErrors(s).policy /\ ~BundleErrors(s).evidence
    BY <1>15, <1>16 DEF BundleErrors
  <2>3. ~BundleErrors(s).budget_not_executable /\ ~BundleErrors(s).tos_not_proceed
    BY <1>4, <1>8, <1>12 DEF BundleErrors
  <2>4. PICK plan : plan = BudgetRequest(r, d, given)
    OBVIOUS
  <2>5. ~BundleErrors(s).budget_amount_exceeded
    <3>1. ~(s.amount > AtMost(plan.maxLoss, TotalBudget(plan)))
      BY <1>7, <1>8, <2>4 DEF AtMost
    <3>2. given = verdicts[s.mission]
          /\ plan = BudgetRequest(request[s.mission], Document(s.mission), verdicts[s.mission])
      BY <1>2, <1>3, <1>4, <1>8, <2>4
    <3>3. QED
      BY <3>1, <3>2, Zenon DEF BundleErrors
  <2>6. ~BundleErrors(s).budget_wallet_spend_not_allowed
    BY <1>2, <1>3, <1>4, <1>7, <1>8 DEF BundleErrors
  <2>7. ~BundleErrors(s).category_unknown
    BY <1>8 DEF BundleErrors, AllowedSpendCategories
  <2>8. QED
    BY <2>1, <2>2, <2>3, <2>5, <2>6, <2>7 DEF Clear, Fired
<1>18. s.amount <= Constraints(ExecutionPolicyRequest(request[s.mission], Document(s.mission)).request).maxSpend
  <2>1. Constraints(policy.request).maxSpend = IF cost < MaxSingleSpend THEN cost ELSE MaxSingleSpend
    BY <1>11 DEF Constraints, ResearchActions
  <2>2. QED
    BY <1>2, <1>3, <1>7, <1>8, <1>10, <1>14, <2>1, PolicyAssumption
<1>19. QED
  BY <1>1, <1>17, <1>18 DEF Authorized

LEMMA AuthorizedStays ==
  ASSUME NEW s, Authorized(s), request'[s.mission] = request[s.mission],
         chosen'[s.mission] = chosen[s.mission], verdicts'[s.mission] = verdicts[s.mission]
  PROVE  Authorized(s)'
<1>1. Document(s.mission)' = Document(s.mission)
  BY DEF Document
<1>2. PolicyErrors(s)' = PolicyErrors(s) /\ EvidenceErrors(s)' = EvidenceErrors(s)
  BY <1>1 DEF PolicyErrors, EvidenceErrors
<1>3. BundleErrors(s)' = BundleErrors(s)
  BY <1>1, <1>2 DEF BundleErrors
<1>4. QED
  BY <1>1, <1>3 DEF Authorized

\* A step of one mission is no step of another.
LEMMA OthersStay ==
  ASSUME GateInv, NEW m \in Missions, Step(m) \/ Die(m), NEW n \in Missions \ {m}
  PROVE  /\ at'[n] = at[n] /\ request'[n] = request[n] /\ chosen'[n] = chosen[n]
         /\ verdicts'[n] = verdicts[n]
<1>1. MissionsOK
  BY DEF GateInv
<1>2. CASE Begin(m)
  BY <1>1, <1>2, Ways DEF Begin, MissionsOK
<1>3. CASE \E i \in DOMAIN Gates : TakeGate(m, i)
  BY <1>3, Taken, GateFacts DEF TakeGate
<1>4. QED
  BY <1>1, <1>2, <1>3, Ways, OutsideGates DEF Step

LEMMA NextGrounded ==
  ASSUME GateInv, Grounded, NEW m \in Missions, Step(m) \/ Die(m)
  PROVE  Grounded'
<1> DEFINE Known(n) == request[n] \in MissionRequests /\ chosen[n] \in DOMAIN request[n].documents
           Said(n) == verdicts[n].execution_policy # "none" =>
                        verdicts[n].execution_policy = Executed(n)
           Paying(n) == at[n] = "pay" => request[n].payment /\ HandoffAmount(n) # 0
<1>1. MissionsOK /\ InSequence(m)
  BY DEF GateInv
<1>2. /\ at[m] \notin {"idle"} \cup Ended => Known(m)
      /\ Said(m) /\ Paying(m)
  BY DEF Grounded
<1>3. ASSUME NEW n \in Missions \ {m}
      PROVE  /\ at'[n] \notin {"idle"} \cup Ended => Known(n)'
             /\ Said(n)' /\ Paying(n)'
  <2>1. /\ at'[n] = at[n] /\ request'[n] = request[n] /\ chosen'[n] = chosen[n]
        /\ verdicts'[n] = verdicts[n]
    BY OthersStay
  <2>2. Document(n)' = Document(n)
    BY <2>1 DEF Document
  <2>3. QED
    BY <2>1, <2>2 DEF Grounded, Executed, HandoffAmount
<1>4. ASSUME at'[m] \notin {"idle"} \cup Ended => Known(m)', Said(m)', Paying(m)'
      PROVE  Grounded'
  <2>1. ASSUME NEW n \in Missions
        PROVE  /\ at'[n] \notin {"idle"} \cup Ended => Known(n)'
               /\ Said(n)' /\ Paying(n)'
    BY <1>3, <1>4
  <2>2. QED
    BY <2>1 DEF Grounded
<1>5. CASE Begin(m)
  <2>1. at[m] = "idle" /\ at'[m] \in {"failed", "selected"} /\ verdicts' = verdicts
    BY <1>1, <1>5, Ways DEF Begin
  <2>2. verdicts[m].execution_policy = "none"
    <3>1. verdicts[m][Gates[6]] = "none"
      BY <1>1, <2>1, GateFacts DEF InSequence, Opening, SilentFrom
    <3>2. QED
      BY <3>1, GateFacts
  <2>3. at'[m] = "selected" => Known(m)'
    <3>1. SUFFICES ASSUME at'[m] = "selected" PROVE Known(m)'
      OBVIOUS
    <3>2. PICK r \in MissionRequests :
            /\ request' = [request EXCEPT ![m] = r]
            /\ SelectedOpportunity(r.documents, {}) # {}
            /\ chosen' = [chosen EXCEPT ![m] = CHOOSE i \in SelectedOpportunity(r.documents, {}) : TRUE]
      BY <1>1, <1>5, <3>1 DEF Begin, Goto, MissionsOK
    <3>3. (CHOOSE i \in SelectedOpportunity(r.documents, {}) : TRUE)
            \in SelectedOpportunity(r.documents, {})
      BY <3>2
    <3>4. SelectedOpportunity(r.documents, {}) \subseteq DOMAIN r.documents
      BY DEF SelectedOpportunity
    <3>5. request'[m] = r /\ chosen'[m] \in DOMAIN r.documents
      BY <1>1, <3>2, <3>3, <3>4 DEF MissionsOK
    <3>6. QED
      BY <3>5
  <2>4. QED
    BY <1>4, <2>1, <2>2, <2>3 DEF Ended
<1>6. ASSUME ~Begin(m)
      PROVE  /\ request' = request /\ chosen' = chosen
             /\ at'[m] \notin {"idle"} \cup Ended => Known(m)'
             /\ Executed(m)' = Executed(m)
  <2>1. request' = request /\ chosen' = chosen
    BY <1>6, OutsideGates DEF Step, TakeGate
  <2>2. at[m] \notin {"idle"} \cup Ended
    <3>1. CASE \E i \in DOMAIN Gates : TakeGate(m, i)
      BY <3>1, GatesAreNoSteps, GateFacts DEF TakeGate, Opening, Closing
    <3>2. QED
      BY <1>1, <1>6, <3>1, GateFacts, Ways DEF Step, Ended
  <2>3. QED
    BY <1>2, <2>1, <2>2 DEF Executed, Document
<1>7. ASSUME NEW i \in 1 .. 8, TakeGate(m, i) PROVE Grounded'
  <2>1. at'[m] \in {"draft", "finalize"} \cup {Gates[j] : j \in 1 .. 8}
    BY <1>7, Taken
  <2>2. at'[m] # "pay" /\ ~Begin(m)
    BY <1>7, <2>1, GatesAreNoSteps, GateFacts DEF Acting, Opening, TakeGate, Begin
  <2>3. Said(m)'
    <3>1. CASE i = 6
      <4>1. verdicts'[m].execution_policy
              = Verdict("execution_policy", request[m], Document(m), verdicts[m])
        BY <1>7, <3>1, Taken, GateFacts
      <4>2. Verdict("execution_policy", request[m], Document(m), verdicts[m]) = Executed(m)
        BY DEF Verdict, Executed
      <4>3. QED
        BY <1>6, <2>2, <4>1, <4>2
    <3>2. CASE i # 6
      <4>1. verdicts'[m][Gates[6]] = verdicts[m][Gates[6]]
        BY <1>7, <3>2, Taken
      <4>2. QED
        BY <1>2, <1>6, <2>2, <4>1, GateFacts
    <3>3. QED
      BY <3>1, <3>2
  <2>4. QED
    BY <1>4, <1>6, <2>2, <2>3
<1>8. CASE \/ CheckDuplicate(m) \/ OpenOpportunity(m) \/ DraftEmail(m) \/ QuotePayment(m)
           \/ Pay(m) \/ Finalize(m) \/ Die(m)
  <2>1. ~Begin(m)
    BY <1>1, <1>8, GateFacts, Ways DEF Ended
  <2>2. Said(m)'
    <3>1. verdicts'[m][Gates[6]] = verdicts[m][Gates[6]]
      BY <1>8, OutsideGates
    <3>2. QED
      BY <1>2, <1>6, <2>1, <3>1, GateFacts
  <2>3. Paying(m)'
    <3>1. CASE QuotePayment(m) /\ at'[m] = "pay"
      <4>1. HandoffAmount(m) # 0 /\ request[m].payment
        BY <1>1, <3>1 DEF QuotePayment, Goto, MissionsOK
      <4>2. HandoffAmount(m)' = HandoffAmount(m) /\ request' = request
        BY <3>1 DEF QuotePayment, HandoffAmount, Document
      <4>3. QED
        BY <4>1, <4>2
    <3>2. CASE ~QuotePayment(m) \/ at'[m] # "pay"
      <4>1. at'[m] # "pay"
        BY <1>1, <1>8, <3>2, GateFacts, Ways
      <4>2. QED
        BY <4>1
    <3>3. QED
      BY <3>1, <3>2
  <2>4. QED
    BY <1>4, <1>6, <2>1, <2>2, <2>3
<1>9. QED
  BY <1>5, <1>7, <1>8, GateFacts DEF Step

LEMMA NextSpendsOK ==
  ASSUME SpendInv, NEW m \in Missions, Step(m) \/ Die(m)
  PROVE  SpendsOK'
<1>1. GateInv /\ Grounded /\ SpendsOK /\ MissionsOK
  BY DEF SpendInv, GateInv
<1>2. ASSUME NEW s \in spends
      PROVE  s.mission \in Missions /\ at'[s.mission] \in Closing /\ Authorized(s)'
  <2>1. s.mission \in Missions /\ at[s.mission] \in Closing /\ Authorized(s)
    BY <1>1 DEF SpendsOK
  <2>2. CASE s.mission # m
    BY <1>1, <2>1, <2>2, OthersStay, AuthorizedStays
  <2>3. CASE s.mission = m
    <3>1. Finalize(m) \/ Die(m)
      <4>1. ~\E i \in DOMAIN Gates : TakeGate(m, i)
        BY <2>1, <2>3, GatesAreNoSteps, GateFacts DEF TakeGate
      <4>2. QED
        BY <1>1, <2>1, <2>3, <4>1, Ways DEF Step, Closing
    <3>2. at'[m] \in Closing
      BY <1>1, <3>1, Ways DEF Closing, Ended
    <3>3. request' = request /\ chosen' = chosen /\ verdicts' = verdicts
      BY <3>1 DEF Finalize, Die
    <3>4. QED
      BY <2>1, <2>3, <3>2, <3>3, AuthorizedStays
  <2>4. QED
    BY <2>2, <2>3
<1>3. CASE Pay(m)
  <2>1. at[m] = "pay" /\ at'[m] = "finalize" /\ spends' = spends \cup {SpendOf(m)}
    BY <1>1, <1>3, Ways DEF Pay, SpendOf
  <2>2. PICK s : s = SpendOf(m)
    OBVIOUS
  <2>3. Authorized(s) /\ s.mission = m
    BY <1>1, <2>1, <2>2, PaymentAuthorized DEF SpendOf
  <2>4. request' = request /\ chosen' = chosen /\ verdicts' = verdicts
    BY <1>3 DEF Pay
  <2>5. Authorized(s)'
    BY <2>3, <2>4, AuthorizedStays
  <2>6. QED
    BY <1>2, <2>1, <2>2, <2>3, <2>5 DEF SpendsOK, Closing
<1>4. CASE spends' = spends
  BY <1>2, <1>4 DEF SpendsOK
<1>5. QED
  BY <1>3, <1>4 DEF Step, Begin, CheckDuplicate, OpenOpportunity, TakeGate, DraftEmail,
                    QuotePayment, Finalize, Die

\* Whatever a mission asks the wallet to pay, the plan, the policy decision, the terms
\* and the evidence its request names agree with the amount, the payee and the category,
\* for any configuration of the policy and any texts (workflow.py:503-520 against the
\* checks of wallet_governor_service service.py:580-690).
THEOREM SpendsAreAuthorized == Spec => []SpendIsAuthorized
<1>1. Init => SpendInv
  <2> SUFFICES ASSUME Init PROVE SpendInv
    OBVIOUS
  <2>1. \A m \in Missions : at[m] = "idle" /\ verdicts[m].execution_policy = "none"
    <3>1. "execution_policy" \in GateNames
      BY GateFacts, GatesAreStages
    <3>2. QED
      BY <3>1 DEF Init
  <2>2. Grounded /\ SpendsOK
    BY <2>1 DEF Init, Grounded, SpendsOK
  <2>3. QED
    BY <2>2, InitGateInv DEF SpendInv
<1>2. SpendInv /\ [Next]_vars => SpendInv'
  <2>1. ASSUME SpendInv, UNCHANGED vars PROVE Grounded' /\ SpendsOK'
    <3>1. ASSUME NEW s \in spends
          PROVE  s.mission \in Missions /\ at'[s.mission] \in Closing /\ Authorized(s)'
      BY <2>1, AuthorizedStays DEF SpendInv, SpendsOK, vars, missionVars
    <3>2. QED
      BY <2>1, <3>1 DEF vars, missionVars, SpendInv, Grounded, SpendsOK, Executed, Document,
                        HandoffAmount
  <2>2. ASSUME SpendInv, NEW m \in Missions, Step(m) \/ Die(m) PROVE SpendInv'
    BY <2>2, NextGateInv, NextGrounded, NextSpendsOK DEF SpendInv
  <2>3. QED
    BY <2>1, <2>2, StepGateInv DEF Next, SpendInv
<1>3. SpendInv => SpendIsAuthorized
  BY DEF SpendInv, SpendsOK, SpendIsAuthorized, Authorized
<1>4. QED
  BY <1>1, <1>2, <1>3, PTL DEF Spec
=============================================================================
