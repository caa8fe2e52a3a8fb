-------------------------- MODULE PluginStoresProofs --------------------------
(***************************************************************************)
(* Promotions out of the quarantine for any number of callers, downloads   *)
(* and calls: whatever dies between two steps, the ledger lists only       *)
(* evidence that has both its files, and a mark names listed evidence.     *)
(* And the schedule: what was written over and cut off hides no conflict.  *)
(***************************************************************************)
EXTENDS PluginStores, SequenceTheorems, TLAPS

\* What a promotion has left of its steps.
FromContent == <<"content", "metadata", "evidence", "mark", "log">>
FromMetadata == <<"metadata", "evidence", "mark", "log">>
FromEvidence == <<"evidence", "mark", "log">>
FromMark == <<"mark", "log">>
Promotions == {FromContent, FromMetadata, FromEvidence, FromMark}

FromStage == <<"stage", "describe_scan", "log">>
FromDescribe == <<"describe_scan", "log">>

Todos == Promotions \cup
  { <<>>, <<"log">>, <<"audit", "log">>, FromStage, FromDescribe,
    <<"write", "log">>, <<"audit", "write", "log">> }

\* A call is at one of its steps, and its own row is no evidence.
CallsOK ==
  /\ made \in Nat
  /\ DOMAIN calls = Callers
  /\ \A c \in Callers :
       /\ calls[c] = [todo |-> calls[c].todo, about |-> calls[c].about]
       /\ calls[c].todo \in Todos
       /\ calls[c].todo # <<>> => About(c).key[1] # "evidence"

\* A scan holds a file that the checks accepted.
ScansOK ==
  \A s \in DOMAIN scans :
    /\ scans[s] = [file |-> scans[s].file, status |-> scans[s].status, evidence |-> scans[s].evidence]
    /\ Accepted(scans[s].file)

\* The ids of artifacts have been made.
ArtifactsOK ==
  \A e \in DOMAIN artifacts :
    /\ e \in 1 .. made
    /\ artifacts[e] = [file |-> artifacts[e].file, described |-> artifacts[e].described]

\* A promotion that has stored the content has its scan's file in the archive.
Stored(c) ==
  /\ About(c).evidence \in DOMAIN artifacts
  /\ artifacts[About(c).evidence].file = scans[About(c).scan].file

\* What a call may rely on at each step.
Progress(c) ==
  /\ calls[c].todo = FromStage => Accepted(About(c).file)
  /\ calls[c].todo \in Promotions => About(c).scan \in DOMAIN scans
  /\ calls[c].todo = FromContent =>
       About(c).evidence \in 1 .. made /\ About(c).evidence \notin DOMAIN artifacts
  /\ calls[c].todo \in Promotions \ {FromContent} => Stored(c)
  /\ calls[c].todo \in {FromEvidence, FromMark} => Archived(About(c).evidence)
  /\ calls[c].todo = FromMark => EvidenceKey(About(c).evidence) \in DOMAIN rows

\* Each promotion archives under an evidence id of its own.
OwnEvidence ==
  \A c, d \in Callers :
    c # d /\ calls[c].todo = FromContent /\ calls[d].todo = FromContent
      => About(c).evidence # About(d).evidence

Listed == \A key \in DOMAIN rows : key[1] = "evidence" => Archived(key[2])

Marked ==
  \A s \in DOMAIN scans :
    scans[s].status = "promoted" =>
      /\ EvidenceKey(scans[s].evidence) \in DOMAIN rows
      /\ artifacts[scans[s].evidence].file = scans[s].file

PromotionInv ==
  /\ CallsOK /\ ScansOK /\ ArtifactsOK
  /\ \A c \in Callers : Progress(c)
  /\ OwnEvidence /\ Listed /\ Marked

-----------------------------------------------------------------------------
(* What remains of a call.                                                   *)

LEMMA Tails ==
  /\ Tail(FromContent) = FromMetadata
  /\ Tail(FromMetadata) = FromEvidence
  /\ Tail(FromEvidence) = FromMark
  /\ Tail(FromMark) = <<"log">>
  /\ Tail(FromStage) = FromDescribe
  /\ Tail(FromDescribe) = <<"log">>
  /\ Tail(<<"audit", "log">>) = <<"log">>
  /\ Tail(<<"write", "log">>) = <<"log">>
  /\ Tail(<<"audit", "write", "log">>) = <<"write", "log">>
  /\ Tail(<<"log">>) = <<>>
BY DEF FromContent, FromMetadata, FromEvidence, FromMark, FromStage, FromDescribe

LEMMA Firsts ==
  ASSUME NEW c \in Callers, CallsOK
  PROVE  /\ At(c, "stage") => calls[c].todo = FromStage
         /\ At(c, "describe_scan") => calls[c].todo = FromDescribe
         /\ At(c, "content") => calls[c].todo = FromContent
         /\ At(c, "metadata") => calls[c].todo = FromMetadata
         /\ At(c, "evidence") => calls[c].todo = FromEvidence
         /\ At(c, "mark") => calls[c].todo = FromMark
         /\ At(c, "log") => calls[c].todo = <<"log">>
         /\ At(c, "audit") => calls[c].todo \in {<<"audit", "log">>, <<"audit", "write", "log">>}
         /\ At(c, "write") => calls[c].todo = <<"write", "log">>
BY DEF CallsOK, At, Todos, Promotions, FromContent, FromMetadata, FromEvidence, FromMark,
       FromStage, FromDescribe

LEMMA Distinct ==
  /\ FromContent \notin {<<>>, <<"log">>, <<"write", "log">>, FromMetadata, FromEvidence, FromMark, FromStage, FromDescribe}
  /\ FromMetadata \notin {<<>>, <<"log">>, <<"write", "log">>, FromEvidence, FromMark, FromStage, FromDescribe}
  /\ FromEvidence \notin {<<>>, <<"log">>, <<"write", "log">>, FromMark, FromStage, FromDescribe}
  /\ FromMark \notin {<<>>, <<"log">>, <<"write", "log">>, FromStage, FromDescribe}
  /\ FromStage \notin {<<>>, <<"log">>, <<"write", "log">>, FromDescribe}
  /\ FromDescribe \notin {<<>>, <<"log">>, <<"write", "log">>}
  /\ <<"audit", "log">> \notin {<<>>, FromStage} \cup Promotions
  /\ <<"audit", "write", "log">> \notin {<<>>, FromStage} \cup Promotions
  /\ <<"write", "log">> # <<>> /\ <<"log">> # <<>>
BY DEF FromContent, FromMetadata, FromEvidence, FromMark, FromStage, FromDescribe, Promotions

LEMMA Moves ==
  ASSUME NEW c \in Callers, CallsOK, calls[c].todo # <<>>, Done(c)
  PROVE  /\ DOMAIN calls' = Callers
         /\ \A d \in Callers \ {c} : calls'[d] = calls[d]
         /\ calls'[c] = [todo |-> calls'[c].todo, about |-> calls'[c].about]
         /\ calls'[c].todo # <<>> => calls'[c].about = calls[c].about
         /\ calls[c].todo = FromStage => calls'[c].todo = FromDescribe
         /\ calls[c].todo = FromContent => calls'[c].todo = FromMetadata
         /\ calls[c].todo = FromMetadata => calls'[c].todo = FromEvidence
         /\ calls[c].todo = FromEvidence => calls'[c].todo = FromMark
         /\ calls[c].todo \notin Promotions \cup {FromStage} =>
              calls'[c].todo \in {<<>>, <<"log">>, <<"write", "log">>}
         /\ calls[c].todo = FromMark => calls'[c].todo = <<"log">>
<1> DEFINE k == calls[c]
<1>1. /\ k.todo \in Todos \ {<<>>} /\ DOMAIN calls = Callers
  BY DEF CallsOK
<1>2. /\ DOMAIN calls' = Callers /\ \A d \in Callers \ {c} : calls'[d] = calls[d]
      /\ calls'[c] = [todo |-> Tail(k.todo), about |-> IF Tail(k.todo) = <<>> THEN Nothing ELSE k.about]
  BY <1>1 DEF Done, Call, About
<1>3. calls'[c].todo = Tail(k.todo) /\ (Tail(k.todo) # <<>> => calls'[c].about = k.about)
  BY <1>2
<1>4. calls'[c] = [todo |-> calls'[c].todo, about |-> calls'[c].about]
  BY <1>2
<1>5. k.todo \notin Promotions \cup {FromStage} => Tail(k.todo) \in {<<>>, <<"log">>, <<"write", "log">>}
  BY <1>1, Tails DEF Todos
<1>6. QED
  BY <1>1, <1>2, <1>3, <1>4, <1>5, Tails

-----------------------------------------------------------------------------
(* Nothing that was written is taken back.                                   *)

Kept ==
  /\ made' \in Nat /\ made <= made'
  /\ DOMAIN scans \subseteq DOMAIN scans'
  /\ \A s \in DOMAIN scans : scans'[s].file = scans[s].file
  /\ DOMAIN artifacts \subseteq DOMAIN artifacts'
  /\ \A e \in DOMAIN artifacts :
       artifacts'[e].file = artifacts[e].file /\ (artifacts[e].described => artifacts'[e].described)
  /\ DOMAIN rows \subseteq DOMAIN rows'

\* The other callers stay where they are, with evidence ids of their own.
Apart(c) ==
  \A d \in Callers \ {c} :
    /\ calls'[d] = calls[d]
    /\ calls[d].todo = FromContent =>
         /\ About(d).evidence \notin DOMAIN artifacts'
         /\ calls'[c].todo = FromContent => About(d).evidence # calls'[c].about.evidence

LEMMA OtherProgress ==
  ASSUME PromotionInv, NEW c \in Callers, Kept, Apart(c), NEW d \in Callers \ {c}
  PROVE  Progress(d)'
<1>1. Progress(d) /\ calls'[d] = calls[d] /\ About(d)' = About(d)
  BY DEF PromotionInv, Apart, About
<1>2. (calls[d].todo = FromContent => About(d).evidence \in 1 .. made /\ About(d).evidence \notin DOMAIN artifacts)'
  BY <1>1 DEF Progress, Apart, Kept, PromotionInv, CallsOK
<1>3. (calls[d].todo \in Promotions => About(d).scan \in DOMAIN scans)'
  BY <1>1 DEF Progress, Kept
<1>4. calls[d].todo \in Promotions \ {FromContent} => Stored(d)'
  BY <1>1 DEF Progress, Kept, Stored, Promotions
<1>5. (calls[d].todo \in {FromEvidence, FromMark} => Archived(About(d).evidence))'
  BY <1>1 DEF Progress, Kept, Archived
<1>6. (calls[d].todo = FromMark => EvidenceKey(About(d).evidence) \in DOMAIN rows)'
  BY <1>1 DEF Progress, Kept, EvidenceKey
<1>7. QED
  BY <1>1, <1>2, <1>3, <1>4, <1>5, <1>6 DEF Progress

LEMMA Preserved ==
  ASSUME PromotionInv, NEW c \in Callers, Kept, Apart(c), Progress(c)',
         CallsOK', ScansOK', ArtifactsOK', Listed', Marked'
  PROVE  PromotionInv'
<1>1. \A d \in Callers : Progress(d)'
  BY OtherProgress
<1>2. OwnEvidence'
  BY DEF PromotionInv, OwnEvidence, Apart, About
<1>3. QED
  BY <1>1, <1>2 DEF PromotionInv

LEMMA MarksKept ==
  ASSUME Listed, Marked, Kept,
         \A s \in DOMAIN scans' : scans'[s].status = "promoted" =>
           s \in DOMAIN scans /\ scans[s].status = "promoted" /\ scans'[s].evidence = scans[s].evidence
  PROVE  Marked'
<1> SUFFICES ASSUME NEW s \in DOMAIN scans', scans'[s].status = "promoted"
             PROVE  /\ EvidenceKey(scans'[s].evidence) \in DOMAIN rows'
                    /\ artifacts'[scans'[s].evidence].file = scans'[s].file
  BY DEF Marked, EvidenceKey
<1> DEFINE e == scans[s].evidence
<1>1. EvidenceKey(e) \in DOMAIN rows /\ artifacts[e].file = scans[s].file
      /\ scans'[s].evidence = e /\ s \in DOMAIN scans
  BY DEF Marked
<1>2. Archived(e)
  <2>1. EvidenceKey(e)[1] = "evidence" /\ EvidenceKey(e)[2] = e
    BY DEF EvidenceKey
  <2>2. QED
    BY <1>1, <2>1 DEF Listed
<1>3. QED
  BY <1>1, <1>2 DEF Kept, Archived

-----------------------------------------------------------------------------
(* The calls begin.                                                          *)

LEMMA Starts ==
  ASSUME PromotionInv, NEW c \in Callers, NEW todo \in Todos \ {<<>>}, NEW about,
         Call(c, todo, about), made' = FreshId, UNCHANGED <<scans, artifacts, rows>>,
         about.key[1] # "evidence",
         todo = FromStage => Accepted(about.file),
         todo \in Promotions =>
           todo = FromContent /\ about.scan \in DOMAIN scans /\ about.evidence = FreshId
  PROVE  PromotionInv'
<1>1. made' = made + 1 /\ made \in Nat
  BY DEF FreshId, PromotionInv, CallsOK
<1>2. calls'[c] = [todo |-> todo, about |-> about] /\ About(c)' = about
      /\ DOMAIN calls' = Callers /\ \A d \in Callers \ {c} : calls'[d] = calls[d]
  BY DEF Call, About, PromotionInv, CallsOK
<1>3. Kept
  BY <1>1 DEF Kept
<1>4. Apart(c)
  <2>1. ASSUME NEW d \in Callers \ {c}, calls[d].todo = FromContent
        PROVE  About(d).evidence \in 1 .. made /\ About(d).evidence \notin DOMAIN artifacts
    BY <2>1 DEF PromotionInv, Progress
  <2>2. todo = FromContent => about.evidence = made + 1
    BY DEF FreshId, Promotions
  <2>3. QED
    BY <1>1, <1>2, <2>1, <2>2 DEF Apart
<1>5. CallsOK'
  BY <1>1, <1>2 DEF CallsOK, PromotionInv, About
<1>6. ArtifactsOK'
  BY <1>1 DEF ArtifactsOK, PromotionInv
<1>7. ScansOK' /\ Listed' /\ Marked'
  BY DEF ScansOK, Listed, Marked, PromotionInv, Archived, EvidenceKey
<1>8. Progress(c)'
  <2>1. FreshId \in 1 .. made' /\ FreshId \notin DOMAIN artifacts
    BY <1>1 DEF PromotionInv, ArtifactsOK, FreshId
  <2>2. todo \in Promotions => todo \notin {FromStage, FromEvidence, FromMark, FromMetadata}
    BY Distinct
  <2>3. QED
    BY <1>2, <2>1, <2>2 DEF Progress, Promotions
<1>9. QED
  BY <1>3, <1>4, <1>5, <1>6, <1>7, <1>8, Preserved

LEMMA Begins ==
  ASSUME PromotionInv, NEW c \in Callers, Ingest(c) \/ Promote(c) \/ Schedule(c) \/ Summarize(c)
  PROVE  PromotionInv'
<1>1. CASE Ingest(c)
  <2>1. PICK f \in Downloads :
          Call(c, IF Accepted(f) THEN IngestSteps ELSE RejectSteps,
               [scan |-> FreshId, file |-> f, key |-> ScanKey(FreshId),
                payload |-> IF Accepted(f) THEN "staged" ELSE "rejected"])
    BY <1>1 DEF Ingest
  <2> DEFINE about == [scan |-> FreshId, file |-> f, key |-> ScanKey(FreshId),
                       payload |-> IF Accepted(f) THEN "staged" ELSE "rejected"]
  <2>2. about.key[1] # "evidence" /\ about.file = f
    BY DEF ScanKey
  <2>3. made' = FreshId /\ UNCHANGED <<scans, artifacts, rows>>
    BY <1>1 DEF Ingest
  <2> HIDE DEF about
  <2>4. CASE Accepted(f)
    <3>1. Call(c, FromStage, about) /\ FromStage \in Todos \ {<<>>} /\ FromStage \notin Promotions
      BY <2>1, <2>4, Distinct DEF about, IngestSteps, FromStage, Todos, Promotions
    <3>2. QED
      BY <2>2, <2>3, <2>4, <3>1, Starts
  <2>5. CASE ~Accepted(f)
    <3>1. Call(c, <<"audit", "log">>, about) /\ <<"audit", "log">> \in Todos \ {<<>>}
          /\ <<"audit", "log">> \notin Promotions \cup {FromStage}
      BY <2>1, <2>5, Distinct DEF about, RejectSteps, Todos
    <3>2. QED
      BY <2>2, <2>3, <3>1, Starts
  <2>6. QED
    BY <2>4, <2>5
<1>2. CASE Promote(c)
  <2>1. PICK scan \in DOMAIN scans :
          Call(c, PromoteSteps, [scan |-> scan, evidence |-> FreshId, key |-> ScanKey(scan),
                                 payload |-> "promoted"])
    BY <1>2 DEF Promote
  <2> DEFINE about == [scan |-> scan, evidence |-> FreshId, key |-> ScanKey(scan), payload |-> "promoted"]
  <2>2. about.key[1] # "evidence" /\ about.scan = scan /\ about.evidence = FreshId
    BY DEF ScanKey
  <2>3. made' = FreshId /\ UNCHANGED <<scans, artifacts, rows>>
    BY <1>2 DEF Promote
  <2>4. Call(c, FromContent, about)
    BY <2>1 DEF PromoteSteps, FromContent
  <2> HIDE DEF about
  <2>5. FromContent \in Todos \ {<<>>} /\ FromContent # FromStage
    BY Distinct DEF Todos, Promotions
  <2>6. QED
    BY <2>2, <2>3, <2>4, <2>5, Starts
<1>3. CASE Schedule(c)
  <2>1. PICK todo, about :
          /\ Call(c, todo, about) /\ todo \in {<<"audit", "write", "log">>, <<"write", "log">>}
          /\ about.key = <<"deadline_event", FreshId>>
    BY <1>3 DEF Schedule
  <2>2. made' = FreshId /\ UNCHANGED <<scans, artifacts, rows>>
    BY <1>3 DEF Schedule
  <2>3. about.key[1] # "evidence"
    BY <2>1
  <2>4. todo \in Todos \ {<<>>} /\ todo \notin Promotions \cup {FromStage}
    BY <2>1, Distinct DEF Todos, Promotions
  <2>5. QED
    BY <2>1, <2>2, <2>3, <2>4, Starts
<1>4. CASE Summarize(c)
  <2>1. PICK about : Call(c, <<"log">>, about) /\ about.key = <<"deadline_event", FreshId>>
    BY <1>4 DEF Summarize
  <2>2. made' = FreshId /\ UNCHANGED <<scans, artifacts, rows>>
    BY <1>4 DEF Summarize
  <2>3. about.key[1] # "evidence"
    BY <2>1
  <2>4. <<"log">> \in Todos \ {<<>>} /\ <<"log">> \notin Promotions \cup {FromStage}
    BY Distinct DEF Todos, Promotions
  <2>5. QED
    BY <2>1, <2>2, <2>3, <2>4, Starts
<1>5. QED
  BY <1>1, <1>2, <1>3, <1>4

-----------------------------------------------------------------------------
(* The calls go on.                                                          *)

\* What holds of the calls after any step.
LEMMA Continues ==
  ASSUME PromotionInv, NEW c \in Callers, calls[c].todo # <<>>, Done(c), made' = made
  PROVE  /\ CallsOK'
         /\ \A d \in Callers \ {c} : calls'[d] = calls[d]
         /\ calls'[c].todo \notin {FromContent, FromStage}
         /\ calls'[c].todo # <<>> => calls'[c].about = calls[c].about
<1>1. CallsOK
  BY DEF PromotionInv
<1>2. calls'[c].todo \in Todos \ {FromContent, FromStage}
  BY <1>1, Moves, Distinct DEF CallsOK, Todos, Promotions
<1>3. CallsOK'
  <2>1. DOMAIN calls' = Callers /\ made' \in Nat
    BY <1>1, Moves DEF CallsOK
  <2>2. /\ calls'[c] = [todo |-> calls'[c].todo, about |-> calls'[c].about]
        /\ calls'[c].todo # <<>> => calls'[c].about.key[1] # "evidence"
    BY <1>1, Moves DEF CallsOK, About
  <2>3. \A d \in Callers \ {c} : calls'[d] = calls[d]
    BY <1>1, Moves
  <2>4. QED
    BY <1>1, <1>2, <2>1, <2>2, <2>3 DEF CallsOK, About
<1>4. QED
  BY <1>1, <1>2, <1>3, Moves

\* What a step that leaves the archive alone need not say again.
LEMMA Quiet ==
  ASSUME PromotionInv, NEW c \in Callers, calls[c].todo # <<>>, Done(c), made' = made,
         DOMAIN artifacts' = DOMAIN artifacts
  PROVE  Apart(c)
<1>1. \A d \in Callers \ {c} : calls[d].todo = FromContent => About(d).evidence \notin DOMAIN artifacts
  BY DEF PromotionInv, Progress
<1>2. QED
  BY <1>1, Continues DEF Apart

LEMMA StagingSteps ==
  ASSUME PromotionInv, NEW c \in Callers, StageFile(c) \/ DescribeScan(c)
  PROVE  PromotionInv'
<1>1. CallsOK /\ ScansOK /\ ArtifactsOK /\ Progress(c) /\ Listed /\ Marked
  BY DEF PromotionInv
<1>2. Done(c) /\ UNCHANGED <<artifacts, rows, made>> /\ calls[c].todo # <<>>
  BY DEF StageFile, DescribeScan, At
<1>3. CallsOK' /\ Apart(c)
  BY <1>2, Continues, Quiet
<1>4. ArtifactsOK' /\ Listed'
  BY <1>1, <1>2 DEF ArtifactsOK, Listed, Archived
<1>5. CASE StageFile(c)
  <2>1. calls[c].todo = FromStage /\ Accepted(About(c).file)
    BY <1>1, <1>5, Firsts DEF StageFile, Progress
  <2>2. calls'[c].todo = FromDescribe
    BY <1>1, <1>2, <2>1, Moves
  <2>3. /\ DOMAIN scans' = DOMAIN scans \cup {About(c).scan}
        /\ \A s \in DOMAIN scans : scans'[s] = scans[s]
        /\ About(c).scan \notin DOMAIN scans =>
             scans'[About(c).scan] = [file |-> About(c).file, status |-> "none", evidence |-> NoEvidence]
    BY <1>5 DEF StageFile, Added
  <2>4. ScansOK'
    BY <1>1, <2>1, <2>3 DEF ScansOK, Accepted
  <2>5. Kept
    BY <1>1, <1>2, <2>3 DEF Kept, CallsOK
  <2>6. Marked'
    BY <1>1, <2>3, <2>5, MarksKept
  <2>7. Progress(c)'
    BY <2>2, Distinct DEF Progress, Promotions
  <2>8. QED
    BY <1>3, <1>4, <2>4, <2>5, <2>6, <2>7, Preserved
<1>6. CASE DescribeScan(c)
  <2>1. calls[c].todo = FromDescribe
    BY <1>1, <1>6, Firsts DEF DescribeScan
  <2>2. calls'[c].todo \in {<<>>, <<"log">>, <<"write", "log">>}
    BY <1>1, <1>2, <2>1, Moves, Distinct DEF Promotions
  <2>3. /\ DOMAIN scans' = DOMAIN scans
        /\ \A s \in DOMAIN scans :
             scans'[s] = IF s = About(c).scan THEN [scans[s] EXCEPT !.status = "staged"] ELSE scans[s]
    BY <1>6 DEF DescribeScan
  <2>4. \A s \in DOMAIN scans :
          /\ scans'[s].file = scans[s].file /\ scans'[s].evidence = scans[s].evidence
          /\ scans'[s] = [file |-> scans'[s].file, status |-> scans'[s].status, evidence |-> scans'[s].evidence]
          /\ scans'[s].status = "promoted" => scans[s].status = "promoted"
    BY <1>1, <2>3 DEF ScansOK
  <2>5. ScansOK'
    BY <1>1, <2>3, <2>4 DEF ScansOK, Accepted
  <2>6. Kept
    BY <1>1, <1>2, <2>3, <2>4 DEF Kept, CallsOK
  <2>7. Marked'
    BY <1>1, <2>3, <2>4, <2>6, MarksKept
  <2>8. Progress(c)'
    BY <2>2, Distinct DEF Progress, Promotions
  <2>9. QED
    BY <1>3, <1>4, <2>5, <2>6, <2>7, <2>8, Preserved
<1>7. QED
  BY <1>5, <1>6

LEMMA LedgerRows ==
  ASSUME PromotionInv, NEW c \in Callers, RecordEvidence(c) \/ Log(c) \/ Audit(c)
  PROVE  PromotionInv'
<1>1. CallsOK /\ ScansOK /\ ArtifactsOK /\ Progress(c) /\ Listed /\ Marked
  BY DEF PromotionInv
<1>2. Done(c) /\ UNCHANGED <<scans, artifacts, made>> /\ calls[c].todo # <<>>
  BY DEF RecordEvidence, Log, Audit, At
<1>3. CallsOK' /\ Apart(c)
  BY <1>2, Continues, Quiet
<1>4. ScansOK' /\ ArtifactsOK'
  BY <1>1, <1>2 DEF ArtifactsOK, ScansOK
<1>5. ASSUME NEW key, DOMAIN rows' = DOMAIN rows \cup {key}, key[1] = "evidence" => Archived(key[2])
      PROVE  Kept /\ Listed' /\ Marked'
  <2>1. Kept
    BY <1>1, <1>2, <1>5 DEF Kept, CallsOK
  <2>2. Listed'
    BY <1>1, <1>2, <1>5 DEF Listed, Archived
  <2>3. Marked'
    BY <1>1, <1>2, <2>1, MarksKept
  <2>4. QED
    BY <2>1, <2>2, <2>3
<1>6. CASE RecordEvidence(c)
  <2> DEFINE e == About(c).evidence
  <2>1. calls[c].todo = FromEvidence /\ calls'[c].todo = FromMark /\ About(c)' = About(c)
    <3>1. calls[c].todo = FromEvidence
      BY <1>1, <1>6, Firsts DEF RecordEvidence
    <3>2. calls'[c].todo = FromMark
      BY <1>1, <1>2, <3>1, Moves
    <3>3. QED
      BY <1>1, <1>2, <3>1, <3>2, Moves, Distinct DEF About
  <2>2. Archived(e) /\ Stored(c) /\ About(c).scan \in DOMAIN scans
    BY <1>1, <2>1, Distinct DEF Progress, Promotions
  <2>3. DOMAIN rows' = DOMAIN rows \cup {EvidenceKey(e)}
    BY <1>6 DEF RecordEvidence, Record, Added
  <2>4. EvidenceKey(e)[1] = "evidence" /\ EvidenceKey(e)[2] = e
    BY DEF EvidenceKey
  <2>5. Kept /\ Listed' /\ Marked'
    BY <1>5, <2>2, <2>3, <2>4
  <2>6. Progress(c)'
    BY <1>2, <2>1, <2>2, <2>3, Distinct DEF Progress, Stored, Archived, EvidenceKey, Promotions
  <2>7. QED
    BY <1>3, <1>4, <2>5, <2>6, Preserved
<1>7. CASE Log(c) \/ Audit(c)
  <2>1. calls[c].todo \in {<<"log">>, <<"audit", "log">>, <<"audit", "write", "log">>}
    BY <1>1, <1>7, Firsts DEF Log, Audit
  <2>2. calls'[c].todo \in {<<>>, <<"log">>, <<"write", "log">>}
    BY <1>1, <1>2, <2>1, Moves, Distinct DEF Promotions
  <2>3. PICK key : DOMAIN rows' = DOMAIN rows \cup {key} /\ key[1] # "evidence"
    <3>1. CASE Log(c)
      <4>1. DOMAIN rows' = DOMAIN rows \cup {About(c).key}
        BY <3>1 DEF Log, Record, Added
      <4>2. QED
        BY <1>1, <1>2, <4>1 DEF CallsOK
    <3>2. CASE Audit(c)
      <4>1. DOMAIN rows' = DOMAIN rows \cup {<<"audit", About(c).key>>}
        BY <3>2 DEF Audit, Record, Added
      <4>2. <<"audit", About(c).key>>[1] # "evidence"
        OBVIOUS
      <4>3. QED
        BY <4>1, <4>2
    <3>3. QED
      BY <1>7, <3>1, <3>2
  <2>4. Kept /\ Listed' /\ Marked'
    BY <1>5, <2>3
  <2>5. Progress(c)'
    BY <2>2, Distinct DEF Progress, Promotions
  <2>6. QED
    BY <1>3, <1>4, <2>4, <2>5, Preserved
<1>8. QED
  BY <1>6, <1>7

LEMMA ArchiveSteps ==
  ASSUME PromotionInv, NEW c \in Callers, StoreContent(c) \/ StoreMetadata(c)
  PROVE  PromotionInv'
<1> DEFINE e == About(c).evidence
<1>1. CallsOK /\ ScansOK /\ ArtifactsOK /\ Progress(c) /\ Listed /\ Marked
  BY DEF PromotionInv
<1>2. Done(c) /\ UNCHANGED <<scans, rows, made>> /\ calls[c].todo # <<>>
  BY DEF StoreContent, StoreMetadata, At
<1>3. CallsOK' /\ ScansOK'
  BY <1>1, <1>2, Continues DEF ScansOK
<1>4. ASSUME NEW next \in {FromMetadata, FromEvidence}, calls'[c].todo = next
      PROVE  About(c)' = About(c)
  BY <1>1, <1>2, <1>4, Moves, Distinct DEF About
<1>5. ASSUME Kept, \A x \in DOMAIN artifacts : Archived(x) => Archived(x)'
      PROVE  Listed' /\ Marked'
  <2>1. Listed'
    BY <1>1, <1>2, <1>5 DEF Listed, Archived
  <2>2. Marked'
    BY <1>1, <1>2, <1>5, MarksKept
  <2>3. QED
    BY <2>1, <2>2
<1>6. CASE StoreContent(c)
  <2>1. calls[c].todo = FromContent /\ calls'[c].todo = FromMetadata
    BY <1>1, <1>2, <1>6, Firsts, Moves DEF StoreContent
  <2>2. e \in 1 .. made /\ e \notin DOMAIN artifacts /\ About(c).scan \in DOMAIN scans
    BY <1>1, <2>1 DEF Progress, Promotions
  <2>3. /\ DOMAIN artifacts' = DOMAIN artifacts \cup {e}
        /\ \A x \in DOMAIN artifacts : artifacts'[x] = artifacts[x]
        /\ artifacts'[e] = [file |-> scans[About(c).scan].file, described |-> FALSE]
    BY <1>6, <2>2 DEF StoreContent, Added
  <2>4. Kept /\ Listed' /\ Marked'
    <3>1. Kept
      BY <1>1, <1>2, <2>3 DEF Kept, CallsOK
    <3>2. \A x \in DOMAIN artifacts : Archived(x) => Archived(x)'
      BY <2>3 DEF Archived
    <3>3. QED
      BY <1>5, <3>1, <3>2
  <2>5. Apart(c)
    <3>1. ASSUME NEW d \in Callers \ {c}, calls[d].todo = FromContent
          PROVE  About(d).evidence # e /\ About(d).evidence \notin DOMAIN artifacts
      BY <2>1, <3>1 DEF PromotionInv, OwnEvidence, Progress
    <3>2. QED
      BY <1>1, <1>2, <2>1, <2>3, <3>1, Continues DEF Apart
  <2>6. ArtifactsOK'
    BY <1>1, <1>2, <2>2, <2>3 DEF ArtifactsOK
  <2>7. Progress(c)'
    BY <1>2, <1>4, <2>1, <2>2, <2>3, Distinct DEF Progress, Stored, Promotions
  <2>8. QED
    BY <1>3, <2>4, <2>5, <2>6, <2>7, Preserved
<1>7. CASE StoreMetadata(c)
  <2>1. calls[c].todo = FromMetadata /\ calls'[c].todo = FromEvidence
    BY <1>1, <1>2, <1>7, Firsts, Moves DEF StoreMetadata
  <2>2. Stored(c) /\ About(c).scan \in DOMAIN scans
    BY <1>1, <2>1, Distinct DEF Progress, Promotions
  <2>3. /\ DOMAIN artifacts' = DOMAIN artifacts
        /\ \A x \in DOMAIN artifacts :
             artifacts'[x] = IF x = e THEN [artifacts[x] EXCEPT !.described = TRUE] ELSE artifacts[x]
    BY <1>7 DEF StoreMetadata
  <2>4. \A x \in DOMAIN artifacts :
          /\ artifacts'[x].file = artifacts[x].file
          /\ x = e => artifacts'[x].described = TRUE
          /\ x # e => artifacts'[x] = artifacts[x]
          /\ artifacts'[x] = [file |-> artifacts'[x].file, described |-> artifacts'[x].described]
    BY <1>1, <2>3 DEF ArtifactsOK
  <2>5. Kept /\ Listed' /\ Marked'
    <3>1. Kept
      BY <1>1, <1>2, <2>3, <2>4 DEF Kept, CallsOK
    <3>2. \A x \in DOMAIN artifacts : Archived(x) => Archived(x)'
      BY <2>3, <2>4 DEF Archived
    <3>3. QED
      BY <1>5, <3>1, <3>2
  <2>6. Apart(c)
    BY <1>2, <2>3, Quiet
  <2>7. ArtifactsOK'
    BY <1>1, <1>2, <2>3, <2>4 DEF ArtifactsOK
  <2>8. Progress(c)'
    BY <1>2, <1>4, <2>1, <2>2, <2>3, <2>4, Distinct DEF Progress, Stored, Archived, Promotions
  <2>9. QED
    BY <1>3, <2>5, <2>6, <2>7, <2>8, Preserved
<1>8. QED
  BY <1>6, <1>7

LEMMA Mark ==
  ASSUME PromotionInv, NEW c \in Callers, MarkPromoted(c)
  PROVE  PromotionInv'
<1> DEFINE e == About(c).evidence
<1>1. CallsOK /\ ScansOK /\ ArtifactsOK /\ Progress(c) /\ Listed /\ Marked
  BY DEF PromotionInv
<1>2. Done(c) /\ UNCHANGED <<artifacts, rows, made>> /\ calls[c].todo # <<>>
  BY DEF MarkPromoted, At
<1>3. calls[c].todo = FromMark /\ calls'[c].todo = <<"log">>
  BY <1>1, <1>2, Firsts, Moves DEF MarkPromoted
<1>4. Stored(c) /\ Archived(e) /\ EvidenceKey(e) \in DOMAIN rows
  BY <1>1, <1>3, Distinct DEF Progress, Promotions
<1>5. /\ DOMAIN scans' = DOMAIN scans
      /\ \A s \in DOMAIN scans :
           scans'[s] = IF s = About(c).scan
                       THEN [[scans[s] EXCEPT !.status = "promoted"] EXCEPT !.evidence = e]
                       ELSE scans[s]
  BY DEF MarkPromoted
<1>6. \A s \in DOMAIN scans :
        /\ scans'[s].file = scans[s].file
        /\ scans'[s] = [file |-> scans'[s].file, status |-> scans'[s].status, evidence |-> scans'[s].evidence]
        /\ s = About(c).scan => scans'[s].evidence = e
        /\ s # About(c).scan => scans'[s] = scans[s]
  BY <1>1, <1>5 DEF ScansOK
<1>7. Kept
  <2>1. DOMAIN scans \subseteq DOMAIN scans' /\ \A s \in DOMAIN scans : scans'[s].file = scans[s].file
    BY <1>5, <1>6
  <2>2. made \in Nat
    BY <1>1 DEF CallsOK
  <2>3. QED
    BY <1>2, <2>1, <2>2 DEF Kept
<1>8. CallsOK' /\ Apart(c)
  BY <1>2, Continues, Quiet
<1>9. ScansOK' /\ ArtifactsOK' /\ Listed'
  BY <1>1, <1>2, <1>5, <1>6 DEF ScansOK, ArtifactsOK, Listed, Archived, Accepted
<1>10. Marked'
  BY <1>1, <1>2, <1>4, <1>5, <1>6 DEF Marked, Stored, EvidenceKey
<1>11. Progress(c)'
  BY <1>3, Distinct DEF Progress, Promotions
<1>12. QED
  BY <1>7, <1>8, <1>9, <1>10, <1>11, Preserved

LEMMA Ends ==
  ASSUME PromotionInv, NEW c \in Callers, Die(c) \/ Tear(c)
  PROVE  PromotionInv'
<1>1. CallsOK /\ ScansOK /\ ArtifactsOK /\ Listed /\ Marked
  BY DEF PromotionInv
<1>2. Call(c, <<>>, Nothing) /\ UNCHANGED <<artifacts, rows, made>>
  BY DEF Die, Tear
<1>3. /\ DOMAIN calls' = Callers /\ calls'[c] = [todo |-> <<>>, about |-> Nothing]
      /\ \A d \in Callers \ {c} : calls'[d] = calls[d]
  BY <1>1, <1>2 DEF Call, CallsOK
<1>4. /\ DOMAIN scans' = DOMAIN scans
      /\ \/ \A s \in DOMAIN scans : scans'[s] = scans[s]
         \/ \A s \in DOMAIN scans :
              scans'[s] = IF s = About(c).scan THEN [scans[s] EXCEPT !.status = "none"] ELSE scans[s]
  BY DEF Die, Tear
<1>5. \A s \in DOMAIN scans :
        /\ scans'[s].file = scans[s].file /\ scans'[s].evidence = scans[s].evidence
        /\ scans'[s] = [file |-> scans'[s].file, status |-> scans'[s].status, evidence |-> scans'[s].evidence]
        /\ scans'[s].status = "promoted" => scans[s].status = "promoted"
  BY <1>1, <1>4 DEF ScansOK
<1>6. Kept
  BY <1>1, <1>2, <1>4, <1>5 DEF Kept, CallsOK
<1>7. CallsOK'
  BY <1>1, <1>2, <1>3 DEF CallsOK, About, Todos
<1>8. ScansOK' /\ ArtifactsOK' /\ Listed'
  BY <1>1, <1>2, <1>4, <1>5 DEF ScansOK, ArtifactsOK, Listed, Archived, Accepted
<1>9. Marked'
  BY <1>1, <1>4, <1>5, <1>6, MarksKept
<1>10. Apart(c)
  <2>1. \A d \in Callers \ {c} : calls[d].todo = FromContent => About(d).evidence \notin DOMAIN artifacts
    BY DEF PromotionInv, Progress
  <2>2. calls'[c].todo # FromContent
    BY <1>3, Distinct
  <2>3. QED
    BY <1>2, <1>3, <2>1, <2>2 DEF Apart
<1>11. Progress(c)'
  BY <1>3, Distinct DEF Progress, Promotions
<1>12. QED
  BY <1>6, <1>7, <1>8, <1>9, <1>10, <1>11, Preserved

LEMMA WriteKeeps ==
  ASSUME PromotionInv, NEW c \in Callers, WriteSchedule(c)
  PROVE  PromotionInv'
<1>1. CallsOK /\ ScansOK /\ ArtifactsOK /\ Listed /\ Marked
  BY DEF PromotionInv
<1>2. Done(c) /\ UNCHANGED <<scans, artifacts, rows, made>> /\ calls[c].todo # <<>>
  BY DEF WriteSchedule, At
<1>3. calls[c].todo = <<"write", "log">>
  BY <1>1, Firsts DEF WriteSchedule
<1>4. calls'[c].todo \in {<<>>, <<"log">>, <<"write", "log">>}
  BY <1>1, <1>2, <1>3, Moves, Distinct DEF Promotions
<1>5. Kept /\ ScansOK' /\ ArtifactsOK' /\ Listed' /\ Marked'
  BY <1>1, <1>2 DEF Kept, CallsOK, ScansOK, ArtifactsOK, Listed, Marked, Archived, EvidenceKey
<1>6. Progress(c)'
  BY <1>4, Distinct DEF Progress, Promotions
<1>7. QED
  BY <1>2, <1>5, <1>6, Continues, Quiet, Preserved

-----------------------------------------------------------------------------
LEMMA InitPromotionInv == Init => PromotionInv
<1> SUFFICES ASSUME Init PROVE PromotionInv
  OBVIOUS
<1>1. \A c \in Callers : calls[c] = [todo |-> <<>>, about |-> Nothing]
  BY DEF Init, Idle
<1>2. DOMAIN scans = {} /\ DOMAIN artifacts = {} /\ DOMAIN rows = {}
  BY DEF Init, Nothing
<1>3. CallsOK
  BY <1>1 DEF Init, CallsOK, Todos, About
<1>4. \A c \in Callers : Progress(c)
  BY <1>1, Distinct DEF Progress, Promotions
<1>5. OwnEvidence
  BY <1>1, Distinct DEF OwnEvidence
<1>6. QED
  BY <1>2, <1>3, <1>4, <1>5 DEF PromotionInv, ScansOK, ArtifactsOK, Listed, Marked

LEMMA NextPromotionInv == PromotionInv /\ [Next]_vars => PromotionInv'
<1> SUFFICES ASSUME PromotionInv, [Next]_vars PROVE PromotionInv'
  OBVIOUS
<1>1. CASE UNCHANGED vars
  BY <1>1 DEF vars, PromotionInv, CallsOK, ScansOK, ArtifactsOK, Progress, Stored, OwnEvidence,
              Listed, Marked, About, Archived, EvidenceKey
<1>2. CASE Next
  BY <1>2, Begins, StagingSteps, ArchiveSteps, LedgerRows, Mark, WriteKeeps, Ends DEF Next
<1>3. QED
  BY <1>1, <1>2

\* Whatever dies between the steps of however many overlapping calls, evidence the ledger
\* lists has its content and its metadata, and a scan is marked promoted only with listed
\* evidence that holds the file the quarantine accepted: archive writes the ledger row
\* after both files, and promote sets the mark after archive has returned.
THEOREM PromotionsAreBacked == Spec => []PromotionIsBacked
<1>1. PromotionInv => PromotionIsBacked
  BY DEF PromotionInv, PromotionIsBacked, Listed, Marked, ScansOK
<1>2. PromotionInv /\ [Next]_vars => PromotionInv'
  BY NextPromotionInv
<1>3. QED
  BY <1>1, <1>2, InitPromotionInv, PTL DEF Spec

-----------------------------------------------------------------------------
(* The schedule.  An entry is compared with all of the entries it is         *)
(* appended to, so of two that clash the later one says so; and that stays   *)
(* true of every suffix, and of a file that was written over an older one.   *)

Writings == {<<"write", "log">>, <<"audit", "write", "log">>}

Items ==
  [ reference : {q.reference : q \in Deadlines},
    deadline : {ParsedDeadline(q) : q \in Deadlines},
    state : {"cooling_down", "uncertain", "overdue", "upcoming", "conflicting"} ]

Clash(e, f) ==
  /\ e.reference = f.reference /\ Undated \notin {e.deadline, f.deadline}
  /\ e.deadline # f.deadline

LaterSaysSo(entries) == \A i, j \in DOMAIN entries :
  i < j /\ Clash(entries[i], entries[j]) => entries[j].state = "conflicting"

InOrder(entries) == entries \in Seq(Items) /\ LaterSaysSo(entries)

ScheduleInv ==
  /\ schedule # Torn => InOrder(schedule)
  /\ \A c \in Callers : calls[c].todo \in Writings => InOrder(About(c).entries)

LEMMA NotWritings ==
  /\ FromMetadata \notin Writings /\ FromEvidence \notin Writings /\ FromMark \notin Writings
  /\ FromDescribe \notin Writings /\ <<"log">> \notin Writings /\ <<>> \notin Writings
BY DEF FromMetadata, FromEvidence, FromMark, FromDescribe, Writings

LEMMA WritesRemain ==
  ASSUME CallsOK, NEW c \in Callers, calls[c].todo # <<>>, Done(c),
         calls'[c].todo \in Writings
  PROVE  calls[c].todo \in Writings /\ calls'[c].about = calls[c].about
<1>1. calls[c].todo \in Todos \ {<<>>} /\ DOMAIN calls = Callers
  BY DEF CallsOK
<1>2. calls'[c].todo = Tail(calls[c].todo)
  BY <1>1 DEF Done, Call
<1>3. calls'[c].todo # <<>>
  BY DEF Writings
<1>4. calls[c].todo \in Promotions \cup {FromStage} => calls'[c].todo \notin Writings
  <2>1. calls[c].todo \in {FromContent, FromMetadata, FromEvidence, FromStage} =>
          calls'[c].todo \in {FromMetadata, FromEvidence, FromMark, FromDescribe}
    BY <1>2, Tails
  <2>2. calls[c].todo = FromMark => calls'[c].todo = <<"log">>
    BY <1>2, Tails
  <2>3. QED
    BY <2>1, <2>2, NotWritings DEF Promotions
<1>5. calls[c].todo \in {<<"log">>, <<"audit", "log">>, FromDescribe} => calls'[c].todo \notin Writings
  <2>1. calls[c].todo \in {<<"log">>, <<"audit", "log">>, FromDescribe} =>
          calls'[c].todo \in {<<"log">>, <<>>}
    BY <1>2, Tails
  <2>2. QED
    BY <2>1, NotWritings
<1>6. calls[c].todo \in Writings
  BY <1>1, <1>4, <1>5 DEF Todos, Writings
<1>7. QED
  BY <1>3, <1>6, Moves

\* A new entry is an item, and marked if it clashes with one that is there.
LEMMA NewEntry ==
  ASSUME NEW s \in Seq(Items), NEW q \in Deadlines
  PROVE  /\ Entry(s, q) \in Items
         /\ \A i \in DOMAIN s : Clash(s[i], Entry(s, q)) => Entry(s, q).state = "conflicting"
<1>1. StateFor(q) \in {"cooling_down", "uncertain", "overdue", "upcoming"}
  BY DEF StateFor
<1>2. /\ Entry(s, q).reference = q.reference /\ Entry(s, q).deadline = ParsedDeadline(q)
      /\ Entry(s, q).state = IF HasConflict(s, q) THEN "conflicting" ELSE StateFor(q)
  BY DEF Entry
<1>3. Entry(s, q) \in Items
  BY <1>1 DEF Entry, Items
<1>4. ASSUME NEW i \in DOMAIN s, Clash(s[i], Entry(s, q)) PROVE HasConflict(s, q)
  BY <1>2, <1>4 DEF Clash, HasConflict
<1>5. QED
  BY <1>2, <1>3, <1>4

LEMMA Appended ==
  ASSUME NEW s, InOrder(s), NEW q \in Deadlines
  PROVE  InOrder(Append(s, Entry(s, q)))
<1>1. PICK e : e = Entry(s, q)
  OBVIOUS
<1>2. /\ s \in Seq(Items) /\ e \in Items
      /\ \A i \in DOMAIN s : Clash(s[i], e) => e.state = "conflicting"
  BY <1>1, NewEntry DEF InOrder
<1>3. /\ Append(s, e) \in Seq(Items) /\ Len(s) \in Nat
      /\ DOMAIN Append(s, e) = 1 .. Len(s) + 1 /\ DOMAIN s = 1 .. Len(s)
      /\ \A i \in DOMAIN s : Append(s, e)[i] = s[i]
      /\ Append(s, e)[Len(s) + 1] = e
  BY <1>2
<1>4. ASSUME NEW i \in 1 .. Len(s) + 1, NEW j \in 1 .. Len(s) + 1, i < j,
             Clash(Append(s, e)[i], Append(s, e)[j])
      PROVE  Append(s, e)[j].state = "conflicting"
  <2>1. i \in DOMAIN s
    BY <1>3, <1>4
  <2>2. CASE j \in DOMAIN s
    BY <1>3, <1>4, <2>1, <2>2 DEF InOrder, LaterSaysSo
  <2>3. CASE j = Len(s) + 1
    BY <1>2, <1>3, <1>4, <2>1, <2>3
  <2>4. QED
    BY <1>3, <2>2, <2>3
<1>5. LaterSaysSo(Append(s, e))
  BY <1>3, <1>4 DEF LaterSaysSo
<1>6. QED
  BY <1>1, <1>3, <1>5 DEF InOrder

LEMMA CutOff ==
  ASSUME NEW s, InOrder(s), NEW m \in Nat \ {0}, m <= Len(s)
  PROVE  InOrder(SubSeq(s, m, Len(s)))
<1>1. s \in Seq(Items) /\ Len(s) \in Nat /\ DOMAIN s = 1 .. Len(s)
  BY DEF InOrder
<1>2. PICK t : t = SubSeq(s, m, Len(s))
  OBVIOUS
<1>3. t \in Seq(Items) /\ DOMAIN t = 1 .. Len(s) - m + 1
      /\ \A i \in DOMAIN t : t[i] = s[i + m - 1]
  <2>1. \A i \in m .. Len(s) : s[i] \in Items
    BY <1>1
  <2>2. /\ t \in Seq(Items) /\ Len(t) = Len(s) - m + 1
        /\ \A i \in 1 .. Len(s) - m + 1 : t[i] = s[m + i - 1]
    BY <1>1, <1>2, <2>1, SubSeqProperties
  <2>3. QED
    BY <1>1, <2>2
<1>4. ASSUME NEW i \in DOMAIN t, NEW j \in DOMAIN t, i < j, Clash(t[i], t[j])
      PROVE  t[j].state = "conflicting"
  <2>1. /\ i + m - 1 \in DOMAIN s /\ j + m - 1 \in DOMAIN s /\ i + m - 1 < j + m - 1
        /\ t[i] = s[i + m - 1] /\ t[j] = s[j + m - 1]
    BY <1>1, <1>3, <1>4
  <2>2. QED
    BY <1>4, <2>1 DEF InOrder, LaterSaysSo
<1>5. QED
  BY <1>2, <1>3, <1>4 DEF InOrder, LaterSaysSo

LEMMA ExtendedInOrder ==
  ASSUME NEW s, InOrder(s), NEW q \in Deadlines
  PROVE  InOrder(Extended(s, Entry(s, q)))
<1>1. PICK all : all = Append(s, Entry(s, q))
  OBVIOUS
<1>2. InOrder(all)
  BY <1>1, Appended
<1>3. Len(all) \in Nat /\ Len(all) = Len(s) + 1 /\ Len(s) \in Nat
  <2>1. s \in Seq(Items) /\ Entry(s, q) \in Items
    BY NewEntry DEF InOrder
  <2>2. QED
    BY <1>1, <2>1
<1>4. PICK m : m = AtLeast(1, Len(all) - MaxItems + 1)
  OBVIOUS
<1>5. m \in Nat \ {0} /\ m <= Len(all)
  BY <1>3, <1>4, StoresAssumption DEF AtLeast
<1>6. InOrder(SubSeq(all, m, Len(all)))
  BY <1>2, <1>5, CutOff
<1>7. QED
  BY <1>1, <1>4, <1>6 DEF Extended

LEMMA NextScheduleInv == CallsOK /\ ScheduleInv /\ [Next]_vars => ScheduleInv'
<1> SUFFICES ASSUME CallsOK, ScheduleInv, [Next]_vars PROVE ScheduleInv'
  OBVIOUS
<1>1. CASE UNCHANGED vars
  BY <1>1 DEF vars, ScheduleInv, About
<1>2. ASSUME NEW c \in Callers,
             \A d \in Callers \ {c} : calls'[d] = calls[d],
             calls'[c].todo \in Writings =>
               InOrder(calls'[c].about.entries),
             schedule' = Torn \/ InOrder(schedule') \/ schedule' = schedule
      PROVE  ScheduleInv'
  BY <1>2 DEF ScheduleInv, About
<1>3. ASSUME NEW c \in Callers, calls[c].todo # <<>>, Done(c)
      PROVE  /\ \A d \in Callers \ {c} : calls'[d] = calls[d]
             /\ calls'[c].todo \in Writings => InOrder(calls'[c].about.entries)
  BY <1>3, Moves, WritesRemain DEF ScheduleInv, About
<1>4. ASSUME NEW c \in Callers, NEW todo, NEW about, Call(c, todo, about)
      PROVE  /\ \A d \in Callers \ {c} : calls'[d] = calls[d]
             /\ calls'[c].todo = todo /\ calls'[c].about = about
  BY <1>4 DEF Call, CallsOK
<1>5. ASSUME NEW c \in Callers,
             StageFile(c) \/ DescribeScan(c) \/ StoreContent(c) \/ StoreMetadata(c)
               \/ RecordEvidence(c) \/ MarkPromoted(c) \/ Log(c) \/ Audit(c)
      PROVE  ScheduleInv'
  <2>1. Done(c) /\ calls[c].todo # <<>> /\ schedule' = schedule
    BY <1>5 DEF StageFile, DescribeScan, StoreContent, StoreMetadata, RecordEvidence,
                MarkPromoted, Log, Audit, At
  <2>2. QED
    BY <1>2, <1>3, <2>1
<1>6. ASSUME NEW c \in Callers, WriteSchedule(c) PROVE ScheduleInv'
  <2>1. Done(c) /\ calls[c].todo # <<>> /\ schedule' = About(c).entries
    BY <1>6 DEF WriteSchedule, At
  <2>2. calls[c].todo \in Writings
    BY <1>6, Firsts DEF WriteSchedule, Writings
  <2>3. InOrder(About(c).entries)
    BY <2>2 DEF ScheduleInv
  <2>4. QED
    BY <1>2, <1>3, <2>1, <2>3
<1>7. ASSUME NEW c \in Callers, Schedule(c) PROVE ScheduleInv'
  <2>1. PICK q \in Deadlines :
          Call(c, IF Entry(schedule, q).state = "conflicting" THEN <<"audit", "write", "log">>
                  ELSE <<"write", "log">>,
               [entries |-> Extended(schedule, Entry(schedule, q)),
                key |-> <<"deadline_event", FreshId>>, payload |-> "scheduled"])
    BY <1>7 DEF Schedule
  <2>2. InOrder(schedule) /\ schedule' = schedule
    BY <1>7 DEF Schedule, ScheduleInv
  <2>3. InOrder(Extended(schedule, Entry(schedule, q)))
    BY <2>2, ExtendedInOrder
  <2>4. PICK about : about = [entries |-> Extended(schedule, Entry(schedule, q)),
                              key |-> <<"deadline_event", FreshId>>, payload |-> "scheduled"]
    OBVIOUS
  <2>5. /\ \A d \in Callers \ {c} : calls'[d] = calls[d]
        /\ calls'[c].about = about
    BY <1>4, <2>1, <2>4
  <2>6. about.entries = Extended(schedule, Entry(schedule, q))
    BY <2>4
  <2>7. QED
    BY <1>2, <2>2, <2>3, <2>5, <2>6
<1>8. ASSUME NEW c \in Callers, Ingest(c) \/ Promote(c) \/ Summarize(c) PROVE ScheduleInv'
  <2>1. schedule' = schedule
    BY <1>8 DEF Ingest, Promote, Summarize
  <2>2. PICK todo, about : Call(c, todo, about) /\ todo \in {IngestSteps, RejectSteps, PromoteSteps, <<"log">>}
    BY <1>8 DEF Ingest, Promote, Summarize
  <2>3. todo \notin Writings
    BY <2>2 DEF IngestSteps, RejectSteps, PromoteSteps, Writings
  <2>4. QED
    BY <1>2, <1>4, <2>1, <2>2, <2>3
<1>9. ASSUME NEW c \in Callers, Die(c) \/ Tear(c) PROVE ScheduleInv'
  <2>1. Call(c, <<>>, Nothing) /\ schedule' \in {schedule, Torn}
    BY <1>9 DEF Die, Tear
  <2>2. <<>> \notin Writings
    BY DEF Writings
  <2>3. QED
    BY <1>2, <1>4, <2>1, <2>2
<1>10. QED
  BY <1>1, <1>5, <1>6, <1>7, <1>8, <1>9 DEF Next

\* Of two dates for one reference in the schedule the later entry is marked, and the
\* summary names its reference: although calls overlap and the file one of them wrote
\* is lost, although the oldest entries are cut off, and although a cooldown is running
\* (deadline scheduler service.py:43-75, 103-114, 199-214).
THEOREM ConflictsAreNeverHidden == Spec => []ConflictsSurface
<1>1. Init => ScheduleInv
  <2> SUFFICES ASSUME Init PROVE ScheduleInv
    OBVIOUS
  <2>1. InOrder(schedule)
    BY DEF Init, InOrder, LaterSaysSo
  <2>2. \A c \in Callers : calls[c].todo = <<>>
    BY DEF Init, Idle
  <2>3. QED
    BY <2>1, <2>2 DEF ScheduleInv, Writings
<1>2. PromotionInv /\ ScheduleInv /\ [Next]_vars => ScheduleInv'
  BY NextScheduleInv DEF PromotionInv
<1>3. ScheduleInv => ConflictsSurface
  <2> SUFFICES ASSUME ScheduleInv, schedule # Torn,
                      NEW i \in DOMAIN schedule, NEW j \in DOMAIN schedule,
                      Clash(schedule[i], schedule[j])
               PROVE  schedule[i].reference \in Summary(schedule, 1, 1).conflicting
    BY DEF ConflictsSurface, Clash
  <2>1. schedule \in Seq(Items) /\ LaterSaysSo(schedule)
    BY DEF ScheduleInv, InOrder
  <2>2. Clash(schedule[j], schedule[i]) /\ i # j /\ i \in Nat /\ j \in Nat
    BY <2>1 DEF Clash
  <2>3. PICK k \in {i, j} : schedule[k].state = "conflicting"
    BY <2>1, <2>2 DEF LaterSaysSo
  <2>4. schedule[k].reference = schedule[i].reference
    BY <2>3 DEF Clash
  <2>5. Summary(schedule, 1, 1).conflicting
          = {schedule[x].reference : x \in {x \in DOMAIN schedule : schedule[x].state = "conflicting"}}
    BY DEF Summary
  <2>6. QED
    BY <2>3, <2>4, <2>5
<1>4. PromotionInv /\ [Next]_vars => PromotionInv'
  BY NextPromotionInv
<1>5. QED
  BY <1>1, <1>2, <1>3, <1>4, InitPromotionInv, PTL DEF Spec
=============================================================================
