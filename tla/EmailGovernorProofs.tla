------------------------- MODULE EmailGovernorProofs -------------------------
(***************************************************************************)
(* The email governor for any number of callers, requests and limits:      *)
(* types, and how many mails leave in a thread, on a day, for a request    *)
(* and after an opt-out.  Each bound is a sum of counts, of mails and of   *)
(* callers: a step moves one unit from a count to another, or adds one     *)
(* where the handler has just checked that there is room.                  *)
(***************************************************************************)
EXTENDS EmailGovernor, FiniteSetTheorems, WellFoundedInduction, TLAPS

MailsOf(R) == {i \in DOMAIN outbox : outbox[i].req \in R}
SentOf(R)  == {i \in DOMAIN audits : audits[i].kind = "sent" /\ audits[i].about \in R}
At(R, steps) == {c \in Callers : pc[c] \in steps /\ work[c] \in R}
Late(i, R) == {j \in DOMAIN outbox : outbox[j].known >= i /\ outbox[j].req \in R}

InThread(th) == {r \in Requests : r.thread = th}

\* A caller whose mail may leave, from the reads that let it pass to the mail;
\* one whose mail has left and is not yet recorded.
Checked   == {"opt_out", "send"}
Unsent    == {"draft", "limits", "opt_out", "send"}
Unlogged  == {"archive", "record"}

-----------------------------------------------------------------------------
\* TypeOK, but for the bound of the archive, which follows from ArchivedLeft.
Types ==
  /\ drafts \subseteq Drafts
  /\ audits \in Seq(Audits) /\ Len(audits) <= MaxAudits
  /\ archived \in [Requests -> Nat]
  /\ outbox \in Seq([req: Requests, day: Days, known: 0 .. MaxAudits])
  /\ Len(outbox) <= MaxMails
  /\ pc \in [Callers -> SendSteps \cup {"idle", "reply"}]
  /\ work \in [Callers -> Requests \cup Replies \cup {None}]
  /\ \A c \in Callers :
       /\ pc[c] = "idle" => work[c] = None
       /\ pc[c] = "reply" => work[c] \in Replies
       /\ pc[c] \in SendSteps => work[c] \in Requests
  /\ stamp \in [Callers -> Stamps] /\ stampDay \in [Callers -> Days] /\ clock \in Stamps
  /\ day \in Days /\ aborts \in 0 .. MaxAborts

LoggedWereArchived == \A r \in Requests :
  Cardinality(SentOf({r})) + Cardinality(At({r}, {"record"})) <= archived[r]

ArchivedLeft == \A r \in Requests :
  archived[r] + Cardinality(At({r}, {"archive"})) <= Cardinality(MailsOf({r}))

\* A mail is in the log, about to be, or lost with its call.
Accounted == \A R \in SUBSET Requests :
  Cardinality(MailsOf(R))
    <= Cardinality(SentOf(R)) + Cardinality(At(R, Unlogged)) + aborts

\* The mails of a thread, with those past the limits check.
ThreadHasRoom == \A th \in Threads :
  Cardinality(MailsOf(InThread(th))) + Cardinality(At(InThread(th), Checked))
    <= MaxFollowups + aborts + Cardinality(Callers)

\* A request with a key of its own and an event: every later call finds it answered.
Outcome(r) == \E i \in DOMAIN audits : IsSend(audits[i]) /\ audits[i].about = r
Over(r)    == OwnKey(r) /\ Outcome(r)

\* The mails of such a request, with those to come.
RepeatsAreOver == \A r \in Requests : Over(r) =>
  Cardinality(MailsOf({r})) + Cardinality(At({r}, Unsent)) <= aborts + Cardinality(Callers)

KnownIsPast == \A j \in DOMAIN outbox : outbox[j].known <= Len(audits)

OptOutsAreOver == \A th \in Threads : \A i \in DOMAIN audits : OptOut(audits[i], th) =>
  Cardinality(Late(i, InThread(th))) + Cardinality(At(InThread(th), {"send"}))
    <= Cardinality(Callers) - 1

EmailInv ==
  /\ Types /\ LoggedWereArchived /\ ArchivedLeft /\ Accounted
  /\ ThreadHasRoom /\ RepeatsAreOver /\ KnownIsPast /\ OptOutsAreOver
-----------------------------------------------------------------------------
(* Counting.                                                                 *)

LEMMA Finite ==
  ASSUME Types, NEW R, NEW S
  PROVE  /\ IsFiniteSet(MailsOf(R)) /\ Cardinality(MailsOf(R)) \in Nat
         /\ IsFiniteSet(SentOf(R)) /\ Cardinality(SentOf(R)) \in Nat
         /\ IsFiniteSet(At(R, S)) /\ Cardinality(At(R, S)) \in Nat
         /\ Cardinality(At(R, S)) <= Cardinality(Callers)
         /\ \A i : IsFiniteSet(Late(i, R)) /\ Cardinality(Late(i, R)) \in Nat
         /\ Cardinality(Callers) \in Nat
         /\ Cardinality(MailsOf(R)) <= Len(outbox)
<1>1. Len(outbox) \in Nat /\ DOMAIN outbox = 1 .. Len(outbox)
  BY DEF Types
<1>2. Len(audits) \in Nat /\ DOMAIN audits = 1 .. Len(audits)
  BY DEF Types
<1>3. IsFiniteSet(DOMAIN outbox) /\ Cardinality(DOMAIN outbox) = Len(outbox)
  <2>1. /\ IsFiniteSet(1 .. Len(outbox))
        /\ Cardinality(1 .. Len(outbox)) = IF 1 > Len(outbox) THEN 0 ELSE Len(outbox) - 1 + 1
    BY <1>1, FS_Interval
  <2>2. QED
    BY <2>1, <1>1
<1>4. IsFiniteSet(DOMAIN audits)
  BY <1>2, FS_Interval
<1>5. MailsOf(R) \in SUBSET DOMAIN outbox /\ SentOf(R) \in SUBSET DOMAIN audits
  BY DEF MailsOf, SentOf
<1>6. At(R, S) \in SUBSET Callers /\ IsFiniteSet(Callers)
  BY LimitsAssumption DEF At
<1>7. ASSUME NEW i PROVE IsFiniteSet(Late(i, R)) /\ Cardinality(Late(i, R)) \in Nat
  <2>1. Late(i, R) \in SUBSET DOMAIN outbox
    BY DEF Late
  <2>2. IsFiniteSet(Late(i, R))
    BY <2>1, <1>3, FS_Subset
  <2>3. QED
    BY <2>2, FS_CardinalityType
<1>8. IsFiniteSet(MailsOf(R)) /\ Cardinality(MailsOf(R)) <= Len(outbox)
  BY <1>3, <1>5, FS_Subset
<1>9. IsFiniteSet(SentOf(R))
  BY <1>4, <1>5, FS_Subset
<1>10. IsFiniteSet(At(R, S)) /\ Cardinality(At(R, S)) <= Cardinality(Callers)
  BY <1>6, FS_Subset
<1>11. QED
  BY <1>6, <1>7, <1>8, <1>9, <1>10, FS_CardinalityType

LEMMA MailTypes ==
  ASSUME Types, NEW j \in DOMAIN outbox
  PROVE  outbox[j].req \in Requests /\ outbox[j].day \in Days /\ outbox[j].known \in Nat
<1> DEFINE M == [req: Requests, day: Days, known: 0 .. MaxAudits]
<1>1. outbox \in Seq(M)
  BY DEF Types
<1> HIDE DEF M
<1>2. outbox[j] \in M
  BY <1>1
<1>3. QED
  BY <1>2, LimitsAssumption DEF M

\* Callers at different places are different callers.
LEMMA CallersShare ==
  ASSUME Types, NEW R, NEW S, NEW T, S \cap T = {}
  PROVE  /\ Cardinality(At(R, S)) + Cardinality(At(R, T)) <= Cardinality(Callers)
         /\ \A c \in Callers : pc[c] \notin S \cup T =>
              Cardinality(At(R, S)) + Cardinality(At(R, T)) + 1 <= Cardinality(Callers)
<1> DEFINE A == At(R, S)  B == At(R, T)
<1>1. /\ IsFiniteSet(A) /\ IsFiniteSet(B) /\ IsFiniteSet(Callers)
      /\ Cardinality(A) \in Nat /\ Cardinality(B) \in Nat /\ Cardinality(Callers) \in Nat
  BY Finite, LimitsAssumption
<1>2. A \cap B = {} /\ A \cup B \in SUBSET Callers
  BY DEF At
<1>3. Cardinality(A \cup B) = Cardinality(A) + Cardinality(B) /\ IsFiniteSet(A \cup B)
  <2>1. /\ Cardinality(A \cup B) = Cardinality(A) + Cardinality(B) - Cardinality(A \cap B)
        /\ IsFiniteSet(A \cup B)
    BY <1>1, FS_Union
  <2>2. Cardinality(A \cap B) = 0
    BY <1>2, FS_EmptySet
  <2>3. QED
    BY <1>1, <2>1, <2>2
<1>4. Cardinality(A \cup B) <= Cardinality(Callers)
  BY <1>1, <1>2, FS_Subset
<1>5. ASSUME NEW c \in Callers, pc[c] \notin S \cup T
      PROVE  Cardinality(A) + Cardinality(B) + 1 <= Cardinality(Callers)
  <2>1. c \notin A \cup B
    BY <1>5 DEF At
  <2>2. Cardinality((A \cup B) \cup {c}) = Cardinality(A \cup B) + 1
    BY <2>1, <1>3, FS_AddElement
  <2>3. (A \cup B) \cup {c} \in SUBSET Callers
    BY <1>2
  <2>4. Cardinality((A \cup B) \cup {c}) <= Cardinality(Callers)
    BY <2>3, <1>1, FS_Subset
  <2>5. QED
    BY <2>2, <2>4, <1>3
<1>6. QED
  BY <1>3, <1>4, <1>5

Here(c, R, S) == pc[c] \in S /\ work[c] \in R

OnlyMoves(c) == \A d \in Callers \ {c} : pc'[d] = pc[d] /\ work'[d] = work[d]

\* A step of one caller changes the count by that caller.
LEMMA Moves ==
  ASSUME Types, NEW c \in Callers, OnlyMoves(c), NEW R, NEW S
  PROVE  /\ Cardinality(At(R, S)) \in Nat /\ Cardinality(At(R, S))' \in Nat
         /\ Here(c, R, S) /\ Here(c, R, S)' =>
              Cardinality(At(R, S))' = Cardinality(At(R, S))
         /\ ~Here(c, R, S) /\ ~Here(c, R, S)' =>
              Cardinality(At(R, S))' = Cardinality(At(R, S))
         /\ Here(c, R, S) /\ ~Here(c, R, S)' =>
              Cardinality(At(R, S))' = Cardinality(At(R, S)) - 1
         /\ ~Here(c, R, S) /\ Here(c, R, S)' =>
              Cardinality(At(R, S))' = Cardinality(At(R, S)) + 1
<1> DEFINE A == At(R, S)
<1>1. IsFiniteSet(A)
  BY Finite
<1>2. Cardinality(At(R, S)) \in Nat /\ Cardinality(At(R, S))' \in Nat
  <2>1. At(R, S)' \in SUBSET Callers
    BY DEF At
  <2>2. IsFiniteSet(At(R, S)')
    BY <2>1, LimitsAssumption, FS_Subset
  <2>3. QED
    BY <2>2, Finite, FS_CardinalityType
<1>3. CASE Here(c, R, S) <=> Here(c, R, S)'
  <2>1. At(R, S)' = A
    BY <1>3 DEF At, Here, OnlyMoves
  <2>2. QED
    BY <2>1, <1>2, <1>3
<1>4. CASE Here(c, R, S) /\ ~Here(c, R, S)'
  <2>1. c \in A /\ At(R, S)' = A \ {c}
    BY <1>4 DEF At, Here, OnlyMoves
  <2>2. Cardinality(A \ {c}) = Cardinality(A) - 1
    BY <2>1, <1>1, FS_RemoveElement
  <2>3. QED
    BY <1>2, <1>4, <2>1, <2>2
<1>5. CASE ~Here(c, R, S) /\ Here(c, R, S)'
  <2>1. c \notin A /\ At(R, S)' = A \cup {c}
    BY <1>5 DEF At, Here, OnlyMoves
  <2>2. Cardinality(A \cup {c}) = Cardinality(A) + 1
    BY <2>1, <1>1, FS_AddElement
  <2>3. QED
    BY <1>2, <1>5, <2>1, <2>2
<1>6. QED
  BY <1>3, <1>4, <1>5

\* A new mail or event is counted in the sets it belongs to.
LEMMA MailCounts ==
  ASSUME Types, NEW m, outbox' = Append(outbox, m), NEW R
  PROVE  /\ m.req \in R => Cardinality(MailsOf(R))' = Cardinality(MailsOf(R)) + 1
         /\ m.req \notin R => Cardinality(MailsOf(R))' = Cardinality(MailsOf(R))
         /\ \A i : IF m.known >= i /\ m.req \in R
                     THEN Cardinality(Late(i, R))' = Cardinality(Late(i, R)) + 1
                     ELSE Cardinality(Late(i, R))' = Cardinality(Late(i, R))
<1> DEFINE n == Len(outbox) + 1
<1>1. /\ Len(outbox) \in Nat /\ DOMAIN outbox = 1 .. Len(outbox)
      /\ DOMAIN outbox' = 1 .. n /\ outbox'[n] = m
      /\ \A j \in DOMAIN outbox : outbox'[j] = outbox[j]
  BY DEF Types
<1>2. n \notin DOMAIN outbox /\ DOMAIN outbox' = DOMAIN outbox \cup {n}
  BY <1>1
<1>3. m.req \in R => MailsOf(R)' = MailsOf(R) \cup {n}
  BY <1>1, <1>2 DEF MailsOf
<1>4. m.req \notin R => MailsOf(R)' = MailsOf(R)
  BY <1>1, <1>2 DEF MailsOf
<1>5. n \notin MailsOf(R) /\ IsFiniteSet(MailsOf(R))
  BY <1>2, Finite DEF MailsOf
<1>6. Cardinality(MailsOf(R) \cup {n}) = Cardinality(MailsOf(R)) + 1
  BY <1>5, FS_AddElement
<1>7. ASSUME NEW i
      PROVE  IF m.known >= i /\ m.req \in R
               THEN Cardinality(Late(i, R))' = Cardinality(Late(i, R)) + 1
               ELSE Cardinality(Late(i, R))' = Cardinality(Late(i, R))
  <2>1. CASE m.known >= i /\ m.req \in R
    <3>1. Late(i, R)' = Late(i, R) \cup {n}
      BY <1>1, <1>2, <2>1 DEF Late
    <3>2. n \notin Late(i, R) /\ IsFiniteSet(Late(i, R))
      BY <1>2, Finite DEF Late
    <3>3. Cardinality(Late(i, R) \cup {n}) = Cardinality(Late(i, R)) + 1
      BY <3>2, FS_AddElement
    <3>4. QED
      BY <2>1, <3>1, <3>3
  <2>2. CASE ~(m.known >= i /\ m.req \in R)
    <3>1. Late(i, R)' = Late(i, R)
      BY <1>1, <1>2, <2>2 DEF Late
    <3>2. QED
      BY <2>2, <3>1
  <2>3. QED
    BY <2>1, <2>2
<1>8. QED
  BY <1>3, <1>4, <1>6, <1>7

LEMMA EventCounts ==
  ASSUME Types, NEW a, audits' = Append(audits, a), NEW R
  PROVE  /\ a.kind = "sent" /\ a.about \in R =>
              Cardinality(SentOf(R))' = Cardinality(SentOf(R)) + 1
         /\ ~(a.kind = "sent" /\ a.about \in R) =>
              Cardinality(SentOf(R))' = Cardinality(SentOf(R))
<1> DEFINE n == Len(audits) + 1
<1>1. /\ Len(audits) \in Nat /\ DOMAIN audits = 1 .. Len(audits)
      /\ DOMAIN audits' = 1 .. n /\ audits'[n] = a
      /\ \A j \in DOMAIN audits : audits'[j] = audits[j]
  BY DEF Types
<1>2. n \notin DOMAIN audits /\ DOMAIN audits' = DOMAIN audits \cup {n}
  BY <1>1
<1>3. CASE a.kind = "sent" /\ a.about \in R
  <2>1. SentOf(R)' = SentOf(R) \cup {n}
    BY <1>1, <1>2, <1>3 DEF SentOf
  <2>2. n \notin SentOf(R) /\ IsFiniteSet(SentOf(R))
    BY <1>2, Finite DEF SentOf
  <2>3. Cardinality(SentOf(R) \cup {n}) = Cardinality(SentOf(R)) + 1
    BY <2>2, FS_AddElement
  <2>4. QED
    BY <1>3, <2>1, <2>3
<1>4. CASE ~(a.kind = "sent" /\ a.about \in R)
  <2>1. SentOf(R)' = SentOf(R)
    BY <1>1, <1>2, <1>4 DEF SentOf
  <2>2. QED
    BY <1>4, <2>1
<1>5. QED
  BY <1>3, <1>4

-----------------------------------------------------------------------------
(* Types.                                                                    *)

LEMMA InitEmailInv == Init => EmailInv
<1> SUFFICES ASSUME Init PROVE EmailInv
  OBVIOUS
<1>1. Types
  BY LimitsAssumption DEF Init, Types, Days, Stamps, Audits, SendSteps
<1>2. Cardinality({}) = 0 /\ Cardinality(Callers) \in Nat
  BY LimitsAssumption, FS_EmptySet, FS_CardinalityType
<1>3. ASSUME NEW R PROVE Cardinality(MailsOf(R)) = 0 /\ Cardinality(SentOf(R)) = 0
  <2>1. MailsOf(R) = {} /\ SentOf(R) = {}
    BY DEF Init, MailsOf, SentOf
  <2>2. QED
    BY <2>1, <1>2
<1>4. ASSUME NEW R, NEW S, S \subseteq SendSteps PROVE Cardinality(At(R, S)) = 0
  <2>1. At(R, S) = {}
    BY <1>4 DEF Init, At, SendSteps
  <2>2. QED
    BY <2>1, <1>2
<1>5. LoggedWereArchived
  <2>1. \A r \in Requests : Cardinality(At({r}, {"record"})) = 0
    BY <1>4 DEF SendSteps
  <2>2. QED
    BY <2>1, <1>2, <1>3 DEF Init, LoggedWereArchived
<1>6. ArchivedLeft
  <2>1. \A r \in Requests : Cardinality(At({r}, {"archive"})) = 0
    BY <1>4 DEF SendSteps
  <2>2. QED
    BY <2>1, <1>2, <1>3 DEF Init, ArchivedLeft
<1>7. Accounted
  <2>1. \A R \in SUBSET Requests : Cardinality(At(R, Unlogged)) = 0
    BY <1>4 DEF SendSteps, Unlogged
  <2>2. QED
    BY <2>1, <1>2, <1>3 DEF Init, Accounted
<1>8. ThreadHasRoom
  <2>1. \A th \in Threads : Cardinality(At(InThread(th), Checked)) = 0
    BY <1>4 DEF SendSteps, Checked
  <2>2. QED
    BY <2>1, <1>2, <1>3, LimitsAssumption DEF Init, ThreadHasRoom
<1>9. RepeatsAreOver /\ KnownIsPast /\ OptOutsAreOver
  BY DEF Init, RepeatsAreOver, Over, Outcome, KnownIsPast, OptOutsAreOver
<1>10. QED
  BY <1>1, <1>5, <1>6, <1>7, <1>8, <1>9 DEF EmailInv

LEMMA NextTypes == Types /\ [Next]_vars => Types'
<1> SUFFICES ASSUME Types, [Next]_vars PROVE Types'
  OBVIOUS
<1> USE RequestsAssumption, LimitsAssumption DEF Types, SendSteps, ledger, callers, stamps
<1>0. ASSUME NEW c \in Callers, Stamped(c) \/ Unstamped(c) \/ UNCHANGED stamps
      PROVE  stamp' \in [Callers -> Stamps] /\ stampDay' \in [Callers -> Days] /\ clock' \in Stamps
  <2>1. 0 \in Stamps /\ 0 \in Days /\ (clock < MaxStamps => clock + 1 \in Stamps)
    BY DEF Stamps, Days
  <2>2. QED
    BY <1>0, <2>1 DEF Stamped, Unstamped
<1>1. ASSUME NEW d \in Drafts, StoreDraft(d) PROVE Types'
  BY <1>1 DEF StoreDraft
<1>2. ASSUME NEW c \in Callers, NEW r \in Requests, Start(c, r) PROVE Types'
  BY <1>2 DEF Start, Begin
<1>3. ASSUME NEW c \in Callers, CheckDraft(c) \/ CheckLimits(c) \/ CheckOptOut(c) PROVE Types'
  BY <1>0, <1>3 DEF CheckDraft, CheckLimits, CheckOptOut, Check, Goto
<1>4. ASSUME NEW c \in Callers, Send(c) PROVE Types'
  <2>1. Len(audits) \in 0 .. MaxAudits
    OBVIOUS
  <2>2. [req |-> work[c], day |-> day, known |-> Len(audits)]
          \in [req: Requests, day: Days, known: 0 .. MaxAudits]
    BY <1>4, <2>1 DEF Send
  <2>3. /\ outbox' \in Seq([req: Requests, day: Days, known: 0 .. MaxAudits])
        /\ Len(outbox') <= MaxMails
    BY <1>4, <2>2 DEF Send
  <2>4. QED
    BY <1>4, <2>3 DEF Send, Goto
<1>5. ASSUME NEW c \in Callers, Archive(c) PROVE Types'
  BY <1>0, <1>5 DEF Archive, Goto
<1>6. ASSUME NEW c \in Callers, RecordSent(c) \/ Reject(c) \/ RecordReply(c) PROVE Types'
  <2>1. \E a \in Audits : Len(audits) < MaxAudits /\ audits' = Append(audits, a)
    <3>1. PICK kind \in {"sent", "rejected", "reply"} :
            Record(c, kind) /\ IF kind = "reply" THEN work[c] \in Replies
                                                ELSE work[c] \in Requests
      <4>1. CASE RecordSent(c)
        BY <4>1 DEF RecordSent
      <4>2. CASE Reject(c)
        BY <4>2 DEF Reject
      <4>3. CASE RecordReply(c)
        BY <4>3 DEF RecordReply
      <4>4. QED
        BY <1>6, <4>1, <4>2, <4>3
    <3>2. PICK a : a = [kind |-> kind, about |-> work[c], day |-> stampDay[c], at |-> stamp[c]]
      OBVIOUS
    <3>3. a \in Audits
      <4>1. stampDay[c] \in Days /\ stamp[c] \in Stamps
        OBVIOUS
      <4>2. CASE kind = "reply"
        BY <3>1, <3>2, <4>1, <4>2 DEF Audits
      <4>3. CASE kind \in {"sent", "rejected"}
        BY <3>1, <3>2, <4>1, <4>3 DEF Audits
      <4>4. QED
        BY <4>2, <4>3
    <3>4. QED
      BY <3>1, <3>2, <3>3 DEF Record
  <2>2. audits' \in Seq(Audits) /\ Len(audits') <= MaxAudits
    BY <2>1
  <2>3. QED
    BY <1>0, <1>6, <2>2 DEF RecordSent, Reject, RecordReply, Return
<1>7. ASSUME NEW c \in Callers, NEW m \in Replies, ReceiveReply(c, m) PROVE Types'
  BY <1>0, <1>7 DEF ReceiveReply, Begin
<1>8. ASSUME NEW c \in Callers, Abort(c) PROVE Types'
  BY <1>0, <1>8 DEF Abort, Return
<1>9. CASE NextDay
  BY <1>9 DEF NextDay, Days
<1>10. CASE UNCHANGED vars
  BY <1>10 DEF vars
<1>11. QED
  BY <1>1, <1>2, <1>3, <1>4, <1>5, <1>6, <1>7, <1>8, <1>9, <1>10 DEF Next, Replay

-----------------------------------------------------------------------------
(* The counts after a step.                                                  *)

LEMMA Earliest ==
  ASSUME NEW S \in SUBSET Nat, S # {}
  PROVE  \E m \in S : \A n \in S : m <= n
<1>1. PICK m \in S : \A n \in S : ~ (<<n, m>> \in OpToRel(<, Nat))
  BY NatLessThanWellFounded, WFMin, Zenon
<1>2. ASSUME NEW n \in S PROVE ~(n < m)
  BY <1>1, Zenon DEF OpToRel
<1>3. QED
  BY <1>2

\* _find_send_payload finds a request with a key of its own from its first event on:
\* the event of the earliest stamp is one of the request.
LEMMA OverIsAnswered ==
  ASSUME Types, NEW r \in Requests, Over(r)
  PROVE  Answered(r)
<1>1. ASSUME NEW j \in DOMAIN audits, IsSend(audits[j])
      PROVE  audits[j].about \in Requests /\ audits[j].at \in Nat
  <2>1. audits[j] \in Audits
    BY DEF Types
  <2>2. QED
    BY <1>1, <2>1, LimitsAssumption DEF Audits, IsSend, Stamps
<1>2. PICK i \in DOMAIN audits : IsSend(audits[i]) /\ audits[i].about = r
  BY DEF Over, Outcome
<1> DEFINE S == {audits[j].at : j \in {j \in DOMAIN audits : UsesKey(j, r.key)}}
<1>3. S \in SUBSET Nat /\ S # {}
  BY <1>1, <1>2 DEF UsesKey
<1>4. PICK m \in S : \A n \in S : m <= n
  BY <1>3, Earliest
<1>5. PICK j \in DOMAIN audits : UsesKey(j, r.key) /\ audits[j].at = m
  BY <1>4
<1>6. FirstOf(r.key, j)
  BY <1>4, <1>5 DEF FirstOf
<1>7. audits[j].about = r
  BY <1>1, <1>5 DEF UsesKey, Over, OwnKey
<1>8. QED
  BY <1>6, <1>7 DEF Answered

\* Steps that write nothing and let no mail out: a caller starts or goes from
\* check to check, or its call is lost.
LEMMA QuietSteps ==
  ASSUME EmailInv, Types', NEW c \in Callers, OnlyMoves(c),
         UNCHANGED <<audits, archived, outbox>>,
         aborts' \in {aborts, aborts + 1},
         pc[c] \in Unlogged => aborts' = aborts + 1,
         pc'[c] \notin Unlogged,
         pc'[c] = "draft" => ~Over(work'[c]),
         pc'[c] = "limits" => pc[c] = "draft" /\ work'[c] = work[c],
         pc'[c] = "opt_out" => pc[c] = "limits" /\ work'[c] = work[c] /\ WithinLimits(work[c]),
         pc'[c] = "send" =>
           pc[c] = "opt_out" /\ work'[c] = work[c] /\ ~OptedOut(work[c].thread)
  PROVE  EmailInv'
<1> USE DEF EmailInv
<1>1. /\ \A R : Cardinality(MailsOf(R))' = Cardinality(MailsOf(R))
      /\ \A R : Cardinality(SentOf(R))' = Cardinality(SentOf(R))
      /\ \A i, R : Cardinality(Late(i, R))' = Cardinality(Late(i, R))
  BY DEF MailsOf, SentOf, Late
<1>2. aborts \in Nat /\ aborts' \in Nat /\ MaxFollowups \in Nat /\ Cardinality(Callers) \in Nat
  BY LimitsAssumption, FS_CardinalityType DEF Types
<1>3. LoggedWereArchived'
  <2>1. ASSUME NEW r \in Requests
        PROVE  Cardinality(SentOf({r}))' + Cardinality(At({r}, {"record"}))' <= archived'[r]
    <3>1. ~Here(c, {r}, {"record"})'
      BY DEF Here, Unlogged
    <3>2. Cardinality(At({r}, {"record"}))' <= Cardinality(At({r}, {"record"}))
      BY <3>1, Moves, Finite
    <3>3. Cardinality(SentOf({r})) + Cardinality(At({r}, {"record"})) <= archived[r]
      BY DEF LoggedWereArchived
    <3>4. /\ archived[r] \in Nat /\ archived' = archived
          /\ Cardinality(At({r}, {"record"})) \in Nat /\ Cardinality(At({r}, {"record"}))' \in Nat
          /\ Cardinality(SentOf({r})) \in Nat /\ Cardinality(MailsOf({r})) \in Nat
      BY Finite, Moves DEF Types
    <3>5. QED
      BY <1>1, <3>2, <3>3, <3>4
  <2>2. QED
    BY <2>1 DEF LoggedWereArchived
<1>4. ArchivedLeft'
  <2>1. ASSUME NEW r \in Requests
        PROVE  archived'[r] + Cardinality(At({r}, {"archive"}))' <= Cardinality(MailsOf({r}))'
    <3>1. ~Here(c, {r}, {"archive"})'
      BY DEF Here, Unlogged
    <3>2. Cardinality(At({r}, {"archive"}))' <= Cardinality(At({r}, {"archive"}))
      BY <3>1, Moves, Finite
    <3>3. archived[r] + Cardinality(At({r}, {"archive"})) <= Cardinality(MailsOf({r}))
      BY DEF ArchivedLeft
    <3>4. /\ archived[r] \in Nat /\ archived' = archived
          /\ Cardinality(At({r}, {"archive"})) \in Nat /\ Cardinality(At({r}, {"archive"}))' \in Nat
          /\ Cardinality(SentOf({r})) \in Nat /\ Cardinality(MailsOf({r})) \in Nat
      BY Finite, Moves DEF Types
    <3>5. QED
      BY <1>1, <3>2, <3>3, <3>4
  <2>2. QED
    BY <2>1 DEF ArchivedLeft
<1>5. Accounted'
  <2>1. ASSUME NEW R \in SUBSET Requests
        PROVE  Cardinality(MailsOf(R))'
                 <= Cardinality(SentOf(R))' + Cardinality(At(R, Unlogged))' + aborts'
    <3>1. ~Here(c, R, Unlogged)'
      BY DEF Here
    <3>2. Cardinality(At(R, Unlogged)) + aborts <= Cardinality(At(R, Unlogged))' + aborts'
      <4>1. CASE Here(c, R, Unlogged)
        BY <1>2, <3>1, <4>1, Moves, Finite DEF Here
      <4>2. CASE ~Here(c, R, Unlogged)
        BY <1>2, <3>1, <4>2, Moves, Finite
      <4>3. QED
        BY <4>1, <4>2
    <3>3. Cardinality(MailsOf(R)) <= Cardinality(SentOf(R)) + Cardinality(At(R, Unlogged)) + aborts
      BY DEF Accounted
    <3>4. Cardinality(At(R, Unlogged))' \in Nat
      BY Finite, <1>2, Moves
    <3>5. QED
      BY <1>1, <1>2, <3>2, <3>3, <3>4, Finite
  <2>2. QED
    BY <2>1 DEF Accounted
<1>6. ThreadHasRoom'
  <2>1. ASSUME NEW th \in Threads
        PROVE  Cardinality(MailsOf(InThread(th)))' + Cardinality(At(InThread(th), Checked))'
                 <= MaxFollowups + aborts' + Cardinality(Callers)
    <3> DEFINE R == InThread(th)
    <3> HIDE DEF R
    <3>1. /\ Cardinality(MailsOf(R)) \in Nat /\ Cardinality(SentOf(R)) \in Nat
          /\ Cardinality(At(R, Checked)) \in Nat /\ Cardinality(At(R, Unlogged)) \in Nat
      BY Finite
    <3>2. Cardinality(MailsOf(R)) + Cardinality(At(R, Checked))
            <= MaxFollowups + aborts + Cardinality(Callers)
      BY DEF ThreadHasRoom, R
    <3>3. CASE Here(c, R, Checked)' => Here(c, R, Checked)
      <4>1. Cardinality(At(R, Checked))' <= Cardinality(At(R, Checked))
        BY <3>1, <3>3, Moves
      <4>2. Cardinality(At(R, Checked))' \in Nat
        BY Finite, Moves
      <4>3. QED
        BY <1>1, <1>2, <3>1, <3>2, <4>1, <4>2 DEF R
    <3>4. CASE Here(c, R, Checked)' /\ ~Here(c, R, Checked)
      <4>1. pc[c] = "limits" /\ work'[c] = work[c] /\ WithinLimits(work[c])
        BY <3>4 DEF Here, Checked
      <4>2. work[c] \in R /\ R \in SUBSET Requests /\ work[c] \in Requests
        BY <3>4, <4>1 DEF Here, R, InThread
      <4>3. SentInThread(work[c]) = SentOf(R)
        <5>1. \A i \in Sent : audits[i].about \in Requests
          BY DEF Sent, Types, Audits
        <5>2. QED
          BY <4>2, <5>1 DEF SentInThread, SentOf, Sent, R, InThread
      <4>4. Cardinality(SentOf(R)) <= MaxFollowups
        BY <1>2, <3>1, <4>1, <4>3 DEF WithinLimits
      <4>5. Cardinality(At(R, Checked)) + Cardinality(At(R, Unlogged)) + 1 <= Cardinality(Callers)
        BY <4>1, CallersShare DEF Checked, Unlogged
      <4>6. Cardinality(MailsOf(R))
              <= Cardinality(SentOf(R)) + Cardinality(At(R, Unlogged)) + aborts
        BY <4>2 DEF Accounted
      <4>7. Cardinality(At(R, Checked))' = Cardinality(At(R, Checked)) + 1
        BY <3>4, Moves
      <4>8. QED
        BY <1>1, <1>2, <3>1, <4>4, <4>5, <4>6, <4>7 DEF R
    <3>5. QED
      BY <3>3, <3>4
  <2>2. QED
    BY <2>1 DEF ThreadHasRoom
<1>7. RepeatsAreOver'
  <2>1. ASSUME NEW r \in Requests, Over(r)'
        PROVE  Cardinality(MailsOf({r}))' + Cardinality(At({r}, Unsent))'
                 <= aborts' + Cardinality(Callers)
    <3>1. Over(r)
      BY <2>1 DEF Over, Outcome
    <3>2. Cardinality(MailsOf({r})) + Cardinality(At({r}, Unsent))
            <= aborts + Cardinality(Callers)
      BY <3>1 DEF RepeatsAreOver
    <3>3. Here(c, {r}, Unsent)' => Here(c, {r}, Unsent)
      BY <3>1 DEF Here, Unsent
    <3>4. Cardinality(At({r}, Unsent))' <= Cardinality(At({r}, Unsent))
      BY <3>3, Moves, Finite
    <3>5. Cardinality(At({r}, Unsent))' \in Nat
      BY Moves, Finite
    <3>6. QED
      BY <1>1, <1>2, <3>2, <3>4, <3>5, Finite
  <2>2. QED
    BY <2>1 DEF RepeatsAreOver
<1>8. KnownIsPast'
  BY DEF KnownIsPast
<1>9. OptOutsAreOver'
  <2>1. ASSUME NEW th \in Threads, NEW i \in DOMAIN audits, OptOut(audits[i], th)
        PROVE  Cardinality(Late(i, InThread(th)))' + Cardinality(At(InThread(th), {"send"}))'
                 <= Cardinality(Callers) - 1
    <3> DEFINE R == InThread(th)
    <3> HIDE DEF R
    <3>1. Cardinality(Late(i, R)) + Cardinality(At(R, {"send"})) <= Cardinality(Callers) - 1
      BY <2>1 DEF OptOutsAreOver, R
    <3>2. ~Here(c, R, {"send"})'
      BY <2>1 DEF Here, R, InThread, OptedOut
    <3>3. Cardinality(At(R, {"send"}))' <= Cardinality(At(R, {"send"}))
      BY <3>2, Moves, Finite
    <3>4. Cardinality(At(R, {"send"}))' \in Nat
      BY Moves, Finite
    <3>5. QED
      BY <1>1, <1>2, <3>1, <3>3, <3>4, Finite DEF R
  <2>2. QED
    BY <2>1 DEF OptOutsAreOver
<1>10. QED
  BY <1>3, <1>4, <1>5, <1>6, <1>7, <1>8, <1>9

\* A mail leaves: the caller's place among those past the checks becomes a mail
\* of each set the request is in.
LEMMA MailSteps ==
  ASSUME EmailInv, Types', NEW c \in Callers, Send(c)
  PROVE  EmailInv'
<1> USE DEF EmailInv
<1> DEFINE w == work[c]  m == [req |-> w, day |-> day, known |-> Len(audits)]
<1>1. /\ w \in Requests /\ Len(audits) \in Nat /\ OnlyMoves(c)
      /\ pc[c] = "send" /\ pc'[c] = "archive" /\ work' = work
      /\ UNCHANGED <<audits, archived, aborts>> /\ outbox' = Append(outbox, m)
  BY DEF Send, Goto, Types, SendSteps, ledger, OnlyMoves
<1>2. aborts \in Nat /\ MaxFollowups \in Nat /\ Cardinality(Callers) \in Nat
  BY LimitsAssumption, FS_CardinalityType DEF Types
<1>3. ASSUME NEW R
      PROVE  /\ w \in R => Cardinality(MailsOf(R))' = Cardinality(MailsOf(R)) + 1
             /\ w \notin R => Cardinality(MailsOf(R))' = Cardinality(MailsOf(R))
             /\ Cardinality(MailsOf(R)) \in Nat
             /\ Cardinality(SentOf(R))' = Cardinality(SentOf(R))
             /\ Cardinality(SentOf(R)) \in Nat
  <2>1. m.req = w
    OBVIOUS
  <2>2. SentOf(R)' = SentOf(R)
    BY <1>1 DEF SentOf
  <2>3. QED
    BY <1>1, <2>1, <2>2, MailCounts, Finite
<1>4. ASSUME NEW R, NEW S, "send" \in S, "archive" \notin S
      PROVE  /\ w \in R => Cardinality(At(R, S))' = Cardinality(At(R, S)) - 1
             /\ w \notin R => Cardinality(At(R, S))' = Cardinality(At(R, S))
             /\ Cardinality(At(R, S)) \in Nat
  BY <1>1, <1>4, Moves DEF Here
<1>5. ASSUME NEW R, NEW S, "send" \notin S, "archive" \in S
      PROVE  /\ w \in R => Cardinality(At(R, S))' = Cardinality(At(R, S)) + 1
             /\ w \notin R => Cardinality(At(R, S))' = Cardinality(At(R, S))
             /\ Cardinality(At(R, S)) \in Nat
  BY <1>1, <1>5, Moves DEF Here
<1>6. LoggedWereArchived'
  <2>1. ASSUME NEW r \in Requests
        PROVE  Cardinality(At({r}, {"record"}))' = Cardinality(At({r}, {"record"}))
    BY <1>1, Moves DEF Here
  <2>2. QED
    BY <1>1, <1>3, <2>1 DEF LoggedWereArchived
<1>7. ArchivedLeft'
  <2>1. ASSUME NEW r \in Requests
        PROVE  archived'[r] + Cardinality(At({r}, {"archive"}))' <= Cardinality(MailsOf({r}))'
    <3>1. archived[r] + Cardinality(At({r}, {"archive"})) <= Cardinality(MailsOf({r}))
      BY DEF ArchivedLeft
    <3>2. archived[r] \in Nat /\ archived' = archived
      BY <1>1 DEF Types
    <3>3. /\ w \in {r} => Cardinality(At({r}, {"archive"}))' = Cardinality(At({r}, {"archive"})) + 1
          /\ w \notin {r} => Cardinality(At({r}, {"archive"}))' = Cardinality(At({r}, {"archive"}))
          /\ Cardinality(At({r}, {"archive"})) \in Nat
      BY <1>5
    <3>4. QED
      BY <1>3, <3>1, <3>2, <3>3
  <2>2. QED
    BY <2>1 DEF ArchivedLeft
<1>8. Accounted'
  <2>1. ASSUME NEW R \in SUBSET Requests
        PROVE  Cardinality(MailsOf(R))'
                 <= Cardinality(SentOf(R))' + Cardinality(At(R, Unlogged))' + aborts'
    <3>1. /\ w \in R => Cardinality(At(R, Unlogged))' = Cardinality(At(R, Unlogged)) + 1
          /\ w \notin R => Cardinality(At(R, Unlogged))' = Cardinality(At(R, Unlogged))
          /\ Cardinality(At(R, Unlogged)) \in Nat
      BY <1>5 DEF Unlogged
    <3>2. Cardinality(MailsOf(R)) <= Cardinality(SentOf(R)) + Cardinality(At(R, Unlogged)) + aborts
      BY DEF Accounted
    <3>3. QED
      BY <1>1, <1>2, <1>3, <3>1, <3>2
  <2>2. QED
    BY <2>1 DEF Accounted
<1>9. ThreadHasRoom'
  <2>1. ASSUME NEW th \in Threads, NEW R, R = InThread(th)
        PROVE  Cardinality(MailsOf(R))' + Cardinality(At(R, Checked))'
                 <= MaxFollowups + aborts' + Cardinality(Callers)
    <3>1. /\ w \in R => Cardinality(At(R, Checked))' = Cardinality(At(R, Checked)) - 1
          /\ w \notin R => Cardinality(At(R, Checked))' = Cardinality(At(R, Checked))
          /\ Cardinality(At(R, Checked)) \in Nat
      BY <1>4 DEF Checked
    <3>2. Cardinality(MailsOf(R)) + Cardinality(At(R, Checked))
            <= MaxFollowups + aborts + Cardinality(Callers)
      BY <2>1 DEF ThreadHasRoom
    <3>3. QED
      BY <1>1, <1>2, <1>3, <3>1, <3>2
  <2>2. QED
    BY <2>1 DEF ThreadHasRoom
<1>10. RepeatsAreOver'
  <2>1. ASSUME NEW r \in Requests, Over(r)'
        PROVE  Cardinality(MailsOf({r}))' + Cardinality(At({r}, Unsent))'
                 <= aborts' + Cardinality(Callers)
    <3>1. /\ w \in {r} => Cardinality(At({r}, Unsent))' = Cardinality(At({r}, Unsent)) - 1
          /\ w \notin {r} => Cardinality(At({r}, Unsent))' = Cardinality(At({r}, Unsent))
          /\ Cardinality(At({r}, Unsent)) \in Nat
      BY <1>4 DEF Unsent
    <3>2. Over(r)
      BY <1>1, <2>1 DEF Over, Outcome
    <3>3. Cardinality(MailsOf({r})) + Cardinality(At({r}, Unsent))
            <= aborts + Cardinality(Callers)
      BY <3>2 DEF RepeatsAreOver
    <3>4. QED
      BY <1>1, <1>2, <1>3, <3>1, <3>3
  <2>2. QED
    BY <2>1 DEF RepeatsAreOver
<1>11. KnownIsPast'
  <2>1. /\ Len(outbox) \in Nat /\ DOMAIN outbox = 1 .. Len(outbox)
        /\ DOMAIN outbox' = 1 .. Len(outbox) + 1 /\ outbox'[Len(outbox) + 1].known = Len(audits)
        /\ \A j \in DOMAIN outbox : outbox'[j] = outbox[j]
    BY <1>1 DEF Types
  <2>2. QED
    BY <1>1, <2>1 DEF KnownIsPast
<1>12. OptOutsAreOver'
  <2>1. ASSUME NEW th \in Threads, NEW i \in DOMAIN audits, OptOut(audits[i], th),
               NEW R, R = InThread(th)
        PROVE  Cardinality(Late(i, R))' + Cardinality(At(R, {"send"}))' <= Cardinality(Callers) - 1
    <3>1. /\ w \in R => Cardinality(At(R, {"send"}))' = Cardinality(At(R, {"send"})) - 1
          /\ w \notin R => Cardinality(At(R, {"send"}))' = Cardinality(At(R, {"send"}))
          /\ Cardinality(At(R, {"send"})) \in Nat
      BY <1>4
    <3>2. m.known >= i /\ m.req = w
      BY <1>1 DEF Types
    <3>3. /\ w \in R => Cardinality(Late(i, R))' = Cardinality(Late(i, R)) + 1
          /\ w \notin R => Cardinality(Late(i, R))' = Cardinality(Late(i, R))
          /\ Cardinality(Late(i, R)) \in Nat
      BY <1>1, <3>2, MailCounts, Finite
    <3>4. Cardinality(Late(i, R)) + Cardinality(At(R, {"send"})) <= Cardinality(Callers) - 1
      BY <2>1 DEF OptOutsAreOver
    <3>5. QED
      BY <1>2, <3>1, <3>3, <3>4
  <2>2. QED
    BY <1>1, <2>1 DEF OptOutsAreOver
<1>13. QED
  BY <1>6, <1>7, <1>8, <1>9, <1>10, <1>11, <1>12

\* The mail goes to the archive.
LEMMA ArchiveSteps ==
  ASSUME EmailInv, Types', NEW c \in Callers, Archive(c)
  PROVE  EmailInv'
<1> USE DEF EmailInv
<1> DEFINE w == work[c]
<1>1. /\ w \in Requests /\ OnlyMoves(c)
      /\ pc[c] = "archive" /\ pc'[c] = "record" /\ work' = work
      /\ UNCHANGED <<audits, outbox, aborts>>
      /\ archived' = [archived EXCEPT ![w] = @ + 1] /\ archived \in [Requests -> Nat]
  BY DEF Archive, Goto, Types, SendSteps, OnlyMoves
<1>2. /\ \A R : Cardinality(MailsOf(R))' = Cardinality(MailsOf(R))
      /\ \A R : Cardinality(SentOf(R))' = Cardinality(SentOf(R))
      /\ \A i, R : Cardinality(Late(i, R))' = Cardinality(Late(i, R))
  BY <1>1 DEF MailsOf, SentOf, Late
<1>3. ASSUME NEW R, NEW S, "archive" \in S <=> "record" \in S
      PROVE  Cardinality(At(R, S))' = Cardinality(At(R, S))
  BY <1>1, <1>3, Moves DEF Here
<1>4. LoggedWereArchived'
  <2>1. ASSUME NEW r \in Requests
        PROVE  Cardinality(SentOf({r}))' + Cardinality(At({r}, {"record"}))' <= archived'[r]
    <3>1. /\ w = r => Cardinality(At({r}, {"record"}))' = Cardinality(At({r}, {"record"})) + 1
          /\ w # r => Cardinality(At({r}, {"record"}))' = Cardinality(At({r}, {"record"}))
          /\ Cardinality(At({r}, {"record"})) \in Nat /\ Cardinality(SentOf({r})) \in Nat
      BY <1>1, Moves, Finite DEF Here
    <3>2. Cardinality(SentOf({r})) + Cardinality(At({r}, {"record"})) <= archived[r]
      BY DEF LoggedWereArchived
    <3>3. QED
      BY <1>1, <1>2, <3>1, <3>2
  <2>2. QED
    BY <2>1 DEF LoggedWereArchived
<1>5. ArchivedLeft'
  <2>1. ASSUME NEW r \in Requests
        PROVE  archived'[r] + Cardinality(At({r}, {"archive"}))' <= Cardinality(MailsOf({r}))'
    <3>1. /\ w = r => Cardinality(At({r}, {"archive"}))' = Cardinality(At({r}, {"archive"})) - 1
          /\ w # r => Cardinality(At({r}, {"archive"}))' = Cardinality(At({r}, {"archive"}))
          /\ Cardinality(At({r}, {"archive"})) \in Nat /\ Cardinality(MailsOf({r})) \in Nat
      BY <1>1, Moves, Finite DEF Here
    <3>2. archived[r] + Cardinality(At({r}, {"archive"})) <= Cardinality(MailsOf({r}))
      BY DEF ArchivedLeft
    <3>3. QED
      BY <1>1, <1>2, <3>1, <3>2
  <2>2. QED
    BY <2>1 DEF ArchivedLeft
<1>6. Accounted'
  <2>1. \A R : Cardinality(At(R, Unlogged))' = Cardinality(At(R, Unlogged))
    BY <1>3 DEF Unlogged
  <2>2. QED
    BY <1>1, <1>2, <2>1 DEF Accounted
<1>7. ThreadHasRoom'
  <2>1. \A R : Cardinality(At(R, Checked))' = Cardinality(At(R, Checked))
    BY <1>3 DEF Checked
  <2>2. QED
    BY <1>1, <1>2, <2>1 DEF ThreadHasRoom
<1>8. RepeatsAreOver'
  <2>1. \A R : Cardinality(At(R, Unsent))' = Cardinality(At(R, Unsent))
    BY <1>3 DEF Unsent
  <2>2. \A r \in Requests : Over(r)' => Over(r)
    BY <1>1 DEF Over, Outcome
  <2>3. QED
    BY <1>1, <1>2, <2>1, <2>2 DEF RepeatsAreOver
<1>9. KnownIsPast'
  BY <1>1 DEF KnownIsPast
<1>10. OptOutsAreOver'
  <2>1. \A R : Cardinality(At(R, {"send"}))' = Cardinality(At(R, {"send"}))
    BY <1>3
  <2>2. QED
    BY <1>1, <1>2, <2>1 DEF OptOutsAreOver
<1>11. QED
  BY <1>4, <1>5, <1>6, <1>7, <1>8, <1>9, <1>10

\* The call ends with an event: of the mail, of its refusal or of a reply.
LEMMA RecordSteps ==
  ASSUME EmailInv, Types', NEW c \in Callers, RecordSent(c) \/ Reject(c) \/ RecordReply(c)
  PROVE  EmailInv'
<1> USE DEF EmailInv
<1> DEFINE w == work[c]
<1>1. PICK kind \in {"sent", "rejected", "reply"} :
        /\ audits' = Append(audits, [kind |-> kind, about |-> w,
                                    day |-> stampDay[c], at |-> stamp[c]])
        /\ kind = "sent" <=> pc[c] = "record"
        /\ kind = "rejected" <=> pc[c] = "reject"
        /\ kind = "reply" <=> pc[c] = "reply"
  BY DEF RecordSent, Reject, RecordReply, Record
<1>2. /\ OnlyMoves(c) /\ pc'[c] = "idle" /\ UNCHANGED <<archived, outbox, aborts>>
      /\ pc[c] \in {"record", "reject", "reply"}
  BY DEF RecordSent, Reject, RecordReply, Return, OnlyMoves, Types
<1> DEFINE a == [kind |-> kind, about |-> w, day |-> stampDay[c], at |-> stamp[c]]
           n == Len(audits) + 1
<1>3. /\ Len(audits) \in Nat /\ DOMAIN audits = 1 .. Len(audits) /\ Len(audits') = n
      /\ DOMAIN audits' = 1 .. n /\ audits'[n] = a
      /\ \A j \in DOMAIN audits : audits'[j] = audits[j]
  BY <1>1 DEF Types
<1>4. /\ \A R : Cardinality(MailsOf(R))' = Cardinality(MailsOf(R))
      /\ \A i, R : Cardinality(Late(i, R))' = Cardinality(Late(i, R))
  BY <1>2 DEF MailsOf, Late
<1>5. ASSUME NEW R
      PROVE  /\ kind = "sent" /\ w \in R => Cardinality(SentOf(R))' = Cardinality(SentOf(R)) + 1
             /\ ~(kind = "sent" /\ w \in R) => Cardinality(SentOf(R))' = Cardinality(SentOf(R))
             /\ Cardinality(SentOf(R)) \in Nat
  <2>1. a.kind = kind /\ a.about = w
    OBVIOUS
  <2>2. QED
    BY <1>1, <2>1, EventCounts, Finite
<1>6. ASSUME NEW R, NEW S, pc[c] \notin S, "idle" \notin S
      PROVE  Cardinality(At(R, S))' = Cardinality(At(R, S))
  BY <1>2, <1>6, Moves DEF Here
<1>7. ASSUME NEW R, NEW S, "idle" \notin S, pc[c] \in S, w \in R
      PROVE  Cardinality(At(R, S))' = Cardinality(At(R, S)) - 1
  BY <1>2, <1>7, Moves DEF Here
<1>8. ASSUME NEW R, NEW S, "idle" \notin S, w \notin R
      PROVE  Cardinality(At(R, S))' = Cardinality(At(R, S))
  BY <1>2, <1>8, Moves DEF Here
<1>9. /\ aborts \in Nat /\ Cardinality(Callers) \in Nat
      /\ \A j \in DOMAIN outbox : outbox[j].known \in Nat
  <2>1. \A j \in DOMAIN outbox : outbox[j].known \in Nat
    BY MailTypes
  <2>2. QED
    BY <2>1, LimitsAssumption, FS_CardinalityType DEF Types
<1>10. LoggedWereArchived'
  <2>1. ASSUME NEW r \in Requests
        PROVE  Cardinality(SentOf({r}))' + Cardinality(At({r}, {"record"}))' <= archived'[r]
    <3>1. Cardinality(SentOf({r})) + Cardinality(At({r}, {"record"})) <= archived[r]
      BY DEF LoggedWereArchived
    <3>2. Cardinality(At({r}, {"record"})) \in Nat
      BY Finite
    <3>3. CASE kind = "sent" /\ w \in {r}
      BY <1>1, <1>2, <1>5, <1>7, <3>1, <3>2, <3>3
    <3>4. CASE ~(kind = "sent" /\ w \in {r})
      <4>1. Cardinality(At({r}, {"record"}))' = Cardinality(At({r}, {"record"}))
        BY <1>1, <1>6, <1>8, <3>4
      <4>2. QED
        BY <1>2, <1>5, <3>1, <3>4, <4>1
    <3>5. QED
      BY <3>3, <3>4
  <2>2. QED
    BY <2>1 DEF LoggedWereArchived
<1>11. ArchivedLeft'
  <2>1. \A r \in Requests : Cardinality(At({r}, {"archive"}))' = Cardinality(At({r}, {"archive"}))
    BY <1>2, <1>6
  <2>2. QED
    BY <1>2, <1>4, <2>1 DEF ArchivedLeft
<1>12. Accounted'
  <2>1. ASSUME NEW R \in SUBSET Requests
        PROVE  Cardinality(MailsOf(R))'
                 <= Cardinality(SentOf(R))' + Cardinality(At(R, Unlogged))' + aborts'
    <3>1. Cardinality(MailsOf(R)) <= Cardinality(SentOf(R)) + Cardinality(At(R, Unlogged)) + aborts
      BY DEF Accounted
    <3>2. Cardinality(At(R, Unlogged)) \in Nat
      BY Finite
    <3>3. CASE kind = "sent" /\ w \in R
      <4>1. Cardinality(At(R, Unlogged))' = Cardinality(At(R, Unlogged)) - 1
        BY <1>1, <1>7, <3>3 DEF Unlogged
      <4>2. QED
        BY <1>2, <1>4, <1>5, <1>9, <3>1, <3>2, <3>3, <4>1
    <3>4. CASE ~(kind = "sent" /\ w \in R)
      <4>1. Cardinality(At(R, Unlogged))' = Cardinality(At(R, Unlogged))
        BY <1>1, <1>2, <1>6, <1>8, <3>4 DEF Unlogged
      <4>2. QED
        BY <1>2, <1>4, <1>5, <3>1, <3>4, <4>1
    <3>5. QED
      BY <3>3, <3>4
  <2>2. QED
    BY <2>1 DEF Accounted
<1>13. ThreadHasRoom'
  <2>1. \A R : Cardinality(At(R, Checked))' = Cardinality(At(R, Checked))
    BY <1>2, <1>6 DEF Checked
  <2>2. QED
    BY <1>2, <1>4, <2>1 DEF ThreadHasRoom
<1>14. RepeatsAreOver'
  <2>1. ASSUME NEW r \in Requests, Over(r)'
        PROVE  Cardinality(MailsOf({r}))' + Cardinality(At({r}, Unsent))'
                 <= aborts' + Cardinality(Callers)
    <3>1. Cardinality(At({r}, Unsent))' = Cardinality(At({r}, Unsent))
      BY <1>2, <1>6 DEF Unsent
    <3>2. CASE Over(r)
      BY <1>2, <1>4, <3>1, <3>2 DEF RepeatsAreOver
    <3>3. CASE ~Over(r)
      <4>1. ~Outcome(r)
        BY <2>1, <3>3 DEF Over
      <4>2. SentOf({r}) = {}
        BY <4>1 DEF SentOf, IsSend, Outcome
      <4>3. Cardinality(SentOf({r})) = 0
        BY <4>2, FS_EmptySet
      <4>4. Cardinality(MailsOf({r}))
              <= Cardinality(SentOf({r})) + Cardinality(At({r}, Unlogged)) + aborts
        BY DEF Accounted
      <4>5. /\ Cardinality(At({r}, Unsent)) + Cardinality(At({r}, Unlogged)) <= Cardinality(Callers)
            /\ Cardinality(At({r}, Unsent)) \in Nat /\ Cardinality(At({r}, Unlogged)) \in Nat
            /\ Cardinality(MailsOf({r})) \in Nat
        BY CallersShare, Finite DEF Unsent, Unlogged
      <4>6. QED
        BY <1>2, <1>4, <1>9, <3>1, <4>3, <4>4, <4>5
    <3>4. QED
      BY <3>2, <3>3
  <2>2. QED
    BY <2>1 DEF RepeatsAreOver
<1>15. KnownIsPast'
  BY <1>2, <1>3, <1>9 DEF KnownIsPast
<1>16. OptOutsAreOver'
  <2>1. ASSUME NEW th \in Threads, NEW i \in 1 .. n, OptOut(audits'[i], th), NEW R, R = InThread(th)
        PROVE  Cardinality(Late(i, R))' + Cardinality(At(R, {"send"}))' <= Cardinality(Callers) - 1
    <3>1. Cardinality(At(R, {"send"}))' = Cardinality(At(R, {"send"}))
      BY <1>2, <1>6
    <3>2. CASE i \in DOMAIN audits
      BY <1>3, <1>4, <2>1, <3>1, <3>2 DEF OptOutsAreOver
    <3>3. CASE i = n
      <4>1. pc[c] = "reply"
        BY <1>1, <1>3, <2>1, <3>3 DEF OptOut
      <4>2. Late(i, R) = {}
        <5>1. \A j \in DOMAIN outbox : ~(outbox[j].known >= n)
          BY <1>3, <1>9 DEF KnownIsPast
        <5>2. QED
          BY <3>3, <5>1 DEF Late
      <4>3. Cardinality(Late(i, R)) = 0
        BY <4>2, FS_EmptySet
      <4>4. /\ Cardinality(At(R, {"send"})) + Cardinality(At(R, {})) + 1 <= Cardinality(Callers)
            /\ Cardinality(At(R, {"send"})) \in Nat /\ Cardinality(At(R, {})) \in Nat
        BY <4>1, CallersShare, Finite
      <4>5. QED
        BY <1>4, <1>9, <3>1, <4>3, <4>4
    <3>4. QED
      BY <1>3, <3>2, <3>3
  <2>2. QED
    BY <1>3, <2>1 DEF OptOutsAreOver
<1>17. QED
  BY <1>10, <1>11, <1>12, <1>13, <1>14, <1>15, <1>16

\* Steps that touch neither mails, events nor callers.
LEMMA StillSteps ==
  ASSUME EmailInv, Types', UNCHANGED <<audits, archived, outbox, pc, work, aborts>>
  PROVE  EmailInv'
<1>1. /\ \A R : MailsOf(R)' = MailsOf(R) /\ SentOf(R)' = SentOf(R)
      /\ \A R, S : At(R, S)' = At(R, S)
      /\ \A i, R : Late(i, R)' = Late(i, R)
      /\ \A r : Over(r)' <=> Over(r)
  BY DEF MailsOf, SentOf, At, Late, Over, Outcome
<1>2. QED
  BY <1>1 DEF EmailInv, LoggedWereArchived, ArchivedLeft, Accounted, ThreadHasRoom,
              RepeatsAreOver, KnownIsPast, OptOutsAreOver

LEMMA NextEmailInv == EmailInv /\ [Next]_vars => EmailInv'
<1> SUFFICES ASSUME EmailInv, [Next]_vars PROVE EmailInv'
  OBVIOUS
<1>1. Types /\ Types'
  BY NextTypes DEF EmailInv
<1> USE DEF ledger, callers
<1>2. ASSUME NEW d \in Drafts, StoreDraft(d) PROVE EmailInv'
  BY <1>1, <1>2, StillSteps DEF StoreDraft
<1>3. ASSUME NEW c \in Callers, NEW r \in Requests, Start(c, r) PROVE EmailInv'
  <2>1. /\ OnlyMoves(c) /\ UNCHANGED <<audits, archived, outbox, aborts>>
        /\ pc[c] = "idle" /\ pc'[c] = "draft" /\ work'[c] = r /\ ~Over(r)
    BY <1>1, <1>3, OverIsAnswered DEF Start, Begin, OnlyMoves, Types
  <2>2. QED
    BY <1>1, <2>1, QuietSteps DEF Unlogged
<1>4. ASSUME NEW c \in Callers, CheckDraft(c) PROVE EmailInv'
  <2>1. /\ OnlyMoves(c) /\ UNCHANGED <<audits, archived, outbox, aborts, work>>
        /\ pc[c] = "draft" /\ pc'[c] \in {"limits", "reject"}
    BY <1>1, <1>4 DEF CheckDraft, Check, Goto, OnlyMoves, Types
  <2>2. QED
    BY <1>1, <2>1, QuietSteps DEF Unlogged
<1>5. ASSUME NEW c \in Callers, CheckLimits(c) PROVE EmailInv'
  <2>1. /\ OnlyMoves(c) /\ UNCHANGED <<audits, archived, outbox, aborts, work>>
        /\ pc[c] = "limits" /\ pc'[c] \in {"opt_out", "reject"}
        /\ pc'[c] = "opt_out" => WithinLimits(work[c])
    BY <1>1, <1>5 DEF CheckLimits, Check, Goto, OnlyMoves, Types
  <2>2. QED
    BY <1>1, <2>1, QuietSteps DEF Unlogged
<1>6. ASSUME NEW c \in Callers, CheckOptOut(c) PROVE EmailInv'
  <2>1. /\ OnlyMoves(c) /\ UNCHANGED <<audits, archived, outbox, aborts, work>>
        /\ pc[c] = "opt_out" /\ pc'[c] \in {"send", "reject"}
        /\ pc'[c] = "send" => ~OptedOut(work[c].thread)
    BY <1>1, <1>6 DEF CheckOptOut, Check, Goto, OnlyMoves, Types
  <2>2. QED
    BY <1>1, <2>1, QuietSteps DEF Unlogged
<1>7. ASSUME NEW c \in Callers, NEW m \in Replies, ReceiveReply(c, m) PROVE EmailInv'
  <2>1. /\ OnlyMoves(c) /\ UNCHANGED <<audits, archived, outbox, aborts>>
        /\ pc[c] = "idle" /\ pc'[c] = "reply"
    BY <1>1, <1>7 DEF ReceiveReply, Begin, OnlyMoves, Types
  <2>2. QED
    BY <1>1, <2>1, QuietSteps DEF Unlogged
<1>8. ASSUME NEW c \in Callers, Abort(c) PROVE EmailInv'
  <2>1. /\ OnlyMoves(c) /\ UNCHANGED <<audits, archived, outbox>>
        /\ aborts' = aborts + 1 /\ pc'[c] = "idle"
    BY <1>1, <1>8 DEF Abort, Return, OnlyMoves, Types
  <2>2. QED
    BY <1>1, <2>1, QuietSteps DEF Unlogged
<1>9. CASE NextDay
  BY <1>1, <1>9, StillSteps DEF NextDay
<1>10. CASE UNCHANGED vars
  BY <1>1, <1>10, StillSteps DEF vars
<1>11. QED
  BY <1>1, <1>2, <1>3, <1>4, <1>5, <1>6, <1>7, <1>8, <1>9, <1>10,
     MailSteps, ArchiveSteps, RecordSteps DEF Next, Replay

LEMMA EmailInvariant == Spec => []EmailInv
BY InitEmailInv, NextEmailInv, PTL DEF Spec

-----------------------------------------------------------------------------
\* The records of the email governor keep their types: what is archived for a
\* request is bounded by the mails that left, since the code archives only what
\* the transport accepted (service.py:331).
THEOREM EmailTypeCorrect == Spec => []TypeOK
<1>1. EmailInv => TypeOK
  <2> SUFFICES ASSUME EmailInv PROVE TypeOK
    OBVIOUS
  <2>1. \A r \in Requests : archived[r] \in 0 .. MaxMails
    <3>1. ASSUME NEW r \in Requests PROVE archived[r] \in 0 .. MaxMails
      <4>1. archived[r] + Cardinality(At({r}, {"archive"})) <= Cardinality(MailsOf({r}))
        BY DEF EmailInv, ArchivedLeft
      <4>2. /\ Cardinality(At({r}, {"archive"})) \in Nat /\ Cardinality(MailsOf({r})) \in Nat
            /\ Cardinality(MailsOf({r})) <= Len(outbox)
        BY Finite DEF EmailInv
      <4>3. archived[r] \in Nat /\ Len(outbox) <= MaxMails /\ Len(outbox) \in Nat /\ MaxMails \in Nat
        BY LimitsAssumption DEF EmailInv, Types
      <4>4. QED
        BY <4>1, <4>2, <4>3
    <3>2. QED
      BY <3>1
  <2>2. QED
    BY <2>1 DEF EmailInv, Types, TypeOK
<1>2. QED
  BY <1>1, EmailInvariant, PTL

\* What the log calls sent was archived, and what was archived left: the order of
\* transport, archive and audit event in send_draft, under any interleaving and
\* any call that is lost on the way.
THEOREM ReportsAreOfMails == Spec => []ReportedMailsLeft
<1>1. EmailInv => ReportedMailsLeft
  <2> SUFFICES ASSUME EmailInv, NEW r \in Requests
               PROVE  /\ Cardinality({i \in Sent : audits[i].about = r}) <= archived[r]
                      /\ archived[r] <= Cardinality({i \in DOMAIN outbox : outbox[i].req = r})
    BY DEF ReportedMailsLeft, MailsWhere
  <2>1. Cardinality({i \in Sent : audits[i].about = r}) = Cardinality(SentOf({r}))
    <3>1. {i \in Sent : audits[i].about = r} = SentOf({r})
      BY DEF Sent, SentOf
    <3>2. QED
      BY <3>1
  <2>2. Cardinality({i \in DOMAIN outbox : outbox[i].req = r}) = Cardinality(MailsOf({r}))
    <3>1. {i \in DOMAIN outbox : outbox[i].req = r} = MailsOf({r})
      BY DEF MailsOf
    <3>2. QED
      BY <3>1
  <2>3. /\ Cardinality(SentOf({r})) + Cardinality(At({r}, {"record"})) <= archived[r]
        /\ archived[r] + Cardinality(At({r}, {"archive"})) <= Cardinality(MailsOf({r}))
    BY DEF EmailInv, LoggedWereArchived, ArchivedLeft
  <2>4. /\ Cardinality(At({r}, {"record"})) \in Nat /\ Cardinality(At({r}, {"archive"})) \in Nat
        /\ Cardinality(SentOf({r})) \in Nat /\ Cardinality(MailsOf({r})) \in Nat
    BY Finite DEF EmailInv
  <2>5. archived[r] \in Nat
    BY DEF EmailInv, Types
  <2>6. QED
    BY <2>1, <2>2, <2>3, <2>4, <2>5
<1>2. QED
  BY <1>1, EmailInvariant, PTL

\* After a recorded opt-out at most the mails of the other callers, already past
\* the check, leave in its thread: the check and the mail are not one step
\* (service.py, _thread_has_opt_out), and this is all that it costs.
THEOREM OptOutsAreHonoured == Spec => []OptOutIsHonoured
<1>1. EmailInv => OptOutIsHonoured
  <2> SUFFICES ASSUME EmailInv, NEW i \in DOMAIN audits,
                      audits[i].kind = "reply", audits[i].about.optOut
               PROVE  Cardinality({j \in DOMAIN outbox :
                                     outbox[j].known >= i
                                     /\ outbox[j].req.thread = audits[i].about.thread})
                        <= Cardinality(Callers) - 1
    BY DEF OptOutIsHonoured, MailsWhere
  <2> DEFINE th == audits[i].about.thread  R == InThread(th)
  <2>1. th \in Threads
    <3>1. audits[i] \in Audits
      BY DEF EmailInv, Types
    <3>2. audits[i].about \in Replies
      BY <3>1 DEF Audits
    <3>3. QED
      BY <3>2, RequestsAssumption
  <2>2. \A j \in DOMAIN outbox : outbox[j].req \in Requests
    BY MailTypes DEF EmailInv
  <2>3. Cardinality({j \in DOMAIN outbox : outbox[j].known >= i /\ outbox[j].req.thread = th})
          = Cardinality(Late(i, R))
    <3>1. {j \in DOMAIN outbox : outbox[j].known >= i /\ outbox[j].req.thread = th} = Late(i, R)
      BY <2>2 DEF Late, InThread
    <3>2. QED
      BY <3>1
  <2>4. Cardinality(Late(i, R)) + Cardinality(At(R, {"send"})) <= Cardinality(Callers) - 1
    BY <2>1 DEF EmailInv, OptOutsAreOver, OptOut
  <2>5. /\ Cardinality(Late(i, R)) \in Nat /\ Cardinality(At(R, {"send"})) \in Nat
        /\ Cardinality(Callers) \in Nat
    BY Finite DEF EmailInv
  <2>6. QED
    BY <2>3, <2>4, <2>5
<1>2. QED
  BY <1>1, EmailInvariant, PTL

\* A request with a key of its own leaves once, and once more for each further
\* caller and each lost call at most, however often it is repeated and in whatever
\* order its events are stamped and written: what the lookup by key before the mail
\* (service.py:105) and the event after it are worth.  Requests that share a key are
\* not bounded.
THEOREM RepeatsSendOnce == Spec => []RepeatSendsOnce
<1>1. EmailInv => RepeatSendsOnce
  <2> SUFFICES ASSUME EmailInv, NEW r \in Requests, OwnKey(r)
               PROVE  Cardinality({i \in DOMAIN outbox : outbox[i].req = r}) <= 1 + Slack
    BY DEF RepeatSendsOnce, MailsWhere
  <2>1. Cardinality({i \in DOMAIN outbox : outbox[i].req = r}) = Cardinality(MailsOf({r}))
    <3>1. {i \in DOMAIN outbox : outbox[i].req = r} = MailsOf({r})
      BY DEF MailsOf
    <3>2. QED
      BY <3>1
  <2>2. /\ Cardinality(MailsOf({r})) \in Nat /\ Cardinality(At({r}, Unsent)) \in Nat
        /\ Cardinality(At({r}, Unlogged)) \in Nat /\ Cardinality(Callers) \in Nat
        /\ Cardinality(At({r}, Unlogged)) <= Cardinality(Callers)
    BY Finite DEF EmailInv
  <2>3. aborts \in Nat
    BY LimitsAssumption DEF EmailInv, Types
  <2>4. CASE Outcome(r)
    <3>1. Cardinality(MailsOf({r})) + Cardinality(At({r}, Unsent)) <= aborts + Cardinality(Callers)
      BY <2>4 DEF EmailInv, RepeatsAreOver, Over
    <3>2. QED
      BY <2>1, <2>2, <2>3, <3>1 DEF Slack
  <2>5. CASE ~Outcome(r)
    <3>1. SentOf({r}) = {}
      BY <2>5 DEF SentOf, IsSend, Outcome
    <3>2. Cardinality(SentOf({r})) = 0
      BY <3>1, FS_EmptySet
    <3>3. Cardinality(MailsOf({r}))
            <= Cardinality(SentOf({r})) + Cardinality(At({r}, Unlogged)) + aborts
      BY DEF EmailInv, Accounted
    <3>4. QED
      BY <2>1, <2>2, <2>3, <3>2, <3>3 DEF Slack
  <2>6. QED
    BY <2>4, <2>5
<1>2. QED
  BY <1>1, EmailInvariant, PTL

\* A thread gets its first mail and its follow-ups, and one more for each further
\* caller and each lost call at most, over any number of days (service.py:285):
\* the thread's part of LimitsHold.
THEOREM ThreadsKeepTheirLimit == Spec => []ThreadWithinLimit
<1>1. EmailInv => ThreadWithinLimit
  <2> SUFFICES ASSUME EmailInv, NEW th \in Threads
               PROVE  Cardinality({i \in DOMAIN outbox : outbox[i].req.thread = th})
                        <= 1 + MaxFollowups + Slack
    BY DEF ThreadWithinLimit, MailsWhere
  <2> DEFINE R == InThread(th)
  <2>1. \A j \in DOMAIN outbox : outbox[j].req \in Requests
    BY MailTypes DEF EmailInv
  <2>2. Cardinality({i \in DOMAIN outbox : outbox[i].req.thread = th}) = Cardinality(MailsOf(R))
    <3>1. {i \in DOMAIN outbox : outbox[i].req.thread = th} = MailsOf(R)
      BY <2>1 DEF MailsOf, InThread
    <3>2. QED
      BY <3>1
  <2>3. Cardinality(MailsOf(R)) + Cardinality(At(R, Checked))
          <= MaxFollowups + aborts + Cardinality(Callers)
    BY DEF EmailInv, ThreadHasRoom
  <2>4. /\ Cardinality(MailsOf(R)) \in Nat /\ Cardinality(At(R, Checked)) \in Nat
        /\ Cardinality(Callers) \in Nat
    BY Finite DEF EmailInv
  <2>5. aborts \in Nat /\ MaxFollowups \in Nat
    BY LimitsAssumption DEF EmailInv, Types
  <2>6. QED
    BY <2>2, <2>3, <2>4, <2>5 DEF Slack
<1>2. QED
  BY <1>1, EmailInvariant, PTL

-----------------------------------------------------------------------------
(* The limits of a day.  They need one thing more: that a key belongs to one *)
(* request.  A request whose key another one used first has an event but no  *)
(* stored answer, so it could be repeated on any later day, past the limits  *)
(* of its own date.  The counts are those of one day, and a caller that was  *)
(* dated before today is counted until it is past the check, because its     *)
(* check looks at another day.  A mail of today is carried until its event   *)
(* is written, and by an event of today only: one with an earlier stamp      *)
(* belongs to a mail of an earlier day.                                      *)

KeysApart == \A r \in Requests : OwnKey(r)

FromSender(s) == {r \in Requests : r.sender = s}
ToDomain(dom) == {r \in Requests : DomainOf[r.draft] = dom}

MailsOn(d, R) == {i \in DOMAIN outbox : outbox[i].day = d /\ outbox[i].req \in R}
SentOn(d, R) ==
  {i \in DOMAIN audits : audits[i].kind = "sent" /\ audits[i].day = d /\ audits[i].about \in R}

Unchecked == {"draft", "limits"}
Earlier(R) == {r \in R : r.date < day}

\* A caller whose mail may be one of today and is yet to be recorded as such.
Carried(R) == {c \in Callers :
  work[c] \in R /\ (pc[c] = "archive" \/ (pc[c] = "record" /\ stampDay[c] = day))}

DatesArePast ==
  /\ \A c \in Callers : pc[c] \in SendSteps => work[c].date <= day
  /\ \A i \in DOMAIN outbox : outbox[i].day <= day

AccountedToday == \A R \in SUBSET Requests :
  Cardinality(MailsOn(day, R))
    <= Cardinality(SentOn(day, R)) + Cardinality(Carried(R)) + aborts

DayHasRoom(R, L) ==
  IF L = 0
    THEN MailsOf(R) = {} /\ At(R, Checked) = {}
    ELSE /\ \A d \in Days :
              Cardinality(MailsOn(d, R)) <= L - 1 + aborts + Cardinality(Callers)
         /\ Cardinality(MailsOn(day, R)) + Cardinality(At(R, Checked))
              + Cardinality(At(Earlier(R), Unchecked))
              <= L - 1 + aborts + Cardinality(Callers)

DaysHaveRoom ==
  /\ \A s \in Senders : DayHasRoom(FromSender(s), MaxPerDay)
  /\ \A dom \in Domains : DayHasRoom(ToDomain(dom), MaxPerDomain)

DayInv == DatesArePast /\ AccountedToday /\ DaysHaveRoom

\* The check limits the mails of R to L a day.
Limited(R, L) ==
  /\ R \in SUBSET Requests /\ L \in Nat
  /\ \A r \in R : WithinLimits(r) => Cardinality(SentOn(r.date, R)) < L

LEMMA DayFinite ==
  ASSUME Types, NEW R, NEW d
  PROVE  /\ IsFiniteSet(MailsOn(d, R)) /\ Cardinality(MailsOn(d, R)) \in Nat
         /\ IsFiniteSet(SentOn(d, R)) /\ Cardinality(SentOn(d, R)) \in Nat
<1>1. MailsOn(d, R) \in SUBSET MailsOf(R) /\ SentOn(d, R) \in SUBSET SentOf(R)
  BY DEF MailsOn, MailsOf, SentOn, SentOf
<1>2. IsFiniteSet(MailsOn(d, R)) /\ IsFiniteSet(SentOn(d, R))
  BY <1>1, Finite, FS_Subset
<1>3. QED
  BY <1>2, FS_CardinalityType

LEMMA DayMailCounts ==
  ASSUME Types, NEW m, outbox' = Append(outbox, m), NEW R, NEW d
  PROVE  /\ m.day = d /\ m.req \in R =>
              Cardinality(MailsOn(d, R)') = Cardinality(MailsOn(d, R)) + 1
         /\ ~(m.day = d /\ m.req \in R) =>
              Cardinality(MailsOn(d, R)') = Cardinality(MailsOn(d, R))
<1> DEFINE n == Len(outbox) + 1
<1>1. /\ Len(outbox) \in Nat /\ DOMAIN outbox = 1 .. Len(outbox)
      /\ DOMAIN outbox' = 1 .. n /\ outbox'[n] = m
      /\ \A j \in DOMAIN outbox : outbox'[j] = outbox[j]
  BY DEF Types
<1>2. n \notin DOMAIN outbox /\ DOMAIN outbox' = DOMAIN outbox \cup {n}
  BY <1>1
<1>3. CASE m.day = d /\ m.req \in R
  <2>1. MailsOn(d, R)' = MailsOn(d, R) \cup {n}
    BY <1>1, <1>2, <1>3 DEF MailsOn
  <2>2. n \notin MailsOn(d, R) /\ IsFiniteSet(MailsOn(d, R))
    BY <1>2, DayFinite DEF MailsOn
  <2>3. Cardinality(MailsOn(d, R) \cup {n}) = Cardinality(MailsOn(d, R)) + 1
    BY <2>2, FS_AddElement
  <2>4. QED
    BY <1>3, <2>1, <2>3
<1>4. CASE ~(m.day = d /\ m.req \in R)
  <2>1. MailsOn(d, R)' = MailsOn(d, R)
    BY <1>1, <1>2, <1>4 DEF MailsOn
  <2>2. QED
    BY <1>4, <2>1
<1>5. QED
  BY <1>3, <1>4

LEMMA DayEventCounts ==
  ASSUME Types, NEW a, audits' = Append(audits, a), NEW R, NEW d
  PROVE  /\ a.kind = "sent" /\ a.day = d /\ a.about \in R =>
              Cardinality(SentOn(d, R)') = Cardinality(SentOn(d, R)) + 1
         /\ ~(a.kind = "sent" /\ a.day = d /\ a.about \in R) =>
              Cardinality(SentOn(d, R)') = Cardinality(SentOn(d, R))
<1> DEFINE n == Len(audits) + 1
<1>1. /\ Len(audits) \in Nat /\ DOMAIN audits = 1 .. Len(audits)
      /\ DOMAIN audits' = 1 .. n /\ audits'[n] = a
      /\ \A j \in DOMAIN audits : audits'[j] = audits[j]
  BY DEF Types
<1>2. n \notin DOMAIN audits /\ DOMAIN audits' = DOMAIN audits \cup {n}
  BY <1>1
<1>3. CASE a.kind = "sent" /\ a.day = d /\ a.about \in R
  <2>1. SentOn(d, R)' = SentOn(d, R) \cup {n}
    BY <1>1, <1>2, <1>3 DEF SentOn
  <2>2. n \notin SentOn(d, R) /\ IsFiniteSet(SentOn(d, R))
    BY <1>2, DayFinite DEF SentOn
  <2>3. Cardinality(SentOn(d, R) \cup {n}) = Cardinality(SentOn(d, R)) + 1
    BY <2>2, FS_AddElement
  <2>4. QED
    BY <1>3, <2>1, <2>3
<1>4. CASE ~(a.kind = "sent" /\ a.day = d /\ a.about \in R)
  <2>1. SentOn(d, R)' = SentOn(d, R)
    BY <1>1, <1>2, <1>4 DEF SentOn
  <2>2. QED
    BY <1>4, <2>1
<1>5. QED
  BY <1>3, <1>4

LEMMA CarriedFinite ==
  ASSUME NEW R
  PROVE  /\ Carried(R) \in SUBSET Callers /\ IsFiniteSet(Carried(R))
         /\ Cardinality(Carried(R)) \in Nat /\ Cardinality(Carried(R)') \in Nat
<1>1. Carried(R) \in SUBSET Callers /\ Carried(R)' \in SUBSET Callers
  BY DEF Carried
<1>2. IsFiniteSet(Carried(R)) /\ IsFiniteSet(Carried(R)')
  BY <1>1, LimitsAssumption, FS_Subset
<1>3. QED
  BY <1>1, <1>2, FS_CardinalityType

OnlyStamps(c) == \A d \in Callers \ {c} : stampDay'[d] = stampDay[d]

\* A step of one caller changes the count by that caller.
LEMMA CarriedMoves ==
  ASSUME NEW c \in Callers, OnlyMoves(c), OnlyStamps(c), day' = day, NEW R
  PROVE  /\ c \in Carried(R)' /\ c \in Carried(R) =>
              Cardinality(Carried(R)') = Cardinality(Carried(R))
         /\ c \notin Carried(R)' /\ c \notin Carried(R) =>
              Cardinality(Carried(R)') = Cardinality(Carried(R))
         /\ c \in Carried(R) /\ c \notin Carried(R)' =>
              Cardinality(Carried(R)') = Cardinality(Carried(R)) - 1
         /\ c \notin Carried(R) /\ c \in Carried(R)' =>
              Cardinality(Carried(R)') = Cardinality(Carried(R)) + 1
<1>1. PICK A, B : A = Carried(R) /\ B = Carried(R)'
  OBVIOUS
<1>2. A \ {c} = B \ {c}
  <2>1. \A d \in Callers \ {c} : d \in A <=> d \in B
    BY <1>1 DEF Carried, OnlyMoves, OnlyStamps
  <2>2. A \in SUBSET Callers /\ B \in SUBSET Callers
    BY <1>1 DEF Carried
  <2>3. QED
    BY <2>1, <2>2
<1>3. IsFiniteSet(A)
  BY <1>1, CarriedFinite
<1>4. CASE c \in A <=> c \in B
  <2>1. A = B
    BY <1>2, <1>4
  <2>2. QED
    BY <1>1, <1>4, <2>1
<1>5. CASE c \in A /\ c \notin B
  <2>1. B = A \ {c} /\ Cardinality(A \ {c}) = Cardinality(A) - 1
    BY <1>2, <1>3, <1>5, FS_RemoveElement
  <2>2. QED
    BY <1>1, <1>5, <2>1
<1>6. CASE c \notin A /\ c \in B
  <2>1. B = A \cup {c} /\ Cardinality(A \cup {c}) = Cardinality(A) + 1
    BY <1>2, <1>3, <1>6, FS_AddElement
  <2>2. QED
    BY <1>1, <1>6, <2>1
<1>7. QED
  BY <1>4, <1>5, <1>6

LEMMA Disjoint ==
  ASSUME NEW A, NEW B, IsFiniteSet(A), IsFiniteSet(B), A \cap B = {}
  PROVE  IsFiniteSet(A \cup B) /\ Cardinality(A \cup B) = Cardinality(A) + Cardinality(B)
<1>1. /\ IsFiniteSet(A \cup B)
      /\ Cardinality(A \cup B) = Cardinality(A) + Cardinality(B) - Cardinality(A \cap B)
  BY FS_Union
<1>2. Cardinality(A \cap B) = 0 /\ Cardinality(A) \in Nat /\ Cardinality(B) \in Nat
  BY FS_EmptySet, FS_CardinalityType
<1>3. QED
  BY <1>1, <1>2

LEMMA PlacesShare ==
  ASSUME NEW A \in SUBSET Callers, NEW B \in SUBSET Callers, NEW D \in SUBSET Callers,
         A \cap B = {}, A \cap D = {}, B \cap D = {},
         NEW c \in Callers, c \notin A, c \notin B, c \notin D
  PROVE  Cardinality(A) + Cardinality(B) + Cardinality(D) + 1 <= Cardinality(Callers)
<1>1. IsFiniteSet(Callers) /\ IsFiniteSet(A) /\ IsFiniteSet(B) /\ IsFiniteSet(D)
  BY LimitsAssumption, FS_Subset
<1>2. /\ Cardinality(A) \in Nat /\ Cardinality(B) \in Nat /\ Cardinality(D) \in Nat
      /\ Cardinality(Callers) \in Nat /\ Cardinality({}) = 0
  BY <1>1, FS_CardinalityType, FS_EmptySet
<1>3. IsFiniteSet(A \cup B) /\ Cardinality(A \cup B) = Cardinality(A) + Cardinality(B)
  BY <1>1, Disjoint
<1>4. (A \cup B) \cap D = {}
  OBVIOUS
<1>5. /\ IsFiniteSet(A \cup B \cup D)
      /\ Cardinality(A \cup B \cup D) = Cardinality(A) + Cardinality(B) + Cardinality(D)
  BY <1>1, <1>3, <1>4, Disjoint
<1>6. Cardinality(A \cup B \cup D \cup {c}) = Cardinality(A \cup B \cup D) + 1
  BY <1>5, FS_AddElement
<1>7. A \cup B \cup D \cup {c} \in SUBSET Callers
  OBVIOUS
<1>8. Cardinality(A \cup B \cup D \cup {c}) <= Cardinality(Callers)
  BY <1>1, <1>7, FS_Subset
<1>9. QED
  BY <1>5, <1>6, <1>8

\* What the two limits of a day are about.
LEMMA LimitsOfADay ==
  ASSUME Types
  PROVE  /\ \A s \in Senders : Limited(FromSender(s), MaxPerDay)
         /\ \A dom \in Domains : Limited(ToDomain(dom), MaxPerDomain)
<1>1. \A i \in Sent : audits[i].about \in Requests
  BY DEF Sent, Types, Audits
<1>2. ASSUME NEW s \in Senders, NEW r \in FromSender(s)
      PROVE  SentOnDay(r) = SentOn(r.date, FromSender(s))
  BY <1>1, <1>2 DEF SentOnDay, SentOn, Sent, FromSender
<1>3. ASSUME NEW dom \in Domains, NEW r \in ToDomain(dom)
      PROVE  SentToDomain(r) = SentOn(r.date, ToDomain(dom))
  BY <1>1, <1>3 DEF SentToDomain, SentOn, Sent, ToDomain
<1>4. QED
  BY <1>2, <1>3, LimitsAssumption DEF Limited, WithinLimits, FromSender, ToDomain

\* A key that is apart is answered as soon as an event is about its request, so a
\* call that starts is dated today.
LEMMA StartsAreDatedToday ==
  ASSUME Types, KeysApart, NEW r \in Requests, Dated(r), ~Answered(r)
  PROVE  r.date = day
<1>1. ASSUME NEW i \in DOMAIN audits, audits[i].about = r PROVE FALSE
  <2>1. audits[i] \in Audits
    BY DEF Types
  <2>2. r \notin Replies
    <3>1. ASSUME r \in Replies PROVE FALSE
      <4>1. DOMAIN r = {"thread", "optOut"}
        BY <3>1, RequestsAssumption
      <4>2. "key" \in DOMAIN r
        BY RequestsAssumption
      <4>3. QED
        BY <4>1, <4>2
    <3>2. QED
      BY <3>1
  <2>3. IsSend(audits[i])
    BY <1>1, <2>1, <2>2 DEF Audits, IsSend
  <2>4. Over(r)
    BY <1>1, <2>3 DEF KeysApart, Over, Outcome
  <2>5. QED
    BY <2>4, OverIsAnswered
<1>2. QED
  BY <1>1 DEF Dated

LEMMA InitDayInv == Init => DayInv
<1> SUFFICES ASSUME Init PROVE DayInv
  OBVIOUS
<1>1. /\ \A R : MailsOf(R) = {}
      /\ \A d, R : MailsOn(d, R) = {} /\ SentOn(d, R) = {}
      /\ \A R : At(R, Checked) = {} /\ At(R, Unchecked) = {} /\ Carried(R) = {}
  BY DEF Init, MailsOf, MailsOn, SentOn, At, Checked, Unchecked, Carried
<1>2. Cardinality({}) = 0 /\ Cardinality(Callers) \in Nat
  BY LimitsAssumption, FS_EmptySet, FS_CardinalityType
<1>3. DatesArePast
  BY DEF Init, DatesArePast, SendSteps
<1>4. AccountedToday
  <2>1. ASSUME NEW R
        PROVE  Cardinality(MailsOn(day, R))
                 <= Cardinality(SentOn(day, R)) + Cardinality(Carried(R)) + aborts
    <3>1. MailsOn(day, R) = {} /\ SentOn(day, R) = {} /\ Carried(R) = {} /\ aborts = 0
      BY <1>1 DEF Init
    <3>2. QED
      BY <1>2, <3>1
  <2>2. QED
    BY <2>1 DEF AccountedToday
<1>5. ASSUME NEW R, NEW L \in Nat PROVE DayHasRoom(R, L)
  <2>1. At(Earlier(R), Unchecked) = {}
    BY DEF Init, At, Unchecked
  <2>2. CASE L = 0
    BY <1>1, <2>2 DEF DayHasRoom
  <2>3. CASE L # 0
    <3>1. Cardinality(Callers) \in Nat /\ aborts = 0 /\ 0 <= L - 1 + aborts + Cardinality(Callers)
      BY <1>2, <2>3 DEF Init
    <3>2. ASSUME NEW d \in Days
          PROVE  Cardinality(MailsOn(d, R)) <= L - 1 + aborts + Cardinality(Callers)
      BY <1>1, <1>2, <3>1
    <3>3. Cardinality(MailsOn(day, R)) + Cardinality(At(R, Checked))
            + Cardinality(At(Earlier(R), Unchecked)) = 0
      BY <1>1, <1>2, <2>1
    <3>4. QED
      BY <2>3, <3>1, <3>2, <3>3 DEF DayHasRoom
  <2>4. QED
    BY <2>2, <2>3
<1>6. QED
  BY <1>3, <1>4, <1>5, LimitsAssumption DEF DayInv, DaysHaveRoom

\* A check that passes today: those that it counts, and the other callers.
LEMMA CheckedToday ==
  ASSUME Types, DatesArePast, AccountedToday, NEW R, NEW L, Limited(R, L),
         NEW c \in Callers, pc[c] = "limits", work[c] \in R, work[c].date = day,
         WithinLimits(work[c])
  PROVE  Cardinality(MailsOn(day, R)) + Cardinality(At(R, Checked))
           + Cardinality(At(Earlier(R), Unchecked)) + 1
           <= L - 1 + aborts + Cardinality(Callers)
<1>1. Cardinality(SentOn(day, R)) < L
  BY DEF Limited
<1>2. Cardinality(MailsOn(day, R))
        <= Cardinality(SentOn(day, R)) + Cardinality(Carried(R)) + aborts
  BY DEF Limited, AccountedToday
<1> DEFINE A == Carried(R)  B == At(R, Checked)  D == At(Earlier(R), Unchecked)
<1>3. Cardinality(A) + Cardinality(B) + Cardinality(D) + 1 <= Cardinality(Callers)
  <2>1. /\ A \in SUBSET Callers /\ B \in SUBSET Callers /\ D \in SUBSET Callers
        /\ A \cap B = {} /\ A \cap D = {} /\ B \cap D = {}
    BY DEF At, Carried, Checked, Unchecked
  <2>2. c \notin A /\ c \notin B
    BY DEF At, Carried, Checked
  <2>3. c \notin D
    <3>1. day \in Nat
      BY LimitsAssumption DEF Types, Days
    <3>2. work[c] \notin Earlier(R)
      BY <3>1 DEF Earlier
    <3>3. QED
      BY <3>2 DEF At
  <2>4. QED
    BY <2>1, <2>2, <2>3, PlacesShare
<1>4. /\ Cardinality(MailsOn(day, R)) \in Nat /\ Cardinality(SentOn(day, R)) \in Nat
      /\ Cardinality(A) \in Nat /\ Cardinality(B) \in Nat /\ Cardinality(D) \in Nat
      /\ Cardinality(Callers) \in Nat /\ aborts \in Nat /\ L \in Nat
  BY Finite, CarriedFinite, DayFinite, LimitsAssumption DEF Types, Limited
<1>5. QED
  BY <1>1, <1>2, <1>3, <1>4

\* Steps that write no event and let no mail out.
LEMMA QuietDay ==
  ASSUME Types, Types', DatesArePast, AccountedToday,
         NEW c \in Callers, OnlyMoves(c), OnlyStamps(c), UNCHANGED <<audits, outbox, day>>,
         aborts' \in {aborts, aborts + 1},
         pc'[c] \in SendSteps => work'[c].date <= day,
         pc'[c] \in Unlogged => /\ pc[c] = "archive" /\ pc'[c] = "record"
                               /\ work'[c] = work[c] /\ stampDay'[c] = day,
         pc[c] \in Unlogged => pc'[c] = "record" \/ aborts' = aborts + 1,
         pc'[c] = "draft" => work'[c].date = day,
         pc'[c] = "limits" => pc[c] = "draft" /\ work'[c] = work[c],
         pc'[c] = "opt_out" => pc[c] = "limits" /\ work'[c] = work[c] /\ WithinLimits(work[c]),
         pc'[c] = "send" => pc[c] = "opt_out" /\ work'[c] = work[c]
  PROVE  /\ DatesArePast' /\ AccountedToday'
         /\ \A R, L : Limited(R, L) /\ DayHasRoom(R, L) => DayHasRoom(R, L)'
<1>1. /\ \A R : MailsOf(R)' = MailsOf(R) /\ Earlier(R)' = Earlier(R)
      /\ \A d, R : MailsOn(d, R)' = MailsOn(d, R) /\ SentOn(d, R)' = SentOn(d, R)
  BY DEF MailsOf, MailsOn, SentOn, Earlier
<1>2. /\ aborts \in Nat /\ aborts' \in Nat /\ Cardinality(Callers) \in Nat
      /\ day \in Nat /\ day' = day
  BY LimitsAssumption, FS_CardinalityType DEF Types, Days
<1>3. DatesArePast'
  BY DEF DatesArePast, OnlyMoves
<1>4. AccountedToday'
  <2>1. ASSUME NEW R \in SUBSET Requests
        PROVE  Cardinality(MailsOn(day, R))
                 <= Cardinality(SentOn(day, R)) + Cardinality(Carried(R)') + aborts'
    <3>1. c \in Carried(R)' => c \in Carried(R)
      BY DEF Carried, Unlogged
    <3>2. c \in Carried(R) /\ c \notin Carried(R)' => aborts' = aborts + 1
      BY <1>2 DEF Carried, Unlogged
    <3>3. Cardinality(MailsOn(day, R))
            <= Cardinality(SentOn(day, R)) + Cardinality(Carried(R)) + aborts
      BY DEF AccountedToday
    <3>4. Cardinality(Carried(R)) + aborts <= Cardinality(Carried(R)') + aborts'
      BY <1>2, <3>1, <3>2, CarriedFinite, CarriedMoves
    <3>5. /\ Cardinality(MailsOn(day, R)) \in Nat /\ Cardinality(SentOn(day, R)) \in Nat
          /\ Cardinality(Carried(R)) \in Nat /\ Cardinality(Carried(R)') \in Nat
      BY CarriedFinite, DayFinite
    <3>6. QED
      BY <1>2, <3>3, <3>4, <3>5
  <2>2. QED
    BY <1>1, <1>2, <2>1 DEF AccountedToday
<1>5. ASSUME NEW R, NEW L, Limited(R, L), DayHasRoom(R, L) PROVE DayHasRoom(R, L)'
  <2>1. CASE L = 0
    <3>1. \A r \in R : Cardinality(SentOn(r.date, R)) \in Nat
      BY DayFinite
    <3>2. \A r \in R : ~WithinLimits(r)
      BY <1>5, <2>1, <3>1 DEF Limited
    <3>3. MailsOf(R) = {} /\ At(R, Checked) = {}
      BY <1>5, <2>1 DEF DayHasRoom
    <3>4. ~Here(c, R, Checked)'
      BY <3>2, <3>3 DEF Here, At, Checked
    <3>5. At(R, Checked)' = {}
      BY <3>3, <3>4 DEF At, Here, OnlyMoves
    <3>6. QED
      BY <1>1, <2>1, <3>3, <3>5 DEF DayHasRoom
  <2>2. CASE L # 0
    <3>1. PICK E : E = Earlier(R)
      OBVIOUS
    <3> DEFINE M == Cardinality(MailsOn(day, R))
               K == Cardinality(At(R, Checked))  K1 == Cardinality(At(R, Checked))'
               B == Cardinality(At(E, Unchecked))  B1 == Cardinality(At(E, Unchecked))'
               C == Cardinality(Callers)
    <3>2. M + K + B <= L - 1 + aborts + C
      BY <1>5, <2>2, <3>1 DEF DayHasRoom
    <3>3. /\ M \in Nat /\ K \in Nat /\ K1 \in Nat /\ B \in Nat /\ B1 \in Nat /\ C \in Nat
          /\ L \in Nat
      BY <1>2, <1>5, DayFinite, Finite, Moves DEF Limited
    <3>4. Here(c, E, Unchecked)' => Here(c, E, Unchecked)
      BY <1>2, <3>1 DEF Here, Unchecked, Earlier
    <3>5. M + K1 + B1 <= L - 1 + aborts' + C
      <4>1. CASE ~Here(c, R, Checked) /\ Here(c, R, Checked)'
        <5>1. pc[c] = "limits" /\ work'[c] = work[c] /\ work[c] \in R /\ WithinLimits(work[c])
          BY <4>1 DEF Here, Checked
        <5>2. K1 = K + 1
          BY <4>1, Moves
        <5>3. CASE work[c].date = day
          <6>1. M + K + B + 1 <= L - 1 + aborts + C
            BY <1>5, <3>1, <5>1, <5>3, CheckedToday
          <6>2. B1 <= B
            BY <3>3, <3>4, Moves
          <6>3. QED
            BY <1>2, <3>3, <5>2, <6>1, <6>2
        <5>4. CASE work[c].date # day
          <6>1. work[c] \in E
            <7>1. work[c] \in Requests /\ work[c].date <= day
              BY <5>1 DEF Types, SendSteps, DatesArePast
            <7>2. work[c].date \in Nat
              BY <7>1, RequestsAssumption, LimitsAssumption DEF Days
            <7>3. work[c].date < day
              BY <1>2, <5>4, <7>1, <7>2
            <7>4. QED
              BY <3>1, <5>1, <7>3 DEF Earlier
          <6>2. Here(c, E, Unchecked) /\ ~Here(c, E, Unchecked)'
            BY <4>1, <5>1, <6>1 DEF Here, Checked, Unchecked
          <6>3. B1 = B - 1
            BY <6>2, Moves
          <6>4. QED
            BY <1>2, <3>2, <3>3, <5>2, <6>3
        <5>5. QED
          BY <5>3, <5>4
      <4>2. CASE ~(~Here(c, R, Checked) /\ Here(c, R, Checked)')
        <5>1. K1 <= K /\ B1 <= B
          BY <3>3, <3>4, <4>2, Moves
        <5>2. QED
          BY <1>2, <3>2, <3>3, <5>1
      <4>3. QED
        BY <4>1, <4>2
    <3>6. ASSUME NEW d \in Days
          PROVE  Cardinality(MailsOn(d, R)) <= L - 1 + aborts' + C
      <4>1. Cardinality(MailsOn(d, R)) <= L - 1 + aborts + C
        BY <1>5, <2>2 DEF DayHasRoom
      <4>2. Cardinality(MailsOn(d, R)) \in Nat
        BY DayFinite
      <4>3. QED
        BY <1>2, <3>3, <4>1, <4>2
    <3>7. At(Earlier(R), Unchecked)' = At(E, Unchecked)'
      BY <1>1, <3>1 DEF At
    <3>8. QED
      BY <1>1, <1>2, <2>2, <3>5, <3>6, <3>7 DEF DayHasRoom
  <2>3. QED
    BY <2>1, <2>2
<1>6. QED
  BY <1>3, <1>4, <1>5

\* A mail leaves: its caller's place among those past the check becomes a mail of
\* today.
LEMMA MailDay ==
  ASSUME Types, DatesArePast, AccountedToday, NEW c \in Callers, Send(c)
  PROVE  /\ DatesArePast' /\ AccountedToday'
         /\ \A R, L : Limited(R, L) /\ DayHasRoom(R, L) => DayHasRoom(R, L)'
<1>1. PICK m : m = [req |-> work[c], day |-> day, known |-> Len(audits)]
  OBVIOUS
<1>2. /\ outbox' = Append(outbox, m) /\ m.req = work[c] /\ m.day = day
      /\ OnlyMoves(c) /\ pc[c] = "send" /\ pc'[c] = "archive" /\ work' = work
      /\ OnlyStamps(c) /\ UNCHANGED <<audits, day, aborts>>
  BY <1>1 DEF Send, Goto, OnlyMoves, OnlyStamps, ledger, stamps, Types
<1>3. /\ \A R : Earlier(R)' = Earlier(R)
      /\ \A d, R : SentOn(d, R)' = SentOn(d, R)
  BY <1>2 DEF SentOn, Earlier
<1>4. aborts \in Nat /\ Cardinality(Callers) \in Nat /\ day \in Nat
  BY LimitsAssumption, FS_CardinalityType DEF Types, Days
<1>5. DatesArePast'
  <2>1. ASSUME NEW i \in DOMAIN outbox' PROVE outbox'[i].day <= day
    <3>1. (i \in DOMAIN outbox /\ outbox'[i] = outbox[i]) \/ outbox'[i] = m
      BY <1>2 DEF Types
    <3>2. QED
      BY <1>2, <1>4, <3>1 DEF DatesArePast
  <2>2. \A d \in Callers : pc'[d] \in SendSteps => work'[d].date <= day
    BY <1>2 DEF DatesArePast, OnlyMoves, SendSteps
  <2>3. QED
    BY <1>2, <2>1, <2>2 DEF DatesArePast
<1>6. AccountedToday'
  <2>1. ASSUME NEW R \in SUBSET Requests, NEW d, d = day
        PROVE  Cardinality(MailsOn(d, R)')
                 <= Cardinality(SentOn(d, R)) + Cardinality(Carried(R)') + aborts
    <3>1. Cardinality(MailsOn(d, R))
            <= Cardinality(SentOn(d, R)) + Cardinality(Carried(R)) + aborts
      BY <2>1 DEF AccountedToday
    <3>2. /\ Cardinality(Carried(R)') \in Nat /\ Cardinality(Carried(R)) \in Nat
          /\ Cardinality(MailsOn(d, R)) \in Nat /\ Cardinality(SentOn(d, R)) \in Nat
      BY CarriedFinite, DayFinite
    <3>3. c \notin Carried(R) /\ (c \in Carried(R)' <=> work[c] \in R)
      BY <1>2 DEF Carried
    <3>4. CASE work[c] \in R
      <4>1. Cardinality(Carried(R)') = Cardinality(Carried(R)) + 1
        BY <1>2, <3>3, <3>4, CarriedMoves
      <4>2. Cardinality(MailsOn(d, R)') = Cardinality(MailsOn(d, R)) + 1
        BY <1>2, <2>1, <3>4, DayMailCounts
      <4>3. QED
        BY <1>4, <3>1, <3>2, <4>1, <4>2
    <3>5. CASE work[c] \notin R
      <4>1. Cardinality(Carried(R)') = Cardinality(Carried(R))
        BY <1>2, <3>3, <3>5, CarriedMoves
      <4>2. Cardinality(MailsOn(d, R)') = Cardinality(MailsOn(d, R))
        BY <1>2, <3>5, DayMailCounts
      <4>3. QED
        BY <1>4, <3>1, <3>2, <4>1, <4>2
    <3>6. QED
      BY <3>4, <3>5
  <2>2. PICK d : d = day
    OBVIOUS
  <2>3. day' = d /\ aborts' = aborts /\ \A R : SentOn(d, R)' = SentOn(d, R)
    BY <1>2, <1>3, <2>2
  <2>4. QED
    BY <2>1, <2>2, <2>3 DEF AccountedToday
<1>7. ASSUME NEW R, NEW L, Limited(R, L), DayHasRoom(R, L) PROVE DayHasRoom(R, L)'
  <2>1. CASE L = 0
    <3>1. work[c] \notin R
      BY <1>2, <1>7, <2>1 DEF DayHasRoom, At, Checked
    <3>2. MailsOf(R)' = {}
      <4>1. \A i \in DOMAIN outbox' : (i \in DOMAIN outbox /\ outbox'[i] = outbox[i]) \/ outbox'[i] = m
        BY <1>2 DEF Types
      <4>2. QED
        BY <1>2, <1>7, <2>1, <3>1, <4>1 DEF DayHasRoom, MailsOf
    <3>3. At(R, Checked)' = {}
      BY <1>2, <1>7, <2>1, <3>1 DEF DayHasRoom, At, OnlyMoves
    <3>4. QED
      BY <2>1, <3>2, <3>3 DEF DayHasRoom
  <2>2. CASE L # 0
    <3>1. PICK E, d : E = Earlier(R) /\ d = day
      OBVIOUS
    <3> DEFINE M == Cardinality(MailsOn(d, R))       M1 == Cardinality(MailsOn(d, R)')
               K == Cardinality(At(R, Checked))      K1 == Cardinality(At(R, Checked))'
               B == Cardinality(At(E, Unchecked))    B1 == Cardinality(At(E, Unchecked))'
               C == Cardinality(Callers)
    <3>2. M + K + B <= L - 1 + aborts + C
      BY <1>7, <2>2, <3>1 DEF DayHasRoom
    <3>3. /\ M \in Nat /\ K \in Nat /\ K1 \in Nat /\ B \in Nat /\ B1 \in Nat /\ C \in Nat
          /\ L \in Nat
      BY <1>2, <1>4, <1>7, DayFinite, Finite, Moves DEF Limited
    <3>4. ~Here(c, E, Unchecked)' /\ ~Here(c, E, Unchecked)
      BY <1>2 DEF Here, Unchecked
    <3>5. B1 = B
      BY <1>2, <3>4, Moves
    <3>6. ~Here(c, R, Checked)' /\ (Here(c, R, Checked) <=> work[c] \in R)
      BY <1>2 DEF Here, Checked
    <3>7. M1 + K1 = M + K
      <4>1. CASE work[c] \in R
        <5>1. K1 = K - 1
          BY <1>2, <3>6, <4>1, Moves
        <5>2. M1 = M + 1
          BY <1>2, <3>1, <4>1, DayMailCounts
        <5>3. QED
          BY <3>3, <5>1, <5>2
      <4>2. CASE work[c] \notin R
        <5>1. K1 = K
          BY <1>2, <3>6, <4>2, Moves
        <5>2. M1 = M
          BY <1>2, <4>2, DayMailCounts
        <5>3. QED
          BY <3>3, <5>1, <5>2
      <4>3. QED
        BY <4>1, <4>2
    <3>8. M1 \in Nat
      BY <1>2, <3>3, DayMailCounts
    <3>9. M1 + K1 + B1 <= L - 1 + aborts + C /\ M1 <= L - 1 + aborts + C
      BY <1>4, <3>2, <3>3, <3>5, <3>7, <3>8
    <3>10. ASSUME NEW e \in Days
           PROVE  Cardinality(MailsOn(e, R)') <= L - 1 + aborts + C
      <4>1. CASE e = d
        BY <3>9, <4>1
      <4>2. CASE e # d
        <5>1. Cardinality(MailsOn(e, R)') = Cardinality(MailsOn(e, R))
          BY <1>2, <3>1, <4>2, DayMailCounts
        <5>2. QED
          BY <1>7, <2>2, <5>1 DEF DayHasRoom
      <4>3. QED
        BY <4>1, <4>2
    <3>11. At(Earlier(R), Unchecked)' = At(E, Unchecked)' /\ day' = d /\ aborts' = aborts
      BY <1>2, <1>3, <3>1 DEF At
    <3>12. QED
      BY <2>2, <3>9, <3>10, <3>11 DEF DayHasRoom
  <2>3. QED
    BY <2>1, <2>2
<1>8. QED
  BY <1>5, <1>6, <1>7

\* An event is written: a mail that was carried is counted among the events of today.
LEMMA RecordDay ==
  ASSUME Types, DatesArePast, AccountedToday, NEW c \in Callers,
         RecordSent(c) \/ Reject(c) \/ RecordReply(c)
  PROVE  /\ DatesArePast' /\ AccountedToday'
         /\ \A R, L : Limited(R, L) /\ DayHasRoom(R, L) => DayHasRoom(R, L)'
<1>1. PICK a : /\ audits' = Append(audits, a) /\ a.about = work[c] /\ a.day = stampDay[c]
               /\ \/ pc[c] = "record" /\ a.kind = "sent"
                  \/ pc[c] \in {"reject", "reply"} /\ a.kind # "sent"
  <2>1. PICK kind \in {"sent", "rejected", "reply"} :
          /\ Record(c, kind)
          /\ \/ pc[c] = "record" /\ kind = "sent"
             \/ pc[c] \in {"reject", "reply"} /\ kind # "sent"
    <3>1. CASE RecordSent(c)
      BY <3>1 DEF RecordSent
    <3>2. CASE Reject(c)
      BY <3>2 DEF Reject
    <3>3. CASE RecordReply(c)
      BY <3>3 DEF RecordReply
    <3>4. QED
      BY <3>1, <3>2, <3>3
  <2>2. PICK b : b = [kind |-> kind, about |-> work[c],
                    day |-> stampDay[c], at |-> stamp[c]]
    OBVIOUS
  <2>3. audits' = Append(audits, b)
    BY <2>1, <2>2 DEF Record
  <2>4. QED
    BY <2>1, <2>2, <2>3
<1>2. /\ OnlyMoves(c) /\ pc'[c] = "idle" /\ pc[c] \notin Checked \cup Unchecked
      /\ OnlyStamps(c) /\ UNCHANGED <<outbox, day, aborts>>
  BY DEF RecordSent, Reject, RecordReply, Return, Unstamped, OnlyMoves, OnlyStamps, Types,
         Checked, Unchecked
<1>3. \A R : MailsOf(R)' = MailsOf(R) /\ Earlier(R)' = Earlier(R)
  BY <1>2 DEF MailsOf, Earlier
<1>4. \A d, R : MailsOn(d, R)' = MailsOn(d, R)
  BY <1>2 DEF MailsOn
<1>5. aborts \in Nat /\ Cardinality(Callers) \in Nat
  BY LimitsAssumption, FS_CardinalityType DEF Types
<1>6. DatesArePast'
  BY <1>2 DEF DatesArePast, OnlyMoves, SendSteps
<1>7. AccountedToday'
  <2>1. ASSUME NEW R \in SUBSET Requests, NEW d, d = day
        PROVE  Cardinality(MailsOn(d, R))
                 <= Cardinality(SentOn(d, R)') + Cardinality(Carried(R)') + aborts
    <3>1. Cardinality(MailsOn(d, R))
            <= Cardinality(SentOn(d, R)) + Cardinality(Carried(R)) + aborts
      BY <2>1 DEF AccountedToday
    <3>2. /\ Cardinality(Carried(R)') \in Nat /\ Cardinality(Carried(R)) \in Nat
          /\ Cardinality(MailsOn(d, R)) \in Nat /\ Cardinality(SentOn(d, R)) \in Nat
      BY CarriedFinite, DayFinite
    <3>3. /\ c \notin Carried(R)'
          /\ c \in Carried(R) <=> pc[c] = "record" /\ work[c] \in R /\ stampDay[c] = day
      BY <1>1, <1>2 DEF Carried
    <3>4. CASE c \in Carried(R)
      <4>1. Cardinality(Carried(R)') = Cardinality(Carried(R)) - 1
        BY <1>2, <3>3, <3>4, CarriedMoves
      <4>2. Cardinality(SentOn(d, R)') = Cardinality(SentOn(d, R)) + 1
        BY <1>1, <2>1, <3>3, <3>4, DayEventCounts
      <4>3. QED
        BY <1>5, <3>1, <3>2, <4>1, <4>2
    <3>5. CASE c \notin Carried(R)
      <4>1. Cardinality(Carried(R)') = Cardinality(Carried(R))
        BY <1>2, <3>3, <3>5, CarriedMoves
      <4>2. Cardinality(SentOn(d, R)') = Cardinality(SentOn(d, R))
        BY <1>1, <2>1, <3>3, <3>5, DayEventCounts
      <4>3. QED
        BY <1>5, <3>1, <3>2, <4>1, <4>2
    <3>6. QED
      BY <3>4, <3>5
  <2>2. PICK d : d = day
    OBVIOUS
  <2>3. day' = d /\ aborts' = aborts /\ \A R : MailsOn(d, R)' = MailsOn(d, R)
    BY <1>2, <1>4, <2>2
  <2>4. QED
    BY <2>1, <2>2, <2>3 DEF AccountedToday
<1>8. ASSUME NEW R, NEW L, Limited(R, L), DayHasRoom(R, L) PROVE DayHasRoom(R, L)'
  <2>1. At(R, Checked)' = At(R, Checked)
    BY <1>2 DEF At, OnlyMoves, Checked
  <2>2. At(Earlier(R), Unchecked)' = At(Earlier(R), Unchecked)
    BY <1>2, <1>3 DEF At, OnlyMoves, Unchecked
  <2>3. QED
    BY <1>2, <1>3, <1>4, <1>8, <2>1, <2>2 DEF DayHasRoom
<1>9. QED
  BY <1>6, <1>7, <1>8

\* The next day starts without mails, and every caller on its way was dated before.
LEMMA NextDayRoom ==
  ASSUME Types, DatesArePast, NextDay
  PROVE  /\ DatesArePast' /\ AccountedToday'
         /\ \A R, L : Limited(R, L) /\ DayHasRoom(R, L) => DayHasRoom(R, L)'
<1>1. /\ day \in Nat /\ day' = day + 1 /\ day \in Days
      /\ UNCHANGED <<audits, outbox, pc, work, aborts>>
  BY LimitsAssumption DEF NextDay, Types, Days, ledger, callers
<1>2. /\ \A R : MailsOf(R)' = MailsOf(R)
      /\ \A d, R : MailsOn(d, R)' = MailsOn(d, R) /\ SentOn(d, R)' = SentOn(d, R)
      /\ \A R, S : At(R, S)' = At(R, S)
  BY <1>1 DEF MailsOf, MailsOn, SentOn, At
<1>3. aborts \in Nat /\ Cardinality(Callers) \in Nat /\ Cardinality({}) = 0
  BY LimitsAssumption, FS_CardinalityType, FS_EmptySet DEF Types
<1>4. DatesArePast'
  <2>1. ASSUME NEW c \in Callers, pc[c] \in SendSteps PROVE work[c].date <= day + 1
    <3>1. work[c] \in Requests /\ work[c].date <= day
      BY <2>1 DEF Types, DatesArePast
    <3>2. work[c].date \in Nat
      BY <3>1, RequestsAssumption, LimitsAssumption DEF Days
    <3>3. QED
      BY <1>1, <3>1, <3>2
  <2>2. ASSUME NEW i \in DOMAIN outbox PROVE outbox[i].day <= day + 1
    <3>1. outbox[i].day \in Days
      BY MailTypes
    <3>2. outbox[i].day \in Nat /\ outbox[i].day <= day
      BY <3>1, LimitsAssumption DEF DatesArePast, Days
    <3>3. QED
      BY <1>1, <3>2
  <2>3. QED
    BY <1>1, <2>1, <2>2 DEF DatesArePast
<1>5. ASSUME NEW R PROVE MailsOn(day + 1, R) = {}
  <2>1. ASSUME NEW i \in DOMAIN outbox PROVE outbox[i].day # day + 1
    BY <1>1 DEF DatesArePast
  <2>2. QED
    BY <2>1 DEF MailsOn
<1>6. AccountedToday'
  <2>1. ASSUME NEW R
        PROVE  Cardinality(MailsOn(day + 1, R))
                 <= Cardinality(SentOn(day + 1, R)) + Cardinality(Carried(R)') + aborts
    <3>1. Cardinality(SentOn(day + 1, R)) \in Nat /\ Cardinality(Carried(R)') \in Nat
      BY DayFinite, CarriedFinite
    <3>2. QED
      BY <1>3, <1>5, <3>1
  <2>2. PICK d : d = day + 1
    OBVIOUS
  <2>3. /\ day' = d /\ aborts' = aborts
        /\ \A R : MailsOn(d, R)' = MailsOn(d, R) /\ SentOn(d, R)' = SentOn(d, R)
    BY <1>1, <1>2, <2>2
  <2>4. QED
    BY <1>2, <2>1, <2>2, <2>3 DEF AccountedToday
<1>7. ASSUME NEW R, NEW L, Limited(R, L), DayHasRoom(R, L) PROVE DayHasRoom(R, L)'
  <2>1. CASE L = 0
    BY <1>2, <1>7, <2>1 DEF DayHasRoom
  <2>2. CASE L # 0
    <3>1. PICK E, d : E = Earlier(R)' /\ d = day + 1
      OBVIOUS
    <3>2. Cardinality(At(R, Checked)) + Cardinality(At(E, Unchecked)) <= Cardinality(Callers)
      <4> DEFINE A == At(R, Checked)  B == At(E, Unchecked)
      <4>1. A \cap B = {} /\ A \cup B \in SUBSET Callers /\ IsFiniteSet(Callers)
        BY LimitsAssumption DEF At, Checked, Unchecked
      <4>2. Cardinality(A \cup B) = Cardinality(A) + Cardinality(B)
        BY <4>1, Finite, Disjoint
      <4>3. Cardinality(A \cup B) <= Cardinality(Callers)
        BY <4>1, FS_Subset
      <4>4. QED
        BY <4>2, <4>3
    <3>3. Cardinality(MailsOn(d, R)) = 0
      BY <1>3, <1>5, <3>1
    <3>4. /\ Cardinality(At(R, Checked)) \in Nat /\ Cardinality(At(E, Unchecked)) \in Nat
          /\ L \in Nat
      BY <1>7, Finite DEF Limited
    <3>5. Cardinality(MailsOn(d, R)) + Cardinality(At(R, Checked)) + Cardinality(At(E, Unchecked))
            <= L - 1 + aborts + Cardinality(Callers)
      BY <1>3, <2>2, <3>2, <3>3, <3>4
    <3>6. At(Earlier(R), Unchecked)' = At(E, Unchecked)
      <4>1. At(E, Unchecked)' = At(E, Unchecked)
        BY <1>2
      <4>2. QED
        BY <3>1, <4>1 DEF At
    <3>7. /\ day' = d /\ aborts' = aborts /\ At(R, Checked)' = At(R, Checked)
          /\ MailsOn(d, R)' = MailsOn(d, R)
      BY <1>1, <1>2, <3>1
    <3>8. \A e \in Days : Cardinality(MailsOn(e, R)) <= L - 1 + aborts + Cardinality(Callers)
      BY <1>7, <2>2 DEF DayHasRoom
    <3>9. QED
      BY <1>2, <2>2, <3>5, <3>6, <3>7, <3>8 DEF DayHasRoom
  <2>3. QED
    BY <2>1, <2>2
<1>8. QED
  BY <1>4, <1>6, <1>7

LEMMA NextDayInv == KeysApart /\ EmailInv /\ DayInv /\ [Next]_vars => DayInv'
<1> SUFFICES ASSUME KeysApart, EmailInv, DayInv, [Next]_vars PROVE DayInv'
  OBVIOUS
<1>1. Types /\ Types' /\ DatesArePast /\ AccountedToday
  BY NextTypes DEF EmailInv, DayInv
<1>2. \A c \in Callers : pc[c] \in SendSteps => work[c] \in Requests /\ work[c].date <= day
  BY <1>1 DEF Types, DatesArePast
<1>3. ASSUME DatesArePast', AccountedToday',
             \A R, L : Limited(R, L) /\ DayHasRoom(R, L) => DayHasRoom(R, L)'
      PROVE  DayInv'
  BY <1>1, <1>3, LimitsOfADay DEF DayInv, DaysHaveRoom
<1> USE DEF ledger, callers, stamps
<1>4. ASSUME NEW d \in Drafts, StoreDraft(d) PROVE DayInv'
  <2>1. UNCHANGED <<audits, outbox, pc, work, stampDay, day, aborts>>
    BY <1>4 DEF StoreDraft
  <2>2. QED
    BY <2>1 DEF DayInv, DaysHaveRoom, DatesArePast, AccountedToday, DayHasRoom, MailsOf,
                MailsOn, SentOn, At, Carried, Earlier
<1>5. ASSUME NEW c \in Callers, NEW r \in Requests, Start(c, r) PROVE DayInv'
  <2>1. r.date = day
    BY <1>1, <1>5, StartsAreDatedToday DEF Start
  <2>2. /\ OnlyMoves(c) /\ OnlyStamps(c) /\ UNCHANGED <<audits, outbox, day, aborts>>
        /\ pc[c] = "idle" /\ pc'[c] = "draft" /\ work'[c] = r
    BY <1>1, <1>5 DEF Start, Begin, OnlyMoves, OnlyStamps, Stamped, Types
  <2>3. day <= day
    BY <1>1, LimitsAssumption DEF Types, Days
  <2>4. QED
    BY <1>1, <1>3, <2>1, <2>2, <2>3, QuietDay DEF Unlogged
<1>6. ASSUME NEW c \in Callers, CheckDraft(c) PROVE DayInv'
  <2>1. /\ OnlyMoves(c) /\ OnlyStamps(c) /\ UNCHANGED <<audits, outbox, day, aborts, work>>
        /\ pc[c] = "draft" /\ pc'[c] \in {"limits", "reject"}
    BY <1>1, <1>6 DEF CheckDraft, Check, Goto, OnlyMoves, OnlyStamps, Stamped, Types
  <2>2. QED
    BY <1>1, <1>2, <1>3, <2>1, QuietDay DEF Unlogged, SendSteps
<1>7. ASSUME NEW c \in Callers, CheckLimits(c) PROVE DayInv'
  <2>1. /\ OnlyMoves(c) /\ OnlyStamps(c) /\ UNCHANGED <<audits, outbox, day, aborts, work>>
        /\ pc[c] = "limits" /\ pc'[c] \in {"opt_out", "reject"}
        /\ pc'[c] = "opt_out" => WithinLimits(work[c])
    BY <1>1, <1>7 DEF CheckLimits, Check, Goto, OnlyMoves, OnlyStamps, Stamped, Types
  <2>2. QED
    BY <1>1, <1>2, <1>3, <2>1, QuietDay DEF Unlogged, SendSteps
<1>8. ASSUME NEW c \in Callers, CheckOptOut(c) PROVE DayInv'
  <2>1. /\ OnlyMoves(c) /\ OnlyStamps(c) /\ UNCHANGED <<audits, outbox, day, aborts, work>>
        /\ pc[c] = "opt_out" /\ pc'[c] \in {"send", "reject"}
    BY <1>1, <1>8 DEF CheckOptOut, Check, Goto, OnlyMoves, OnlyStamps, Stamped, Types
  <2>2. QED
    BY <1>1, <1>2, <1>3, <2>1, QuietDay DEF Unlogged, SendSteps
<1>9. ASSUME NEW c \in Callers, Archive(c) PROVE DayInv'
  <2>1. /\ OnlyMoves(c) /\ OnlyStamps(c) /\ UNCHANGED <<audits, outbox, day, aborts, work>>
        /\ pc[c] = "archive" /\ pc'[c] = "record" /\ stampDay'[c] = day
    BY <1>1, <1>9 DEF Archive, Goto, OnlyMoves, OnlyStamps, Stamped, Types
  <2>2. QED
    BY <1>1, <1>2, <1>3, <2>1, QuietDay DEF Unlogged, SendSteps
<1>10. ASSUME NEW c \in Callers, NEW m \in Replies, ReceiveReply(c, m) PROVE DayInv'
  <2>1. /\ OnlyMoves(c) /\ OnlyStamps(c) /\ UNCHANGED <<audits, outbox, day, aborts>>
        /\ pc[c] = "idle" /\ pc'[c] = "reply"
    BY <1>1, <1>10 DEF ReceiveReply, Begin, OnlyMoves, OnlyStamps, Stamped, Types
  <2>2. QED
    BY <1>1, <1>3, <2>1, QuietDay DEF Unlogged, SendSteps
<1>11. ASSUME NEW c \in Callers, Abort(c) PROVE DayInv'
  <2>1. /\ OnlyMoves(c) /\ OnlyStamps(c) /\ UNCHANGED <<audits, outbox, day>>
        /\ aborts' = aborts + 1 /\ pc'[c] = "idle"
    BY <1>1, <1>11 DEF Abort, Return, Unstamped, OnlyMoves, OnlyStamps, Types
  <2>2. QED
    BY <1>1, <1>3, <2>1, QuietDay DEF Unlogged, SendSteps
<1>12. CASE UNCHANGED vars
  <2>1. UNCHANGED <<audits, outbox, pc, work, stampDay, day, aborts>>
    BY <1>12 DEF vars
  <2>2. QED
    BY <2>1 DEF DayInv, DaysHaveRoom, DatesArePast, AccountedToday, DayHasRoom, MailsOf,
                MailsOn, SentOn, At, Carried, Earlier
<1>13. ASSUME NEW c \in Callers, Send(c) PROVE DayInv'
  BY <1>1, <1>3, <1>13, MailDay
<1>14. ASSUME NEW c \in Callers, RecordSent(c) \/ Reject(c) \/ RecordReply(c) PROVE DayInv'
  BY <1>1, <1>3, <1>14, RecordDay
<1>15. CASE NextDay
  BY <1>1, <1>3, <1>15, NextDayRoom
<1>16. QED
  BY <1>4, <1>5, <1>6, <1>7, <1>8, <1>9, <1>10, <1>11, <1>12, <1>13, <1>14, <1>15
     DEF Next, Replay

LEMMA DayInvGivesLimits == EmailInv /\ DayInv => DayWithinLimits
<1> SUFFICES ASSUME EmailInv, DayInv PROVE DayWithinLimits
  OBVIOUS
<1>1. Types /\ aborts \in Nat /\ Cardinality(Callers) \in Nat /\ Cardinality(Callers) # 0
  BY LimitsAssumption, FS_CardinalityType, FS_EmptySet DEF EmailInv, Types
<1>2. ASSUME NEW R, NEW L \in Nat, NEW d \in Days, DayHasRoom(R, L)
      PROVE  Cardinality(MailsOn(d, R)) <= L + Slack
  <2>1. CASE L = 0
    <3>1. MailsOn(d, R) = {}
      BY <1>2, <2>1 DEF DayHasRoom, MailsOf, MailsOn
    <3>2. Cardinality(MailsOn(d, R)) = 0
      BY <3>1, FS_EmptySet
    <3>3. QED
      BY <1>1, <2>1, <3>2 DEF Slack
  <2>2. CASE L # 0
    <3>1. Cardinality(MailsOn(d, R)) <= L - 1 + aborts + Cardinality(Callers)
      BY <1>2, <2>2 DEF DayHasRoom
    <3>2. Cardinality(MailsOn(d, R)) \in Nat
      BY <1>1, DayFinite
    <3>3. QED
      BY <1>1, <3>1, <3>2 DEF Slack
  <2>3. QED
    BY <2>1, <2>2
<1>3. \A j \in DOMAIN outbox : outbox[j].req \in Requests
  BY <1>1, MailTypes
<1>4. ASSUME NEW d \in Days, NEW s \in Senders
      PROVE  MailsWhere(LAMBDA m : m.day = d /\ m.req.sender = s) <= MaxPerDay + Slack
  <2>1. {i \in DOMAIN outbox : outbox[i].day = d /\ outbox[i].req.sender = s}
          = MailsOn(d, FromSender(s))
    BY <1>3 DEF MailsOn, FromSender
  <2>2. Cardinality(MailsOn(d, FromSender(s))) <= MaxPerDay + Slack
    BY <1>2, LimitsAssumption DEF DayInv, DaysHaveRoom
  <2>3. QED
    BY <2>1, <2>2 DEF MailsWhere
<1>5. ASSUME NEW d \in Days, NEW dom \in Domains
      PROVE  MailsWhere(LAMBDA m : m.day = d /\ DomainOf[m.req.draft] = dom)
               <= MaxPerDomain + Slack
  <2>1. {i \in DOMAIN outbox : outbox[i].day = d /\ DomainOf[outbox[i].req.draft] = dom}
          = MailsOn(d, ToDomain(dom))
    BY <1>3 DEF MailsOn, ToDomain
  <2>2. Cardinality(MailsOn(d, ToDomain(dom))) <= MaxPerDomain + Slack
    BY <1>2, LimitsAssumption DEF DayInv, DaysHaveRoom
  <2>3. QED
    BY <2>1, <2>2 DEF MailsWhere
<1>6. QED
  BY <1>4, <1>5 DEF DayWithinLimits

\* The limits of the governor, all together (service.py:246-296): per thread, per
\* sender and day, per domain and day, the mails that leave come to at most the limit,
\* plus the calls that were lost, plus the callers but one; over any number of days
\* and although a call checked on one day may leave on the next.  It takes that no two
\* requests share a key, which the code leaves to the callers of send_draft.
THEOREM LimitsAreKept == KeysApart => (Spec => []LimitsHold)
<1> SUFFICES ASSUME KeysApart PROVE Spec => []LimitsHold
  OBVIOUS
<1>1. Init => DayInv
  BY InitDayInv
<1>2. EmailInv /\ EmailInv' /\ DayInv /\ [Next]_vars => DayInv'
  BY NextDayInv
<1>3. EmailInv /\ DayInv => DayWithinLimits
  BY DayInvGivesLimits
<1>4. ThreadWithinLimit /\ DayWithinLimits => LimitsHold
  BY DEF LimitsHold
<1>5. QED
  BY <1>1, <1>2, <1>3, <1>4, EmailInvariant, ThreadsKeepTheirLimit, PTL DEF Spec
=============================================================================
