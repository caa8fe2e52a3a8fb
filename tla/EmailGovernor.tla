---------------------------- MODULE EmailGovernor ----------------------------
(***************************************************************************)
(* The email governor (plugins/email_governor/service.py): send_draft and  *)
(* classify_incoming_reply, called by several callers that share nothing   *)
(* but the ledger.  The governor keeps no state: what it sent, for which   *)
(* key, in which thread and on which day it reads back from the audit      *)
(* events it wrote, so a mail that left without its audit event is         *)
(* unknown to it.  An event gets its created_at before it is written, and  *)
(* events are read in the order of created_at: one with a later stamp may  *)
(* be written first.  One action per ledger read, ledger write, archive    *)
(* call and transport call.                                                *)
(***************************************************************************)
EXTENDS Naturals, Sequences, FiniteSets

CONSTANTS
  Callers,       \* threads or processes that call the governor
  Requests,      \* EmailSendRequests
  Replies,       \* EmailReplyRequests
  Drafts, Domains, Threads, Senders, Keys,
  DomainOf,      \* the domain of the recipient of each draft
  None,          \* no request
  MaxPerDay, MaxPerDomain, MaxFollowups,   \* EmailConfig limits
  MaxDay,        \* bound: days are 0..MaxDay
  MaxMails,      \* bound: mails that leave
  MaxAudits,     \* bound: audit events
  MaxStamps,     \* bound: audit events that get a stamp
  MaxAborts      \* bound: calls that raise or die on the way

Days == 0 .. MaxDay

(***************************************************************************)
(* A request: its idempotency key, draft, thread and sender, the day of    *)
(* its current_date, and whether it passes the checks that do not change   *)
(* with time (mode, allowlist, recipient source, draft links, policy, risk *)
(* flags, opt-out text).  The whole request is its fingerprint.  A reply   *)
(* has the thread it belongs to and whether it asks not to be contacted.   *)
(***************************************************************************)
ASSUME RequestsAssumption ==
  /\ Requests \subseteq [key: Keys, draft: Drafts, thread: Threads, sender: Senders,
                         date: Days, allowed: BOOLEAN]
  /\ Replies \subseteq [thread: Threads, optOut: BOOLEAN]
  /\ DomainOf \in [Drafts -> Domains]
  /\ None \notin Requests \cup Replies

ASSUME LimitsAssumption ==
  /\ MaxPerDay \in Nat /\ MaxPerDomain \in Nat /\ MaxFollowups \in Nat
  /\ MaxDay \in Nat /\ MaxMails \in Nat /\ MaxAudits \in Nat
  /\ MaxStamps \in Nat /\ MaxAborts \in Nat
  /\ IsFiniteSet(Callers) /\ Callers # {}

VARIABLES
  drafts,     \* drafts in the ledger
  audits,     \* audit events in the order written: [kind, about, day, at], where
              \* created_at is the "at"-th stamp, given on that day
  archived,   \* outbound messages in the evidence archive, by request
  outbox,     \* mails that left: [req, day, known], known: audit events by then
  pc, work,   \* what each caller does, with which request or reply
  stamp, stampDay,   \* created_at of the event each caller is about to write
  clock,      \* the last stamp given
  day,
  aborts      \* calls that did not come to their end

ledger  == <<drafts, audits, archived>>
callers == <<pc, work>>
stamps  == <<stamp, stampDay, clock>>
vars    == <<ledger, outbox, callers, stamps, day, aborts>>

Stamps == 0 .. MaxStamps
Audits == [kind: {"sent", "rejected"}, about: Requests, day: Days, at: Stamps]
          \cup [kind: {"reply"}, about: Replies, day: Days, at: Stamps]
SendSteps == {"draft", "limits", "opt_out", "send", "archive", "record", "reject"}

TypeOK ==
  /\ drafts \subseteq Drafts
  /\ audits \in Seq(Audits) /\ Len(audits) <= MaxAudits
  /\ archived \in [Requests -> 0 .. MaxMails]
  /\ outbox \in Seq([req: Requests, day: Days, known: 0 .. MaxAudits])
  /\ Len(outbox) <= MaxMails
  /\ pc \in [Callers -> SendSteps \cup {"idle", "reply"}]
  /\ work \in [Callers -> Requests \cup Replies \cup {None}]
  /\ \A c \in Callers :
       /\ pc[c] = "idle" => work[c] = None
       /\ pc[c] = "reply" => work[c] \in Replies
       /\ pc[c] \in SendSteps => work[c] \in Requests
  /\ stamp \in [Callers -> Stamps] /\ stampDay \in [Callers -> Days] /\ clock \in Stamps
  /\ day \in Days /\ aborts \in 0 .. MaxAborts

Init ==
  /\ drafts = {} /\ audits = <<>>
  /\ archived = [r \in Requests |-> 0] /\ outbox = <<>>
  /\ pc = [c \in Callers |-> "idle"] /\ work = [c \in Callers |-> None]
  /\ stamp = [c \in Callers |-> 0] /\ stampDay = [c \in Callers |-> 0] /\ clock = 0
  /\ day = 0 /\ aborts = 0

-----------------------------------------------------------------------------
\* What the governor reads back from the audit events.

IsSend(a) == a.kind \in {"sent", "rejected"}

Sent == {i \in DOMAIN audits : audits[i].kind = "sent"}

UsesKey(i, key) == IsSend(audits[i]) /\ audits[i].about.key = key

\* The first send event of a key, whatever its outcome.
FirstOf(key, i) ==
  /\ UsesKey(i, key)
  /\ \A j \in DOMAIN audits : UsesKey(j, key) => audits[i].at <= audits[j].at

\* _find_send_payload with a fingerprint that matches.
Answered(r) == \E i \in DOMAIN audits : FirstOf(r.key, i) /\ audits[i].about = r

SentOnDay(r) == {i \in Sent : audits[i].day = r.date /\ audits[i].about.sender = r.sender}
SentToDomain(r) ==
  {i \in Sent : audits[i].day = r.date /\ DomainOf[audits[i].about.draft] = DomainOf[r.draft]}
SentInThread(r) == {i \in Sent : audits[i].about.thread = r.thread}

\* Mutant: a thread may have its limit and one more.
WithinLimits_OneMore(r) ==
  /\ Cardinality(SentOnDay(r)) < MaxPerDay
  /\ Cardinality(SentToDomain(r)) < MaxPerDomain
  /\ Cardinality(SentInThread(r)) <= 1 + MaxFollowups

\* Mutant: the daily limit counts the mails of the thread.
WithinLimits_ThreadOnly(r) ==
  /\ Cardinality(SentOnDay(r) \cap SentInThread(r)) < MaxPerDay
  /\ Cardinality(SentToDomain(r) \cap SentInThread(r)) < MaxPerDomain
  /\ Cardinality(SentInThread(r)) < 1 + MaxFollowups

WithinLimits(r) ==
  /\ Cardinality(SentOnDay(r)) < MaxPerDay
  /\ Cardinality(SentToDomain(r)) < MaxPerDomain
  /\ Cardinality(SentInThread(r)) < 1 + MaxFollowups

\* _thread_has_opt_out.  A rejection for an opt-out adds nothing to the reply it
\* stems from, which stays in the log.
OptOut(a, thread) == a.kind = "reply" /\ a.about.optOut /\ a.about.thread = thread
OptedOut(thread) == \E i \in DOMAIN audits : OptOut(audits[i], thread)

-----------------------------------------------------------------------------
Goto(c, step) == pc' = [pc EXCEPT ![c] = step] /\ UNCHANGED work

Begin(c, step, item) ==
  /\ pc[c] = "idle"
  /\ pc' = [pc EXCEPT ![c] = step]
  /\ work' = [work EXCEPT ![c] = item]

\* The next event of the caller is stamped, and written by its next step.
Stamped(c) ==
  /\ clock < MaxStamps
  /\ clock' = clock + 1
  /\ stamp' = [stamp EXCEPT ![c] = clock + 1]
  /\ stampDay' = [stampDay EXCEPT ![c] = day]

Unstamped(c) ==
  /\ stamp' = [stamp EXCEPT ![c] = 0] /\ stampDay' = [stampDay EXCEPT ![c] = 0]
  /\ UNCHANGED clock

\* Mutant: the caller keeps the request it has finished.
Return_Keeps(c) ==
  /\ pc' = [pc EXCEPT ![c] = "idle"]
  /\ Unstamped(c)
  /\ UNCHANGED work

Return(c) ==
  /\ pc' = [pc EXCEPT ![c] = "idle"]
  /\ work' = [work EXCEPT ![c] = None]
  /\ Unstamped(c)

\* _record_audit, after the stamp.
Record(c, kind) ==
  /\ Len(audits) < MaxAudits
  /\ audits' = Append(audits, [kind |-> kind, about |-> work[c],
                              day |-> stampDay[c], at |-> stamp[c]])

\* The draft is stored by the email drafter.
StoreDraft(d) ==
  /\ d \notin drafts
  /\ drafts' = drafts \cup {d}
  /\ UNCHANGED <<audits, archived, outbox, callers, stamps, day, aborts>>

\* Callers date a request with the day on which they make it, and may repeat it
\* on a later day once it has an outcome.  The first read of send_draft decides between the
\* stored answer and a new attempt.
Dated(r) == r.date = day \/ \E i \in DOMAIN audits : audits[i].about = r

Replay(c, r) == pc[c] = "idle" /\ Dated(r) /\ Answered(r) /\ UNCHANGED vars

\* Mutant: the key is not looked up.
Start_NoLookup(c, r) ==
  /\ Dated(r)
  /\ Begin(c, "draft", r)
  /\ UNCHANGED <<ledger, outbox, stamps, day, aborts>>

\* Also for a key that is in use with another fingerprint.
Start(c, r) ==
  /\ Dated(r) /\ ~Answered(r)
  /\ Begin(c, "draft", r)
  /\ UNCHANGED <<ledger, outbox, stamps, day, aborts>>

Check(c, step, passes, next) ==
  /\ pc[c] = step
  /\ IF passes THEN Goto(c, next) /\ UNCHANGED stamps
               ELSE Goto(c, "reject") /\ Stamped(c)
  /\ UNCHANGED <<ledger, outbox, day, aborts>>

CheckDraft(c) == Check(c, "draft", work[c].draft \in drafts /\ work[c].allowed, "limits")

CheckLimits(c) == Check(c, "limits", WithinLimits(work[c]), "opt_out")

\* Mutant: replies are not looked at.
CheckOptOut_Never(c) == Check(c, "opt_out", TRUE, "send")

CheckOptOut(c) == Check(c, "opt_out", ~OptedOut(work[c].thread), "send")

\* The mail leaves.  Abort covers a transport that raises: before this step the
\* mail has not left, after it the answer is lost.
Send(c) ==
  /\ pc[c] = "send"
  /\ Len(outbox) < MaxMails
  /\ outbox' = Append(outbox, [req |-> work[c], day |-> day, known |-> Len(audits)])
  /\ Goto(c, "archive")
  /\ UNCHANGED <<ledger, stamps, day, aborts>>

Archive(c) ==
  /\ pc[c] = "archive"
  /\ archived' = [archived EXCEPT ![work[c]] = @ + 1]
  /\ Goto(c, "record") /\ Stamped(c)
  /\ UNCHANGED <<drafts, audits, outbox, day, aborts>>

RecordSent(c) ==
  /\ pc[c] = "record"
  /\ Record(c, "sent")
  /\ Return(c)
  /\ UNCHANGED <<drafts, archived, outbox, day, aborts>>

\* Mutant: a mail that is refused is recorded as sent.
Reject_AsSent(c) ==
  /\ pc[c] = "reject"
  /\ Record(c, "sent")
  /\ Return(c)
  /\ UNCHANGED <<drafts, archived, outbox, day, aborts>>

Reject(c) ==
  /\ pc[c] = "reject"
  /\ Record(c, "rejected")
  /\ Return(c)
  /\ UNCHANGED <<drafts, archived, outbox, day, aborts>>

\* classify_incoming_reply archives the reply, which is evidence only, and then
\* records its classification: until then the thread is not opted out.
ReceiveReply(c, m) ==
  /\ Begin(c, "reply", m) /\ Stamped(c)
  /\ UNCHANGED <<ledger, outbox, day, aborts>>

RecordReply(c) ==
  /\ pc[c] = "reply"
  /\ Record(c, "reply")
  /\ Return(c)
  /\ UNCHANGED <<drafts, archived, outbox, day, aborts>>

\* A ledger, archive or transport call raises, or the process dies.
Abort(c) ==
  /\ pc[c] # "idle" /\ aborts < MaxAborts
  /\ aborts' = aborts + 1
  /\ Return(c)
  /\ UNCHANGED <<ledger, outbox, day>>

NextDay ==
  /\ day < MaxDay
  /\ day' = day + 1
  /\ UNCHANGED <<ledger, outbox, callers, stamps, aborts>>

Next ==
  \/ \E d \in Drafts : StoreDraft(d)
  \/ \E c \in Callers :
       \/ \E r \in Requests : Replay(c, r) \/ Start(c, r)
       \/ CheckDraft(c) \/ CheckLimits(c) \/ CheckOptOut(c)
       \/ Send(c) \/ Archive(c) \/ RecordSent(c) \/ Reject(c)
       \/ \E m \in Replies : ReceiveReply(c, m)
       \/ RecordReply(c) \/ Abort(c)
  \/ NextDay

Spec == Init /\ [][Next]_vars

-----------------------------------------------------------------------------
\* No other request has this key.  Callers are expected to see to it, and nothing
\* in the governor does.
OwnKey(r) == \A q \in Requests : q.key = r.key => q = r

(* Properties.  Nothing orders two callers between the check and the mail,   *)
(* and a mail whose audit event was lost is not counted: each limit can be   *)
(* passed by one mail per further caller and per lost call, and by no more,  *)
(* as long as every key belongs to one request.                              *)

Slack == aborts + Cardinality(Callers) - 1

MailsWhere(P(_)) == Cardinality({i \in DOMAIN outbox : P(outbox[i])})

\* A thread gets its first mail and its follow-ups, over any number of days.
ThreadWithinLimit == \A th \in Threads :
  MailsWhere(LAMBDA m : m.req.thread = th) <= 1 + MaxFollowups + Slack

\* What leaves on one day, for a sender and to a domain, stays within the limits
\* although a request checked on one day may leave on the next.
DayWithinLimits == \A d \in Days :
  /\ \A s \in Senders :
       MailsWhere(LAMBDA m : m.day = d /\ m.req.sender = s) <= MaxPerDay + Slack
  /\ \A dom \in Domains :
       MailsWhere(LAMBDA m : m.day = d /\ DomainOf[m.req.draft] = dom) <= MaxPerDomain + Slack

\* Both hold at once: what the rate limits of the governor come to
\* (service.py:246-296).
LimitsHold == ThreadWithinLimit /\ DayWithinLimits

\* Once a reply that asks for it is recorded, its thread gets no further mail but
\* those already past the check.
OptOutIsHonoured == \A i \in DOMAIN audits :
  audits[i].kind = "reply" /\ audits[i].about.optOut =>
    MailsWhere(LAMBDA m : m.known >= i /\ m.req.thread = audits[i].about.thread)
      <= Cardinality(Callers) - 1

\* A request with a key of its own is mailed once, however often it is repeated and
\* whichever of its events is stamped or written first.  Of requests that share a key
\* only the one that is first at the moment is answered from the log (service.py:105),
\* and the others are mailed as often as they are repeated.
RepeatSendsOnce == \A r \in Requests :
  OwnKey(r) => MailsWhere(LAMBDA m : m.req = r) <= 1 + Slack

\* Every mail the log reports left and is in the evidence archive.
ReportedMailsLeft == \A r \in Requests :
  /\ Cardinality({i \in Sent : audits[i].about = r}) <= archived[r]
  /\ archived[r] <= MailsWhere(LAMBDA m : m.req = r)
=============================================================================
