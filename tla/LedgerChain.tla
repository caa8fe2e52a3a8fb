----------------------------- MODULE LedgerChain -----------------------------
(***************************************************************************)
(* How records reach the hash-chained event log of the ledger              *)
(* (skills/ledger_skill/repository.py, hashing.py): writers on connections *)
(* of their own, in threads of one process or in several processes, over   *)
(* one SQLite file.  A statement before the first write of a connection    *)
(* runs in autocommit; from the first write to the commit the connection   *)
(* holds the write lock, so that this part is one action.  Records carry   *)
(* the time at which their caller made them, and both the writer and the   *)
(* verifier order events by it.                                            *)
(***************************************************************************)
EXTENDS Naturals, Sequences

CONSTANTS
  Writers,    \* threads or processes that write the ledger
  Records,    \* what they write: [kind, id, key]
  None,       \* no record
  MaxTime,    \* bound: the clock runs from 0 to MaxTime
  MaxEvents   \* bound: events in the log

\* "audit": an event alone (record_ledger_record).  "row": a row and its event
\* (create_opportunity, record_*).  "update": a change of a row that exists and
\* its event (update_*_status).
ASSUME RecordsAssumption ==
  /\ \A r \in Records : r.kind \in {"audit", "row", "update"} /\ {"id", "key"} \subseteq DOMAIN r
  /\ None \notin Records
  /\ MaxTime \in Nat /\ MaxEvents \in Nat

VARIABLES
  events,     \* ledger_events in rowid order: [rec, at, prev, hash]
  rows,       \* primary keys of the other tables
  drafts,     \* records made but perhaps not yet written: [rec, at]
  pc, rec,    \* each writer's step, and the record it writes
  at,         \* the created_at of that record
  previous,   \* the event hash an audit writer has read
  clock       \* utc_now

writers == <<pc, rec, at, previous>>
vars == <<events, rows, drafts, writers, clock>>

Times == 0 .. MaxTime
Ids == {r.id : r \in Records}

\* Everything that is hashed into an event, oldest first: no two histories have
\* the same hash, and the empty one stands for the missing previous hash.
Payload(r, time) == [id |-> r.id, key |-> r.key, at |-> time]
Hash(prev, payload) == Append(prev, payload)

Payloads == [id: Ids, key: {r.key : r \in Records}, at: Times]
Hashes == Seq(Payloads)
Events == [rec: Records, at: Times, prev: Hashes, hash: Hashes]

TypeOK ==
  /\ events \in Seq(Events) /\ Len(events) <= MaxEvents
  /\ rows \subseteq Ids
  /\ drafts \subseteq [rec: {r \in Records : r.kind = "row"}, at: Times]
  /\ pc \in [Writers -> {"idle", "lookup", "insert", "write"}]
  /\ rec \in [Writers -> Records \cup {None}]
  /\ at \in [Writers -> Times]
  /\ previous \in [Writers -> Hashes]
  /\ clock \in Times

Init ==
  /\ events = <<>> /\ rows = {} /\ drafts = {}
  /\ pc = [w \in Writers |-> "idle"] /\ rec = [w \in Writers |-> None]
  /\ at = [w \in Writers |-> 0] /\ previous = [w \in Writers |-> <<>>]
  /\ clock = 0

-----------------------------------------------------------------------------
\* ORDER BY created_at, rowid.
Before(i, j) ==
  \/ events[i].at < events[j].at
  \/ events[i].at = events[j].at /\ i < j

Positions == 1 .. Len(events)

\* The event_hash of the newest event, by created_at first.
NewestHash ==
  IF events = <<>> THEN <<>>
  ELSE events[CHOOSE i \in Positions : \A j \in Positions \ {i} : Before(j, i)].hash

KeyUsed(key) == \E i \in Positions : events[i].rec.key = key

Event(r, time, prev) ==
  [rec |-> r, at |-> time, prev |-> prev, hash |-> Hash(prev, Payload(r, time))]

Return(w) ==
  /\ pc' = [pc EXCEPT ![w] = "idle"]
  /\ rec' = [rec EXCEPT ![w] = None]
  /\ at' = [at EXCEPT ![w] = 0]
  /\ previous' = [previous EXCEPT ![w] = <<>>]

Goto(w, step) == pc' = [pc EXCEPT ![w] = step]

-----------------------------------------------------------------------------
\* A caller makes a record, to be written when it gets to it: the scout stamps
\* an opportunity that the workflow writes after the duplicate check's events.
Draft(r) ==
  /\ r.kind = "row" /\ \A d \in drafts : d.rec # r
  /\ drafts' = drafts \cup {[rec |-> r, at |-> clock]}
  /\ UNCHANGED <<events, rows, writers, clock>>

Start(w, r, time) ==
  /\ pc[w] = "idle"
  /\ Len(events) < MaxEvents
  /\ Goto(w, "lookup")
  /\ rec' = [rec EXCEPT ![w] = r]
  /\ at' = [at EXCEPT ![w] = time]
  /\ UNCHANGED <<events, rows, drafts, previous, clock>>

\* Audit events and updates are stamped by the call that writes them.
StartFresh(w, r) == r.kind # "row" /\ Start(w, r, clock)

\* Also a retry of a record that has been written before.
StartDraft(w, d) == Start(w, d.rec, d.at)

\* The reads in autocommit: is the key used, which event is the newest, does the
\* row to update exist?
Lookup(w) ==
  /\ pc[w] = "lookup"
  /\ \/ /\ rec[w].kind = "audit" /\ ~KeyUsed(rec[w].key)
        /\ previous' = [previous EXCEPT ![w] = NewestHash]
        /\ Goto(w, "insert")
        /\ UNCHANGED <<rec, at>>
     \/ /\ \/ rec[w].kind = "row" /\ ~KeyUsed(rec[w].key)
           \/ rec[w].kind = "update" /\ rec[w].id \in rows
        /\ Goto(w, "write")
        /\ UNCHANGED <<rec, at, previous>>
     \/ /\ \/ rec[w].kind # "update" /\ KeyUsed(rec[w].key)
           \/ rec[w].kind = "update" /\ rec[w].id \notin rows
        /\ Return(w)
  /\ UNCHANGED <<events, rows, drafts, clock>>

\* Mutant: no UNIQUE constraint on idempotency_key.
InsertEvent_NotUnique(w) ==
  /\ pc[w] = "insert"
  /\ Len(events) < MaxEvents
  /\ events' = Append(events, Event(rec[w], at[w], previous[w]))
  /\ Return(w)
  /\ UNCHANGED <<rows, drafts, clock>>

\* record_ledger_record: the insert takes the write lock only now, with the hash
\* read before; the UNIQUE constraint makes it raise when the key is used.
InsertEvent(w) ==
  /\ pc[w] = "insert"
  /\ \/ KeyUsed(rec[w].key) /\ UNCHANGED events
     \/ /\ ~KeyUsed(rec[w].key) /\ Len(events) < MaxEvents
        /\ events' = Append(events, Event(rec[w], at[w], previous[w]))
  /\ Return(w)
  /\ UNCHANGED <<rows, drafts, clock>>

\* Mutant: the row is committed on its own when the event cannot be added.
WriteRow_RowAlone(w) ==
  /\ pc[w] = "write" /\ rec[w].kind = "row"
  /\ rows' = rows \cup {rec[w].id}
  /\ \/ UNCHANGED events
     \/ /\ ~KeyUsed(rec[w].key) /\ Len(events) < MaxEvents
        /\ events' = Append(events, Event(rec[w], at[w], NewestHash))
  /\ Return(w)
  /\ UNCHANGED <<drafts, clock>>

\* Mutant: the row is stored under its key.
WriteRow_KeyAsId(w) ==
  /\ pc[w] = "write" /\ rec[w].kind = "row"
  /\ rows' = rows \cup {rec[w].key}
  /\ ~KeyUsed(rec[w].key) /\ Len(events) < MaxEvents
  /\ events' = Append(events, Event(rec[w], at[w], NewestHash))
  /\ Return(w)
  /\ UNCHANGED <<drafts, clock>>

\* The row, and unless the key was used meanwhile its event, in one transaction;
\* a row that is there already makes it raise.
WriteRow(w) ==
  /\ pc[w] = "write" /\ rec[w].kind = "row"
  /\ \/ rec[w].id \in rows /\ UNCHANGED <<events, rows>>
     \/ /\ rec[w].id \notin rows
        /\ rows' = rows \cup {rec[w].id}
        /\ \/ KeyUsed(rec[w].key) /\ UNCHANGED events
           \/ /\ ~KeyUsed(rec[w].key) /\ Len(events) < MaxEvents
              /\ events' = Append(events, Event(rec[w], at[w], NewestHash))
  /\ Return(w)
  /\ UNCHANGED <<drafts, clock>>

\* The update and, unless its key is used, its event, stamped within the
\* transaction.
UpdateRow(w) ==
  /\ pc[w] = "write" /\ rec[w].kind = "update"
  /\ \/ KeyUsed(rec[w].key) /\ UNCHANGED events
     \/ /\ ~KeyUsed(rec[w].key) /\ Len(events) < MaxEvents
        /\ events' = Append(events, Event(rec[w], clock, NewestHash))
  /\ Return(w)
  /\ UNCHANGED <<rows, drafts, clock>>

\* A statement raises (a lock that stays busy, a full disk) or the process dies:
\* the transaction is rolled back.
Abort(w) ==
  /\ pc[w] # "idle"
  /\ Return(w)
  /\ UNCHANGED <<events, rows, drafts, clock>>

Tick ==
  /\ clock < MaxTime
  /\ clock' = clock + 1
  /\ UNCHANGED <<events, rows, drafts, writers>>

Next ==
  \/ \E r \in Records : Draft(r)
  \/ \E w \in Writers :
       \/ \E r \in Records : StartFresh(w, r)
       \/ \E d \in drafts : StartDraft(w, d)
       \/ Lookup(w) \/ InsertEvent(w) \/ WriteRow(w) \/ UpdateRow(w) \/ Abort(w)
  \/ Tick

Spec == Init /\ [][Next]_vars

-----------------------------------------------------------------------------
\* What the verifier accepts as the previous hash of the event at i.
ExpectedPrevious(i) ==
  LET earlier == {j \in Positions : Before(j, i)}
  IN IF earlier = {} THEN <<>>
     ELSE events[CHOOSE j \in earlier : \A k \in earlier \ {j} : Before(k, j)].hash

\* Mutants: only the last link is looked at; links are compared in rowid order.
VerifyChain_LastOnly ==
  events # <<>> => events[Len(events)].prev = ExpectedPrevious(Len(events))
VerifyChain_ByRowid == \A i \in Positions :
  events[i].prev = IF i = 1 THEN <<>> ELSE events[i - 1].hash

\* verify_event_chain.
VerifyChain == \A i \in Positions :
  /\ events[i].prev = ExpectedPrevious(i)
  /\ events[i].hash = Hash(ExpectedPrevious(i), Payload(events[i].rec, events[i].at))

\* Every event was added after all others and on top of the newest.
InOrder == \A i \in Positions :
  /\ events[i].prev = IF i = 1 THEN <<>> ELSE events[i - 1].hash
  /\ \A j \in 1 .. i : events[j].at <= events[i].at

\* The verifier rejects the log exactly when some event was not added on top of
\* the newest one: no false alarm, and no fork or late event goes unnoticed.
VerifiesIffInOrder == VerifyChain <=> InOrder

\* Later events never make a broken chain verify again.
BreakIsPermanent == [][~VerifyChain => ~VerifyChain']_events

\* Two writers that looked before either wrote still leave one event per key.
OneEventPerKey == \A i, j \in Positions : events[i].rec.key = events[j].rec.key => i = j

\* The key of every row is in the event log, whatever fails between the two
\* inserts: a retry of what was written is always recognised.
RowsAreLogged == \A id \in rows : \E r \in Records :
  r.kind = "row" /\ r.id = id /\ KeyUsed(r.key)

\* The event chain of an untouched ledger verifies.
ChainVerifies == VerifyChain
=============================================================================
