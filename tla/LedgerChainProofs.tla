-------------------------- MODULE LedgerChainProofs --------------------------
(***************************************************************************)
(* The event log of the ledger for any number of writers, records, clock   *)
(* ticks and events: types, one event per idempotency key, a logged key    *)
(* for every row, and what the hash chain says of the order of the events. *)
(***************************************************************************)
EXTENDS LedgerChain, SequenceTheorems, WellFoundedInduction, TLAPS

\* A writer at work has a record, of the kind its step is about.
Working == \A w \in Writers :
  /\ pc[w] # "idle" => rec[w] \in Records
  /\ pc[w] = "insert" => rec[w].kind = "audit"
  /\ pc[w] = "write" => rec[w].kind \in {"row", "update"}

TypeInv == TypeOK /\ Working

-----------------------------------------------------------------------------
(* The newest event exists.                                                  *)

LEMMA Smallest ==
  ASSUME NEW S \in SUBSET Nat, S # {}
  PROVE  \E m \in S : \A n \in S : m <= n
<1>1. PICK m \in S : \A n \in S : ~ (<<n, m>> \in OpToRel(<, Nat))
  BY NatLessThanWellFounded, WFMin, Zenon
<1>2. ASSUME NEW n \in S PROVE ~(n < m)
  BY <1>1, Zenon DEF OpToRel
<1>3. ASSUME NEW n \in S PROVE m <= n
  BY <1>2
<1>4. QED
  BY <1>3

LEMMA Largest ==
  ASSUME NEW S \in SUBSET Nat, S # {}, NEW b \in Nat, \A n \in S : n <= b
  PROVE  \E m \in S : \A n \in S : n <= m
<1> DEFINE T == {b - n : n \in S}
<1>1. T \in SUBSET Nat /\ T # {}
  <2>1. ASSUME NEW n \in S PROVE b - n \in Nat
    OBVIOUS
  <2>2. QED
    BY <2>1
<1>2. PICK t \in T : \A u \in T : t <= u
  BY <1>1, Smallest
<1>3. PICK m \in S : t = b - m
  BY <1>2
<1>4. ASSUME NEW n \in S PROVE n <= m
  <2>1. b - m <= b - n
    BY <1>2, <1>3
  <2>2. n \in Nat /\ m \in Nat
    OBVIOUS
  <2>3. QED
    BY <2>1, <2>2
<1>5. QED
  BY <1>3, <1>4

LEMMA Log ==
  ASSUME TypeOK
  PROVE  /\ Len(events) \in Nat
         /\ events # <<>> => Len(events) \in Positions
         /\ \A i \in Positions :
              /\ i \in Nat /\ i <= Len(events) /\ events[i] \in Events
              /\ events[i].at \in Nat /\ events[i].at <= MaxTime
              /\ events[i].hash \in Hashes
<1>1. Len(events) \in Nat /\ (events # <<>> => Len(events) \in Nat \ {0})
  BY LenProperties, EmptySeq DEF TypeOK
<1>2. \A i \in Positions : events[i] \in Events
  BY ElementOfSeq DEF TypeOK, Positions
<1>3. \A e \in Events : e.at \in Nat /\ e.at <= MaxTime /\ e.hash \in Hashes
  BY RecordsAssumption DEF Events, Times
<1>4. QED
  BY <1>1, <1>2, <1>3 DEF Positions

\* Among any positions of the log one is the last by created_at and rowid.
LEMMA LastPosition ==
  ASSUME TypeOK, NEW S \in SUBSET Positions, S # {}
  PROVE  \E i \in S : \A j \in S \ {i} : Before(j, i)
<1>1. \A i \in Positions : events[i].at \in Nat /\ events[i].at <= MaxTime /\ i \in Nat /\ i <= Len(events)
  BY Log
<1>2. Len(events) \in Nat
  BY Log
<1> DEFINE Stamps == {events[i].at : i \in S}
<1>3. PICK t \in Stamps : \A u \in Stamps : u <= t
  <2>1. Stamps \in SUBSET Nat /\ Stamps # {} /\ \A u \in Stamps : u <= MaxTime
    BY <1>1
  <2>2. QED
    BY <2>1, Largest, RecordsAssumption
<1> DEFINE Latest == {i \in S : events[i].at = t}
<1>4. PICK i \in Latest : \A j \in Latest : j <= i
  <2>1. Latest \in SUBSET Nat /\ Latest # {} /\ \A j \in Latest : j <= Len(events)
    BY <1>1
  <2>2. QED
    BY <2>1, <1>2, Largest
<1>5. ASSUME NEW j \in S \ {i} PROVE Before(j, i)
  <2>1. events[j].at <= t /\ events[i].at = t
    BY <1>3
  <2>2. CASE events[j].at = t
    BY <2>1, <2>2, <1>1, <1>4 DEF Before
  <2>3. CASE events[j].at # t
    BY <2>1, <2>3, <1>1 DEF Before
  <2>4. QED
    BY <2>2, <2>3
<1>6. QED
  BY <1>5

LEMMA NewestHashTyped ==
  ASSUME TypeOK
  PROVE  NewestHash \in Hashes
<1>1. CASE events = <<>>
  BY <1>1 DEF NewestHash, Hashes
<1>2. CASE events # <<>>
  <2>1. Positions # {}
    BY <1>2, Log
  <2>2. \E i \in Positions : \A j \in Positions \ {i} : Before(j, i)
    BY <2>1, LastPosition
  <2>3. \A i \in Positions : events[i].hash \in Hashes
    BY Log
  <2>4. QED
    BY <1>2, <2>2, <2>3 DEF NewestHash
<1>3. QED
  BY <1>1, <1>2

\* What the log is after an event has been added.
LEMMA EventTyped ==
  ASSUME NEW r \in Records, NEW time \in Times, NEW prev \in Hashes
  PROVE  Event(r, time, prev) \in Events
<1>1. Payload(r, time) \in Payloads
  BY DEF Payload, Payloads, Ids
<1>2. Hash(prev, Payload(r, time)) \in Hashes
  BY <1>1 DEF Hash, Hashes
<1>3. QED
  BY <1>2 DEF Event, Events

LEMMA Appended ==
  ASSUME TypeOK, NEW e \in Events, Len(events) < MaxEvents, events' = Append(events, e)
  PROVE  /\ events' \in Seq(Events) /\ Len(events') = Len(events) + 1 /\ Len(events') <= MaxEvents
         /\ \A i \in Positions : i \in Positions' /\ events'[i] = events[i]
         /\ \A i \in Positions' : i \in Positions \/ i = Len(events')
         /\ events'[Len(events')] = e
BY RecordsAssumption DEF TypeOK, Positions

-----------------------------------------------------------------------------
(* Types.                                                                    *)

LEMMA InitTypeInv == Init => TypeInv
BY RecordsAssumption
   DEF Init, TypeInv, TypeOK, Working, Times, Hashes, Events

\* The writer's variables after its call has ended.
LEMMA ReturnTyped ==
  ASSUME TypeInv, NEW w \in Writers, Return(w)
  PROVE  /\ pc' \in [Writers -> {"idle", "lookup", "insert", "write"}]
         /\ rec' \in [Writers -> Records \cup {None}]
         /\ at' \in [Writers -> Times] /\ previous' \in [Writers -> Hashes]
         /\ Working'
<1>1. 0 \in Times /\ <<>> \in Hashes
  BY RecordsAssumption DEF Times, Hashes
<1>2. QED
  BY <1>1 DEF TypeInv, TypeOK, Working, Return

\* What may happen to the log in one step.
Adds(r, time, prev) ==
  /\ Len(events) < MaxEvents
  /\ events' = Append(events, Event(r, time, prev))

LEMMA LogTyped ==
  ASSUME TypeOK,
         \/ events' = events
         \/ \E r \in Records, time \in Times, prev \in Hashes : Adds(r, time, prev)
  PROVE  events' \in Seq(Events) /\ Len(events') <= MaxEvents
<1>1. CASE events' = events
  BY <1>1 DEF TypeOK
<1>2. ASSUME NEW r \in Records, NEW time \in Times, NEW prev \in Hashes, Adds(r, time, prev)
      PROVE  events' \in Seq(Events) /\ Len(events') <= MaxEvents
  BY <1>2, EventTyped, Appended DEF Adds
<1>3. QED
  BY <1>1, <1>2

\* Every step leaves the log alone or adds one event, under a key not used before,
\* on top of the newest event or of the one a writer has read as the newest.
LEMMA LogGrows ==
  ASSUME TypeInv, [Next]_vars
  PROVE  \/ events' = events
         \/ \E r \in Records, time \in Times, prev \in Hashes :
              /\ Adds(r, time, prev) /\ ~KeyUsed(r.key)
              /\ prev = NewestHash \/ \E w \in Writers : prev = previous[w]
<1> DEFINE Goal == \/ events' = events
                   \/ \E r \in Records, time \in Times, prev \in Hashes :
                        /\ Adds(r, time, prev) /\ ~KeyUsed(r.key)
                        /\ prev = NewestHash \/ \E w \in Writers : prev = previous[w]
<1>1. \A w \in Writers : pc[w] # "idle" =>
        rec[w] \in Records /\ at[w] \in Times /\ previous[w] \in Hashes
  BY DEF TypeInv, TypeOK, Working
<1>2. NewestHash \in Hashes /\ clock \in Times
  BY NewestHashTyped DEF TypeInv, TypeOK
<1>3. ASSUME NEW w \in Writers, InsertEvent(w) PROVE Goal
  BY <1>1, <1>3 DEF InsertEvent, Adds
<1>4. ASSUME NEW w \in Writers, WriteRow(w) PROVE Goal
  BY <1>1, <1>2, <1>4 DEF WriteRow, Adds
<1>5. ASSUME NEW w \in Writers, UpdateRow(w) PROVE Goal
  BY <1>1, <1>2, <1>5 DEF UpdateRow, Adds
<1>6. ASSUME NEW w \in Writers, Lookup(w) \/ Abort(w) PROVE Goal
  BY <1>6 DEF Lookup, Abort
<1>7. ASSUME NEW w \in Writers, NEW r \in Records, StartFresh(w, r) PROVE Goal
  BY <1>7 DEF StartFresh, Start
<1>8. ASSUME NEW w \in Writers, NEW d \in drafts, StartDraft(w, d) PROVE Goal
  BY <1>8 DEF StartDraft, Start
<1>9. ASSUME NEW r \in Records, Draft(r) PROVE Goal
  BY <1>9 DEF Draft
<1>10. ASSUME Tick PROVE Goal
  BY <1>10 DEF Tick
<1>11. ASSUME UNCHANGED vars PROVE Goal
  BY <1>11 DEF vars
<1> HIDE DEF Goal
<1>12. Goal
  BY <1>3, <1>4, <1>5, <1>6, <1>7, <1>8, <1>9, <1>10, <1>11 DEF Next
<1>13. QED
  BY <1>12 DEF Goal

LEMMA NextTypeInv == TypeInv /\ [Next]_vars => TypeInv'
<1> SUFFICES ASSUME TypeInv, [Next]_vars PROVE TypeInv'
  OBVIOUS
<1>1. events' \in Seq(Events) /\ Len(events') <= MaxEvents
  BY LogGrows, LogTyped DEF TypeInv
<1> USE <1>1
<1>2. ASSUME NEW r \in Records, Draft(r) PROVE TypeInv'
  BY <1>2 DEF Draft, TypeInv, TypeOK, Working, writers
<1>3. ASSUME NEW w \in Writers, NEW r \in Records, NEW time \in Times, Start(w, r, time)
      PROVE  TypeInv'
  BY <1>3 DEF Start, Goto, TypeInv, TypeOK, Working
<1>4. ASSUME NEW w \in Writers, NEW r \in Records, StartFresh(w, r) PROVE TypeInv'
  BY <1>3, <1>4 DEF StartFresh, TypeInv, TypeOK
<1>5. ASSUME NEW w \in Writers, NEW d \in drafts, StartDraft(w, d) PROVE TypeInv'
  <2>1. d.rec \in Records /\ d.at \in Times
    BY DEF TypeInv, TypeOK
  <2>2. QED
    BY <1>3, <1>5, <2>1 DEF StartDraft
<1>6. ASSUME NEW w \in Writers, Lookup(w) PROVE TypeInv'
  <2>1. CASE Return(w)
    BY <2>1, <1>6, ReturnTyped DEF Lookup, TypeInv, TypeOK
  <2>2. CASE /\ rec[w].kind = "audit" /\ previous' = [previous EXCEPT ![w] = NewestHash]
             /\ Goto(w, "insert") /\ UNCHANGED <<rec, at>>
    <3>1. NewestHash \in Hashes
      BY NewestHashTyped DEF TypeInv
    <3>2. QED
      BY <1>6, <2>2, <3>1 DEF Lookup, Goto, TypeInv, TypeOK, Working
  <2>3. CASE /\ rec[w].kind \in {"row", "update"}
             /\ Goto(w, "write") /\ UNCHANGED <<rec, at, previous>>
    BY <1>6, <2>3 DEF Lookup, Goto, TypeInv, TypeOK, Working
  <2>4. QED
    BY <1>6, <2>1, <2>2, <2>3 DEF Lookup
<1>7. ASSUME NEW w \in Writers, InsertEvent(w) PROVE TypeInv'
  BY <1>7, ReturnTyped DEF InsertEvent, TypeInv, TypeOK
<1>8. ASSUME NEW w \in Writers, WriteRow(w) PROVE TypeInv'
  <2>1. rec[w].id \in Ids
    BY <1>8 DEF WriteRow, TypeInv, Working, Ids
  <2>2. rows' \subseteq Ids
    BY <1>8, <2>1 DEF WriteRow, TypeInv, TypeOK
  <2>3. QED
    BY <1>8, <2>2, ReturnTyped DEF WriteRow, TypeInv, TypeOK
<1>9. ASSUME NEW w \in Writers, UpdateRow(w) PROVE TypeInv'
  BY <1>9, ReturnTyped DEF UpdateRow, TypeInv, TypeOK
<1>10. ASSUME NEW w \in Writers, Abort(w) PROVE TypeInv'
  BY <1>10, ReturnTyped DEF Abort, TypeInv, TypeOK
<1>11. CASE Tick
  BY <1>11, RecordsAssumption DEF Tick, TypeInv, TypeOK, Working, Times, writers
<1>12. CASE UNCHANGED vars
  BY <1>12 DEF vars, writers, TypeInv, TypeOK, Working
<1>13. QED
  BY <1>2, <1>4, <1>5, <1>6, <1>7, <1>8, <1>9, <1>10, <1>11, <1>12 DEF Next

LEMMA TypeInvariant == Spec => []TypeInv
<1>1. QED
  BY InitTypeInv, NextTypeInv, PTL DEF Spec

\* Every event, row, draft and record in hand keeps its type, for any number of
\* writers and records: no call of repository.py leaves a row or an event of a
\* record it was not given.
THEOREM LedgerTypeCorrect == Spec => []TypeOK
<1>1. QED
  BY TypeInvariant, PTL DEF TypeInv

-----------------------------------------------------------------------------
(* Keys.                                                                     *)

\* Two writers that looked before either wrote still leave one event per key:
\* the insert itself, not the lookup, decides (repository.py _insert_event).
THEOREM KeysAreUnique == Spec => []OneEventPerKey
<1>1. Init => OneEventPerKey
  BY DEF Init, OneEventPerKey, Positions
<1>2. ASSUME TypeInv, [Next]_vars, OneEventPerKey PROVE OneEventPerKey'
  <2>1. CASE events' = events
    BY <1>2, <2>1 DEF OneEventPerKey, Positions
  <2>2. ASSUME NEW r \in Records, NEW time \in Times, NEW prev \in Hashes,
               Adds(r, time, prev), ~KeyUsed(r.key)
        PROVE  OneEventPerKey'
    <3> DEFINE e == Event(r, time, prev)
    <3>1. e \in Events /\ e.rec = r
      BY EventTyped DEF Event
    <3> HIDE DEF e
    <3>2. /\ \A i \in Positions : events'[i] = events[i]
          /\ \A i \in Positions' : i \in Positions \/ i = Len(events')
          /\ events'[Len(events')] = e
      BY <1>2, <2>2, <3>1, Appended DEF TypeInv, Adds, e
    <3>3. \A i \in Positions : events[i].rec.key # r.key
      BY <2>2 DEF KeyUsed
    <3>4. QED
      BY <1>2, <3>1, <3>2, <3>3 DEF OneEventPerKey
  <2>3. QED
    BY <1>2, <2>1, <2>2, LogGrows
<1>3. QED
  BY <1>1, <1>2, TypeInvariant, PTL DEF Spec

\* A used key stays used.
LEMMA KeysStay ==
  ASSUME TypeInv, [Next]_vars, NEW key, KeyUsed(key)
  PROVE  KeyUsed(key)'
<1>1. CASE events' = events
  BY <1>1 DEF KeyUsed, Positions
<1>2. ASSUME NEW r \in Records, NEW time \in Times, NEW prev \in Hashes, Adds(r, time, prev)
      PROVE  KeyUsed(key)'
  <2>1. \A i \in Positions : i \in Positions' /\ events'[i] = events[i]
    BY <1>2, EventTyped, Appended DEF TypeInv, Adds
  <2>2. QED
    BY <2>1 DEF KeyUsed
<1>3. QED
  BY <1>1, <1>2, LogGrows

\* The key of every row is in the event log, whatever fails between the two
\* inserts (repository.py record_*, one transaction for the row and its event).
THEOREM RowsKeepTheirEvents == Spec => []RowsAreLogged
<1>1. Init => RowsAreLogged
  BY DEF Init, RowsAreLogged
<1>2. ASSUME TypeInv, [Next]_vars, RowsAreLogged PROVE RowsAreLogged'
  <2>1. CASE rows' = rows
    BY <1>2, <2>1, KeysStay DEF RowsAreLogged
  <2>2. ASSUME NEW w \in Writers, WriteRow(w), rec[w].id \notin rows,
               rows' = rows \cup {rec[w].id}
        PROVE  RowsAreLogged'
    <3>1. rec[w] \in Records /\ rec[w].kind = "row"
      BY <1>2, <2>2 DEF WriteRow, TypeInv, Working
    <3>2. PICK key : key = rec[w].key
      OBVIOUS
    <3>3. PICK r \in Records : r.kind = "row" /\ r.id = rec[w].id /\ r.key = key
      BY <3>1, <3>2
    <3>4. KeyUsed(key)'
      <4>1. CASE KeyUsed(key)
        BY <1>2, <4>1, KeysStay
      <4>2. CASE Adds(rec[w], at[w], NewestHash)
        <5>1. at[w] \in Times /\ NewestHash \in Hashes
          BY <1>2, NewestHashTyped DEF TypeInv, TypeOK
        <5> DEFINE e == Event(rec[w], at[w], NewestHash)
        <5>2. e \in Events /\ e.rec = rec[w]
          BY <3>1, <5>1, EventTyped DEF Event
        <5> HIDE DEF e
        <5>3. Len(events') = Len(events) + 1 /\ events'[Len(events')] = e /\ Len(events) \in Nat
          BY <1>2, <4>2, <5>2, Appended, Log DEF TypeInv, Adds, e
        <5>4. QED
          BY <3>2, <5>2, <5>3 DEF KeyUsed, Positions
      <4>3. QED
        BY <2>2, <3>2, <4>1, <4>2 DEF WriteRow, Adds
    <3>5. ASSUME NEW id \in rows' PROVE \E s \in Records : s.kind = "row" /\ s.id = id /\ KeyUsed(s.key)'
      <4>1. CASE id \in rows
        <5>1. PICK s \in Records : s.kind = "row" /\ s.id = id /\ KeyUsed(s.key)
          BY <1>2, <4>1 DEF RowsAreLogged
        <5>2. KeyUsed(s.key)'
          BY <1>2, <5>1, KeysStay
        <5>3. QED
          BY <5>1, <5>2
      <4>2. CASE id = rec[w].id
        BY <3>3, <3>4, <4>2
      <4>3. QED
        BY <2>2, <4>1, <4>2
    <3>6. QED
      BY <3>5 DEF RowsAreLogged
  <2>3. QED
    BY <1>2, <2>1, <2>2
    DEF Next, Draft, StartFresh, StartDraft, Start, Lookup, InsertEvent, WriteRow, UpdateRow, Abort, Tick, vars
<1>3. QED
  BY <1>1, <1>2, TypeInvariant, PTL DEF Spec
-----------------------------------------------------------------------------
(***************************************************************************)
(* The hash chain shows exactly what happened to the order of the events:  *)
(* verify_event_chain accepts a log if and only if every event was added   *)
(* after all others and on top of the newest.  The verifier sees the       *)
(* events by created_at and rowid only; that it can tell a reordered or    *)
(* forked log apart rests on the hashes being different and on an event    *)
(* naming a hash that existed before it.                                   *)
(***************************************************************************)
\* The hash of an event covers its payload and the hash it names.
Hashed == \A i \in Positions :
  events[i].hash = Hash(events[i].prev, Payload(events[i].rec, events[i].at))

\* An event names no hash, or the hash of an event added before it; so does a
\* writer that has read the newest hash.
NamesPast ==
  /\ \A i \in Positions :
       events[i].prev = <<>> \/ \E j \in 1 .. i - 1 : events[i].prev = events[j].hash
  /\ \A w \in Writers :
       previous[w] = <<>> \/ \E j \in Positions : previous[w] = events[j].hash

ChainInv == TypeInv /\ Hashed /\ NamesPast

-----------------------------------------------------------------------------
(* The order of the events.                                                  *)

LEMMA BeforeOrder ==
  ASSUME TypeOK, NEW i \in Positions, NEW j \in Positions, NEW k \in Positions
  PROVE  /\ ~Before(i, i)
         /\ Before(i, j) /\ Before(j, k) => Before(i, k)
         /\ i # j => Before(i, j) \/ Before(j, i)
BY Log DEF Before

LEMMA FirstPosition ==
  ASSUME TypeOK, NEW S \in SUBSET Positions, S # {}
  PROVE  \E i \in S : \A j \in S \ {i} : Before(i, j)
<1>1. \A i \in Positions : events[i].at \in Nat /\ i \in Nat
  BY Log
<1> DEFINE Stamps == {events[i].at : i \in S}
<1>2. PICK t \in Stamps : \A u \in Stamps : t <= u
  <2>1. Stamps \in SUBSET Nat /\ Stamps # {}
    BY <1>1
  <2>2. QED
    BY <2>1, Smallest
<1> DEFINE Earliest == {i \in S : events[i].at = t}
<1>3. PICK i \in Earliest : \A j \in Earliest : i <= j
  <2>1. Earliest \in SUBSET Nat /\ Earliest # {}
    BY <1>1
  <2>2. QED
    BY <2>1, Smallest
<1>4. ASSUME NEW j \in S \ {i} PROVE Before(i, j)
  <2>1. t <= events[j].at /\ events[i].at = t
    BY <1>2
  <2>2. CASE events[j].at = t
    BY <2>1, <2>2, <1>1, <1>3 DEF Before
  <2>3. CASE events[j].at # t
    BY <2>1, <2>3, <1>1 DEF Before
  <2>4. QED
    BY <2>2, <2>3
<1>5. QED
  BY <1>4

\* The previous hash the verifier expects: none for the first event, else that
\* of the event just before.
LEMMA Expected ==
  ASSUME TypeOK, NEW i \in Positions
  PROVE  \/ (\A k \in Positions : ~Before(k, i)) /\ ExpectedPrevious(i) = <<>>
         \/ \E p \in Positions :
              /\ Before(p, i) /\ ExpectedPrevious(i) = events[p].hash
              /\ \A k \in Positions \ {p} : Before(k, i) => Before(k, p)
<1> DEFINE earlier == {j \in Positions : Before(j, i)}
<1>1. CASE earlier = {}
  BY <1>1 DEF ExpectedPrevious
<1>2. CASE earlier # {}
  <2> DEFINE p == CHOOSE j \in earlier : \A k \in earlier \ {j} : Before(k, j)
  <2>1. \E j \in earlier : \A k \in earlier \ {j} : Before(k, j)
    BY <1>2, LastPosition
  <2>2. p \in earlier /\ \A k \in earlier \ {p} : Before(k, p)
    BY <2>1
  <2>3. ExpectedPrevious(i) = events[p].hash
    BY <1>2 DEF ExpectedPrevious
  <2> HIDE DEF p
  <2>4. QED
    BY <2>2, <2>3
<1>3. QED
  BY <1>1, <1>2

\* The newest hash is that of an event of the log, when there is one.
LEMMA Newest ==
  ASSUME TypeOK
  PROVE  \/ events = <<>> /\ NewestHash = <<>>
         \/ \E i \in Positions : /\ NewestHash = events[i].hash
                                 /\ \A j \in Positions \ {i} : Before(j, i)
<1>1. CASE events = <<>>
  BY <1>1 DEF NewestHash
<1>2. CASE events # <<>>
  <2> DEFINE n == CHOOSE i \in Positions : \A j \in Positions \ {i} : Before(j, i)
  <2>1. \E i \in Positions : \A j \in Positions \ {i} : Before(j, i)
    <3>1. Positions # {}
      BY <1>2, Log
    <3>2. QED
      BY <3>1, LastPosition
  <2>2. n \in Positions /\ \A j \in Positions \ {n} : Before(j, n)
    BY <2>1
  <2>3. NewestHash = events[n].hash
    BY <1>2 DEF NewestHash
  <2> HIDE DEF n
  <2>4. QED
    BY <2>2, <2>3
<1>3. QED
  BY <1>1, <1>2

\* What is appended can be told from the result.
LEMMA HashTyped ==
  ASSUME NEW g \in Hashes, NEW x \in Payloads
  PROVE  /\ Hash(g, x) \in Hashes /\ Len(Hash(g, x)) = Len(g) + 1 /\ Len(g) \in Nat
         /\ Hash(g, x) # <<>>
         /\ \A n \in 1 .. Len(g) : Hash(g, x)[n] = g[n]
<1>1. Hash(g, x) \in Hashes /\ Len(Hash(g, x)) = Len(g) + 1 /\ Len(g) \in Nat
  BY DEF Hash, Hashes
<1>2. Hash(g, x) # <<>>
  BY <1>1, EmptySeq
<1>3. \A n \in 1 .. Len(g) : Hash(g, x)[n] = g[n]
  BY DEF Hash, Hashes
<1>4. QED
  BY <1>1, <1>2, <1>3

LEMMA HashInjective ==
  ASSUME NEW g \in Hashes, NEW h \in Hashes, NEW x \in Payloads, NEW y \in Payloads,
         Hash(g, x) = Hash(h, y)
  PROVE  g = h
<1>1. Len(g) = Len(h)
  BY HashTyped
<1>2. ASSUME NEW n \in 1 .. Len(g) PROVE g[n] = h[n]
  <2>1. Hash(g, x)[n] = g[n]
    BY HashTyped
  <2>2. n \in 1 .. Len(h)
    BY <1>1
  <2>3. Hash(h, y)[n] = h[n]
    BY <2>2, HashTyped
  <2>4. QED
    BY <2>1, <2>3
<1>3. QED
  BY <1>1, <1>2, SeqEqual DEF Hashes

-----------------------------------------------------------------------------
(* A log whose events came in order verifies.                                *)

\* In a log without late events the expected hash is that of the event added last.
LEMMA ExpectedInOrder ==
  ASSUME TypeOK, NEW i \in Positions,
         \A k \in Positions : \A j \in 1 .. k : events[j].at <= events[k].at
  PROVE  ExpectedPrevious(i) = IF i = 1 THEN <<>> ELSE events[i - 1].hash
<1>1. \A k \in Positions : k \in Nat /\ k >= 1 /\ k <= Len(events) /\ events[k].at \in Nat
  BY Log DEF Positions
<1>2. Len(events) \in Nat
  BY Log
<1>3. ASSUME NEW k \in Positions, NEW m \in Positions PROVE Before(k, m) <=> k < m
  <2>1. CASE k < m
    <3>1. events[k].at <= events[m].at
      BY <2>1, <1>1
    <3>2. QED
      BY <2>1, <3>1, <1>1 DEF Before
  <2>2. CASE ~(k < m)
    <3>1. events[m].at <= events[k].at
      BY <2>2, <1>1
    <3>2. QED
      BY <2>2, <3>1, <1>1 DEF Before
  <2>3. QED
    BY <2>1, <2>2
<1>4. CASE i = 1
  <2>1. \A k \in Positions : ~Before(k, i)
    BY <1>1, <1>3, <1>4
  <2>2. QED
    BY <1>4, <2>1, Expected
<1>5. CASE i # 1
  <2>1. i - 1 \in Positions /\ Before(i - 1, i)
    BY <1>1, <1>2, <1>3, <1>5 DEF Positions
  <2>2. PICK p \in Positions :
          /\ Before(p, i) /\ ExpectedPrevious(i) = events[p].hash
          /\ \A k \in Positions \ {p} : Before(k, i) => Before(k, p)
    BY <2>1, Expected
  <2>3. p = i - 1
    BY <2>1, <2>2, <1>1, <1>3
  <2>4. QED
    BY <1>5, <2>2, <2>3
<1>6. QED
  BY <1>4, <1>5

LEMMA OrderedVerifies ==
  ASSUME TypeOK, Hashed, InOrder
  PROVE  VerifyChain
<1>1. ASSUME NEW i \in Positions
      PROVE  events[i].prev = ExpectedPrevious(i)
  BY ExpectedInOrder DEF InOrder
<1>2. QED
  BY <1>1 DEF VerifyChain, Hashed

-----------------------------------------------------------------------------
(* A log that verifies came in order.                                        *)

\* In a chain that verifies no two events have the same hash: two events with
\* one hash name the same previous hash, and so on down to the first event.
LEMMA HashesDiffer ==
  ASSUME TypeOK, VerifyChain, NEW i \in Positions, NEW m \in Positions, i # m
  PROVE  events[i].hash # events[m].hash
<1> DEFINE Twins == {k \in Positions : \E l \in Positions \ {k} : events[k].hash = events[l].hash}
<1> SUFFICES ASSUME Twins # {} PROVE FALSE
  OBVIOUS
<1>1. PICK k \in Twins : \A l \in Twins \ {k} : Before(k, l)
  BY FirstPosition
<1>2. PICK l \in Positions \ {k} : events[k].hash = events[l].hash
  BY <1>1
<1> k \in Positions /\ l \in Positions /\ k # l
  BY <1>1, <1>2
<1>3. \A n \in Positions :
        /\ ExpectedPrevious(n) \in Hashes /\ Payload(events[n].rec, events[n].at) \in Payloads
        /\ events[n].hash = Hash(ExpectedPrevious(n), Payload(events[n].rec, events[n].at))
  <2> SUFFICES ASSUME NEW n \in Positions
               PROVE  /\ ExpectedPrevious(n) \in Hashes
                      /\ Payload(events[n].rec, events[n].at) \in Payloads
    BY DEF VerifyChain
  <2>1. events[n] \in Events /\ events[n].prev = ExpectedPrevious(n)
    BY Log DEF VerifyChain
  <2>2. events[n].prev \in Hashes /\ events[n].rec \in Records /\ events[n].at \in Times
    BY <2>1 DEF Events
  <2>3. QED
    BY <2>1, <2>2 DEF Payload, Payloads, Ids
<1>4. ExpectedPrevious(k) = ExpectedPrevious(l)
  BY <1>2, <1>3, HashInjective
<1>5. \A n \in Positions : events[n].hash # <<>>
  <2> SUFFICES ASSUME NEW n \in Positions PROVE events[n].hash # <<>>
    OBVIOUS
  <2>1. Hash(ExpectedPrevious(n), Payload(events[n].rec, events[n].at)) # <<>>
    BY <1>3, HashTyped
  <2>2. QED
    BY <1>3, <2>1
<1>6. PICK p \in Positions :
        /\ Before(p, k) /\ ExpectedPrevious(k) = events[p].hash
        /\ \A n \in Positions \ {p} : Before(n, k) => Before(n, p)
  BY <1>4, <1>5, Expected, BeforeOrder
<1>7. PICK q \in Positions :
        /\ Before(q, l) /\ ExpectedPrevious(l) = events[q].hash
        /\ \A n \in Positions \ {q} : Before(n, l) => Before(n, q)
  <2>1. ExpectedPrevious(l) # <<>>
    BY <1>4, <1>5, <1>6
  <2>2. QED
    BY <2>1, Expected
<1>8. p # q
  BY <1>6, <1>7, BeforeOrder
<1>9. p \in Twins /\ p # k
  BY <1>4, <1>6, <1>7, <1>8, BeforeOrder
<1>10. QED
  BY <1>1, <1>6, <1>9, BeforeOrder

\* An event that comes later in the order of created_at was added later: the one
\* right after it names its hash, so that hash existed by then, and so on.
LEMMA LaterIsAddedLater ==
  ASSUME TypeOK, VerifyChain, NamesPast,
         NEW i \in Positions, NEW j \in Positions, Before(i, j)
  PROVE  i < j
<1> DEFINE Early == {n \in Positions : Before(i, n) /\ n < i}
<1> SUFFICES ASSUME Early # {} PROVE FALSE
  <2>1. i \in Nat /\ j \in Nat /\ i # j
    BY Log, BeforeOrder
  <2>2. QED
    BY <2>1
<1>1. PICK n \in Early : \A l \in Early \ {n} : Before(n, l)
  BY FirstPosition
<1>2. PICK p \in Positions :
        /\ Before(p, n) /\ ExpectedPrevious(n) = events[p].hash
        /\ \A k \in Positions \ {p} : Before(k, n) => Before(k, p)
  BY <1>1, Expected
<1>3. events[n].prev = events[p].hash
  BY <1>1, <1>2 DEF VerifyChain
<1>4. events[p].hash # <<>>
  <2>1. events[p] \in Events /\ events[p].prev = ExpectedPrevious(p)
    BY Log DEF VerifyChain
  <2>2. events[p].prev \in Hashes /\ Payload(events[p].rec, events[p].at) \in Payloads
    BY <2>1 DEF Events, Payload, Payloads, Ids
  <2>3. QED
    BY <2>1, <2>2, HashTyped DEF VerifyChain
<1>5. PICK l \in 1 .. n - 1 : events[n].prev = events[l].hash
  BY <1>1, <1>3, <1>4 DEF NamesPast
<1>6. l \in Positions /\ l < n /\ n < i /\ n \in Nat /\ i \in Nat /\ p \in Nat
  BY <1>1, Log DEF Positions
<1>7. p = l
  BY <1>3, <1>5, <1>6, HashesDiffer
<1>8. p # i /\ Before(i, p)
  BY <1>1, <1>2, <1>6, <1>7
<1>9. p \in Early \ {n}
  BY <1>6, <1>7, <1>8
<1>10. QED
  BY <1>1, <1>2, <1>9, BeforeOrder

LEMMA VerifiedInOrder ==
  ASSUME TypeOK, VerifyChain, NamesPast
  PROVE  InOrder
<1>1. ASSUME NEW i \in Positions, NEW j \in 1 .. i PROVE events[j].at <= events[i].at
  <2>1. j \in Positions /\ i \in Nat /\ j \in Nat /\ j <= i
    BY Log DEF Positions
  <2>2. events[i].at \in Nat /\ events[j].at \in Nat
    BY <2>1, Log
  <2>3. ~Before(i, j)
    BY <2>1, LaterIsAddedLater
  <2>4. QED
    BY <2>2, <2>3 DEF Before
<1>2. \A i \in Positions :
        ExpectedPrevious(i) = IF i = 1 THEN <<>> ELSE events[i - 1].hash
  BY <1>1, ExpectedInOrder
<1>3. QED
  BY <1>1, <1>2 DEF InOrder, VerifyChain

-----------------------------------------------------------------------------
(* Both conditions hold of every log.                                        *)

\* What a writer has read as the newest hash.
LEMMA PreviousRead ==
  ASSUME TypeInv, [Next]_vars, NEW w \in Writers
  PROVE  previous'[w] = previous[w] \/ previous'[w] = <<>> \/ previous'[w] = NewestHash
<1> previous \in [Writers -> Hashes]
  BY DEF TypeInv, TypeOK
<1>1. ASSUME NEW u \in Writers, Lookup(u)
      PROVE  previous'[w] = previous[w] \/ previous'[w] = <<>> \/ previous'[w] = NewestHash
  BY <1>1 DEF Lookup, Return
<1>2. ASSUME NEW u \in Writers, InsertEvent(u) \/ WriteRow(u) \/ UpdateRow(u) \/ Abort(u)
      PROVE  previous'[w] = previous[w] \/ previous'[w] = <<>>
  BY <1>2 DEF InsertEvent, WriteRow, UpdateRow, Abort, Return
<1>3. ASSUME NEW u \in Writers, NEW r \in Records, StartFresh(u, r) PROVE previous' = previous
  BY <1>3 DEF StartFresh, Start
<1>4. ASSUME NEW u \in Writers, NEW d \in drafts, StartDraft(u, d) PROVE previous' = previous
  BY <1>4 DEF StartDraft, Start
<1>5. ASSUME NEW r \in Records, Draft(r) PROVE previous' = previous
  BY <1>5 DEF Draft, writers
<1>6. Tick \/ UNCHANGED vars => previous' = previous
  BY DEF Tick, vars, writers
<1>7. QED
  BY <1>1, <1>2, <1>3, <1>4, <1>5, <1>6 DEF Next

LEMMA InitChainInv == Init => ChainInv
<1> SUFFICES ASSUME Init PROVE ChainInv
  OBVIOUS
<1>1. Positions = {}
  BY DEF Init, Positions
<1>2. QED
  BY <1>1, InitTypeInv DEF Init, ChainInv, Hashed, NamesPast

LEMMA NextChainInv == ChainInv /\ [Next]_vars => ChainInv'
<1> SUFFICES ASSUME ChainInv, [Next]_vars PROVE ChainInv'
  OBVIOUS
<1> USE DEF ChainInv
<1>1. TypeInv'
  BY NextTypeInv
<1>2. NewestHash = <<>> \/ \E j \in Positions : NewestHash = events[j].hash
  BY Newest DEF TypeInv
<1>3. CASE events' = events
  <2>1. Hashed'
    BY <1>3 DEF Hashed, Positions
  <2>2. \A i \in Positions' :
          events'[i].prev = <<>> \/ \E j \in 1 .. i - 1 : events'[i].prev = events'[j].hash
    BY <1>3 DEF NamesPast, Positions
  <2>3. ASSUME NEW w \in Writers
        PROVE  previous'[w] = <<>> \/ \E j \in Positions' : previous'[w] = events'[j].hash
    BY <1>2, <1>3, PreviousRead DEF NamesPast, Positions
  <2>4. QED
    BY <1>1, <2>1, <2>2, <2>3 DEF NamesPast
<1>4. ASSUME NEW r \in Records, NEW time \in Times, NEW prev \in Hashes, Adds(r, time, prev),
             prev = NewestHash \/ \E w \in Writers : prev = previous[w]
      PROVE  ChainInv'
  <2> DEFINE e == Event(r, time, prev)
  <2>1. /\ e \in Events /\ e.rec = r /\ e.at = time /\ e.prev = prev
        /\ e.hash = Hash(prev, Payload(r, time))
    BY EventTyped DEF Event
  <2>2. events' = Append(events, e) /\ Len(events) < MaxEvents
    BY <1>4 DEF Adds
  <2> HIDE DEF e
  <2>3. /\ Len(events') = Len(events) + 1 /\ Len(events) \in Nat
        /\ \A i \in Positions : i \in Positions' /\ events'[i] = events[i]
        /\ \A i \in Positions' : i \in Positions \/ i = Len(events')
        /\ events'[Len(events')] = e
    BY <2>1, <2>2, Appended, Log DEF TypeInv
  <2>4. Hashed'
    BY <2>1, <2>3 DEF Hashed
  <2>5. prev = <<>> \/ \E j \in Positions : prev = events[j].hash
    BY <1>2, <1>4 DEF NamesPast
  <2>6. ASSUME NEW i \in Positions'
        PROVE  events'[i].prev = <<>> \/ \E j \in 1 .. i - 1 : events'[i].prev = events'[j].hash
    <3>1. CASE i \in Positions
      <4>1. \A j \in 1 .. i - 1 : j \in Positions
        BY <3>1, <2>3 DEF Positions
      <4>2. QED
        BY <2>3, <3>1, <4>1 DEF NamesPast
    <3>2. CASE i = Len(events')
      <4>1. \A j \in Positions : j \in 1 .. i - 1
        BY <2>3, <3>2 DEF Positions
      <4>2. QED
        BY <2>1, <2>3, <2>5, <3>2, <4>1
    <3>3. QED
      BY <2>3, <3>1, <3>2
  <2>7. ASSUME NEW w \in Writers
        PROVE  previous'[w] = <<>> \/ \E j \in Positions' : previous'[w] = events'[j].hash
    <3>1. previous'[w] = <<>> \/ \E j \in Positions : previous'[w] = events[j].hash
      BY <1>2, PreviousRead DEF NamesPast
    <3>2. QED
      BY <2>3, <3>1
  <2>8. QED
    BY <1>1, <2>4, <2>6, <2>7 DEF NamesPast
<1>5. QED
  BY <1>3, <1>4, LogGrows

LEMMA ChainInvariant == Spec => []ChainInv
<1>1. QED
  BY InitChainInv, NextChainInv, PTL DEF Spec

\* The verifier rejects the log exactly when some event was not added on top of
\* the newest one: no false alarm, and no fork or late event goes unnoticed
\* (repository.py verify_event_chain, hashing.py verify_hash_chain).
THEOREM VerifierIsExact == Spec => []VerifiesIffInOrder
<1>1. ChainInv => VerifiesIffInOrder
  BY OrderedVerifies, VerifiedInOrder DEF ChainInv, TypeInv, VerifiesIffInOrder
<1>2. QED
  BY <1>1, ChainInvariant, PTL

\* Later events never make a broken chain verify again.
THEOREM BreaksStay == Spec => BreakIsPermanent
<1>1. ASSUME ChainInv, ChainInv', [Next]_vars PROVE [~VerifyChain => ~VerifyChain']_events
  <2> SUFFICES ASSUME VerifyChain', events' # events PROVE VerifyChain
    OBVIOUS
  <2>1. InOrder'
    BY <1>1, VerifiedInOrder, PTL DEF ChainInv, TypeInv
  <2>2. \A i \in Positions : i \in Positions' /\ events'[i] = events[i]
    BY <1>1, LogGrows, Appended, EventTyped DEF ChainInv, TypeInv, Adds
  <2>3. InOrder
    <3> SUFFICES ASSUME NEW i \in Positions
                 PROVE  /\ events[i].prev = IF i = 1 THEN <<>> ELSE events[i - 1].hash
                        /\ \A j \in 1 .. i : events[j].at <= events[i].at
      BY DEF InOrder
    <3>1. /\ i \in Nat /\ (i # 1 => i - 1 \in Positions)
          /\ \A j \in 1 .. i : j \in Positions
      BY <1>1, Log DEF Positions, ChainInv, TypeInv
    <3>2. /\ events'[i].prev = IF i = 1 THEN <<>> ELSE events'[i - 1].hash
          /\ \A j \in 1 .. i : events'[j].at <= events'[i].at
      BY <2>1, <2>2 DEF InOrder
    <3>3. QED
      BY <2>2, <3>1, <3>2
  <2>4. QED
    BY <1>1, <2>3, OrderedVerifies DEF ChainInv, TypeInv
<1>2. QED
  BY <1>1, ChainInvariant, PTL DEF Spec, BreakIsPermanent

-----------------------------------------------------------------------------
(* What a ledger with one writer needs for its chain to verify.              *)

\* A record made in advance is written before any event with a later stamp.
Prompt == \A w \in Writers, d \in drafts :
  StartDraft(w, d) => \A i \in Positions : events[i].at <= d.at

\* The log is in order and no event is younger than the clock; a writer at work
\* has a stamp as young as any event, and knows the newest hash when it inserts.
SerialInv ==
  /\ ChainInv /\ InOrder
  /\ \A i \in Positions : events[i].at <= clock
  /\ \A d \in drafts : d.at <= clock
  /\ \A w \in Writers :
       /\ at[w] <= clock
       /\ pc[w] # "idle" => \A i \in Positions : events[i].at <= at[w]
       /\ pc[w] = "insert" => previous[w] = NewestHash

LEMMA InOrderGrows ==
  ASSUME TypeOK, InOrder, NEW r \in Records, NEW time \in Times,
         Adds(r, time, NewestHash), \A i \in Positions : events[i].at <= time
  PROVE  InOrder' /\ \A i \in Positions' : events'[i].at \in Nat /\ events'[i].at <= time
<1> DEFINE e == Event(r, time, NewestHash)
<1>1. e \in Events /\ e.at = time /\ e.prev = NewestHash
  BY NewestHashTyped, EventTyped DEF Event
<1>2. events' = Append(events, e) /\ Len(events) < MaxEvents
  BY DEF Adds
<1> HIDE DEF e
<1>3. /\ Len(events') = Len(events) + 1 /\ Len(events) \in Nat
      /\ \A i \in Positions : i \in Positions' /\ events'[i] = events[i]
      /\ \A i \in Positions' : i \in Positions \/ i = Len(events')
      /\ events'[Len(events')] = e
  BY <1>1, <1>2, Appended, Log
<1>4. time \in Nat /\ \A i \in Positions : i \in Nat /\ events[i].at \in Nat
  BY Log, RecordsAssumption DEF Times
<1>5. NewestHash = IF Len(events) = 0 THEN <<>> ELSE events[Len(events)].hash
  <2>1. CASE events = <<>>
    BY <2>1, Newest, EmptySeq DEF Positions
  <2>2. CASE events # <<>>
    <3>1. Len(events) \in Positions
      BY <2>2, Log
    <3>2. PICK i \in Positions : /\ NewestHash = events[i].hash
                                 /\ \A j \in Positions \ {i} : Before(j, i)
      BY <2>2, Newest
    <3>3. i <= Len(events) /\ events[i].at <= events[Len(events)].at
      BY <3>1, <1>3 DEF InOrder, Positions
    <3>4. i = Len(events)
      BY <3>1, <3>2, <3>3, <1>4 DEF Before
    <3>5. QED
      BY <3>1, <3>2, <3>4 DEF Positions
  <2>3. QED
    BY <2>1, <2>2
<1>6. \A i \in Positions' : events'[i].at \in Nat /\ events'[i].at <= time
  BY <1>1, <1>3, <1>4
<1>7. ASSUME NEW i \in Positions'
      PROVE  /\ events'[i].prev = IF i = 1 THEN <<>> ELSE events'[i - 1].hash
             /\ \A j \in 1 .. i : events'[j].at <= events'[i].at
  <2>1. CASE i \in Positions
    <3>1. /\ i # 1 => i - 1 \in Positions
          /\ \A j \in 1 .. i : j \in Positions
      BY <2>1, <1>3 DEF Positions
    <3>2. /\ events[i].prev = IF i = 1 THEN <<>> ELSE events[i - 1].hash
          /\ \A j \in 1 .. i : events[j].at <= events[i].at
      BY <2>1 DEF InOrder
    <3>3. QED
      BY <2>1, <1>3, <3>1, <3>2
  <2>2. CASE i = Len(events')
    <3>1. /\ i \in Nat /\ i - 1 = Len(events) /\ (i # 1 => i - 1 \in Positions)
          /\ \A j \in 1 .. i : j \in Positions'
      BY <2>2, <1>3 DEF Positions
    <3>2. events'[i].prev = NewestHash /\ events'[i].at = time
      BY <2>2, <1>1, <1>3
    <3>3. \A j \in 1 .. i : events'[j].at <= events'[i].at
      BY <3>1, <3>2, <1>6
    <3>4. events'[i].prev = IF i = 1 THEN <<>> ELSE events'[i - 1].hash
      <4>1. (i = 1 <=> Len(events) = 0) /\ (i # 1 => events'[i - 1] = events[Len(events)])
        BY <3>1, <1>3
      <4>2. QED
        BY <4>1, <3>2, <1>5
    <3>5. QED
      BY <3>3, <3>4
  <2>3. QED
    BY <1>3, <2>1, <2>2
<1>8. QED
  BY <1>6, <1>7 DEF InOrder

LEMMA NextSerialInv ==
  ASSUME NEW w \in Writers, Writers = {w}, SerialInv, [Next]_vars, [Prompt]_vars
  PROVE  SerialInv'
<1> USE DEF SerialInv
<1>1. ChainInv'
  BY NextChainInv
<1>2. /\ TypeOK /\ clock \in Nat /\ clock \in Times
      /\ \A i \in Positions : events[i].at \in Nat
      /\ at \in [Writers -> Times] /\ pc \in [Writers -> {"idle", "lookup", "insert", "write"}]
      /\ previous \in [Writers -> Hashes]
      /\ \A u \in Writers : at[u] \in Nat /\ (pc[u] # "idle" => rec[u] \in Records)
      /\ \A d \in drafts : d.at \in Nat
  BY Log, RecordsAssumption DEF ChainInv, TypeInv, TypeOK, Working, Times
<1>3. ASSUME events' = events, drafts' = drafts, clock' = clock, NEW r, NEW time \in Nat,
             Start(w, r, time), time <= clock, \A i \in Positions : events[i].at <= time
      PROVE  SerialInv'
  BY <1>1, <1>2, <1>3 DEF Start, Goto, InOrder, Positions
<1>4. ASSUME Return(w), drafts' = drafts, clock' = clock, InOrder',
             \A i \in Positions' : events'[i].at <= clock
      PROVE  SerialInv'
  <2>1. pc'[w] = "idle" /\ at'[w] = 0
    BY <1>2, <1>4 DEF Return
  <2>2. QED
    BY <1>1, <1>2, <1>4, <2>1
<1>5. ASSUME Return(w), drafts' = drafts, clock' = clock, events' = events
      PROVE  SerialInv'
  BY <1>4, <1>5 DEF InOrder, Positions
<1>6. ASSUME Return(w), drafts' = drafts, clock' = clock,
             NEW r \in Records, NEW time \in Times, Adds(r, time, NewestHash),
             time <= clock, \A i \in Positions : events[i].at <= time
      PROVE  SerialInv'
  <2>1. InOrder' /\ \A i \in Positions' : events'[i].at \in Nat /\ events'[i].at <= time
    BY <1>2, <1>6, InOrderGrows
  <2>2. \A i \in Positions' : events'[i].at <= clock
    BY <1>2, <1>6, <2>1, RecordsAssumption DEF Times
  <2>3. QED
    BY <1>4, <1>6, <2>1, <2>2
<1>7. ASSUME NEW r \in Records, StartFresh(w, r) PROVE SerialInv'
  <2>1. Start(w, r, clock) /\ events' = events /\ drafts' = drafts /\ clock' = clock
    BY <1>7 DEF StartFresh, Start
  <2>2. clock \in Nat /\ clock <= clock
    BY <1>2
  <2>3. QED
    BY <1>3, <2>1, <2>2
<1>8. ASSUME NEW d \in drafts, StartDraft(w, d) PROVE SerialInv'
  <2>1. \A i \in Positions : events[i].at <= d.at
    <3>1. events' = events /\ pc' # pc
      BY <1>2, <1>8 DEF StartDraft, Start, Goto
    <3>2. Prompt
      BY <3>1 DEF vars, writers
    <3>3. QED
      BY <1>8, <3>2 DEF Prompt
  <2>2. QED
    BY <1>2, <1>3, <1>8, <2>1 DEF StartDraft, Start
<1>9. ASSUME Lookup(w) PROVE SerialInv'
  <2>1. events' = events /\ drafts' = drafts /\ clock' = clock
    BY <1>9 DEF Lookup
  <2>2. NewestHash' = NewestHash
    BY <2>1 DEF NewestHash, Positions, Before
  <2>3. CASE Return(w)
    BY <1>5, <2>1, <2>3
  <2>4. CASE /\ previous' = [previous EXCEPT ![w] = NewestHash]
             /\ pc[w] = "lookup" /\ Goto(w, "insert") /\ UNCHANGED <<rec, at>>
    BY <1>1, <1>2, <2>1, <2>2, <2>4 DEF Goto, InOrder, Positions
  <2>5. CASE pc[w] = "lookup" /\ Goto(w, "write") /\ UNCHANGED <<rec, at, previous>>
    BY <1>1, <1>2, <2>1, <2>5 DEF Goto, InOrder, Positions
  <2>6. QED
    BY <1>9, <2>3, <2>4, <2>5 DEF Lookup
<1>10. ASSUME InsertEvent(w) PROVE SerialInv'
  BY <1>2, <1>5, <1>6, <1>10 DEF InsertEvent, Adds
<1>11. ASSUME WriteRow(w) PROVE SerialInv'
  BY <1>2, <1>5, <1>6, <1>11 DEF WriteRow, Adds
<1>12. ASSUME UpdateRow(w) PROVE SerialInv'
  BY <1>2, <1>5, <1>6, <1>12 DEF UpdateRow, Adds
<1>13. ASSUME Abort(w) PROVE SerialInv'
  BY <1>5, <1>13 DEF Abort
<1>14. ASSUME NEW r \in Records, Draft(r) PROVE SerialInv'
  <2>1. NewestHash' = NewestHash
    BY <1>14 DEF Draft, NewestHash, Positions, Before
  <2>2. \A d \in drafts' : d.at <= clock
    BY <1>2, <1>14 DEF Draft
  <2>3. QED
    BY <1>1, <1>2, <1>14, <2>1, <2>2 DEF Draft, writers, InOrder, Positions
<1>15. ASSUME Tick PROVE SerialInv'
  <2>1. NewestHash' = NewestHash
    BY <1>15 DEF Tick, NewestHash, Positions, Before
  <2>2. clock' = clock + 1 /\ UNCHANGED <<events, drafts, pc, at, previous>>
    BY <1>15 DEF Tick, writers
  <2>3. QED
    BY <1>1, <1>2, <2>1, <2>2 DEF InOrder, Positions
<1>16. ASSUME UNCHANGED vars PROVE SerialInv'
  <2>1. NewestHash' = NewestHash
    BY <1>16 DEF vars, NewestHash, Positions, Before
  <2>2. QED
    BY <1>1, <1>16, <2>1 DEF vars, writers, InOrder, Positions
<1>17. QED
  BY <1>7, <1>8, <1>9, <1>10, <1>11, <1>12, <1>13, <1>14, <1>15, <1>16 DEF Next

\* With one writer that writes what it stamped before anything younger, the chain
\* verifies, through retries, rolled back writes and restarts: only concurrent
\* writers and late records can break it.
THEOREM SerialLedgerVerifies ==
  ASSUME NEW w \in Writers, Writers = {w}
  PROVE  Spec /\ [][Prompt]_vars => []ChainVerifies
<1>1. Init => SerialInv
  <2> SUFFICES ASSUME Init PROVE SerialInv
    OBVIOUS
  <2>1. Positions = {}
    BY DEF Init, Positions
  <2>2. QED
    BY <2>1, InitChainInv, RecordsAssumption DEF Init, SerialInv, InOrder
<1>2. SerialInv /\ [Next]_vars /\ [Prompt]_vars => SerialInv'
  BY NextSerialInv
<1>3. SerialInv => ChainVerifies
  BY OrderedVerifies DEF SerialInv, ChainInv, TypeInv, ChainVerifies
<1>4. QED
  BY <1>1, <1>2, <1>3, PTL DEF Spec
=============================================================================
