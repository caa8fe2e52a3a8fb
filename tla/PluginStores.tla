----------------------------- MODULE PluginStores -----------------------------
(***************************************************************************)
(* The plugins that keep files of their own beside the ledger: the         *)
(* download quarantine (a directory with metadata.json for each scan),     *)
(* whose promotions go through the evidence archiver (a content and a      *)
(* metadata file for each artifact), and the deadline scheduler (one JSON  *)
(* list).  None of them locks its files, so calls of several processes run *)
(* beside each other; a call is a list of steps, each of which leaves one  *)
(* file or one ledger row behind, and may die before any of them or tear   *)
(* the file it was writing.                                                *)
(***************************************************************************)
EXTENDS Integers, Sequences, FiniteSetsExt, Verdicts

CONSTANTS
  Callers,     \* the processes that use the plugins
  Downloads,   \* the files that are offered to the quarantine
  Deadlines,   \* the requests to the scheduler
  Torn,        \* the content of a schedule file that is no JSON
  MaxItems,    \* DeadlineSchedulerConfig.max_items
  MaxIds       \* bounds the calls: each makes at most one id of its own

ASSUME StoresAssumption == MaxItems \in Nat \ {0} /\ MaxIds \in Nat

VARIABLES
  scans,       \* the quarantine directories, by scan id: [file, status, evidence]
  artifacts,   \* the archive, by evidence id: [file, described]
  schedule,    \* the deadlines in the order they were scheduled, or Torn
  rows,        \* the ledger, by idempotency key: the first payload under it
  calls,       \* what each caller has still to do, and with what
  made         \* the ids made so far

vars == <<scans, artifacts, schedule, rows, calls, made>>

Undated == 0
NoEvidence == 0
Nothing == [i \in {} |-> 0]
Idle == [todo |-> <<>>, about |-> Nothing]

Init ==
  /\ scans = Nothing /\ artifacts = Nothing
  /\ schedule = <<>> /\ rows = Nothing
  /\ calls = [c \in Callers |-> Idle] /\ made = 0

Call(c, todo, about) == calls' = [calls EXCEPT ![c] = [todo |-> todo, about |-> about]]
About(c) == calls[c].about
At(c, step) == calls[c].todo # <<>> /\ calls[c].todo[1] = step
Done(c) ==
  LET rest == Tail(calls[c].todo)
  IN  Call(c, rest, IF rest = <<>> THEN Nothing ELSE About(c))

FreshId == made + 1
MayCall(c) == calls[c] = Idle /\ made < MaxIds

\* What is there already stays.
Added(f, key, value) ==
  [x \in DOMAIN f \cup {key} |-> IF x \in DOMAIN f THEN f[x] ELSE value]

\* record_ledger_record: a key that is used already writes nothing.
Record(key, payload) == rows' = Added(rows, key, payload)

-----------------------------------------------------------------------------
(***************************************************************************)
(* The quarantine.  A download is described by what the checks look at:    *)
(* archivable says that the archiver will take it (its size, its name and, *)
(* if it is text, its encoding), readable that a .zip is one.              *)
(***************************************************************************)
ZipChecks(f) ==
  [ zip_entry_count_exceeded |-> f.extension = "zip" /\ f.entries = "many",
    zip_nested_size_exceeded |-> f.extension = "zip" /\ f.nested = "huge",
    zip_path_traversal |-> f.extension = "zip" /\ f.paths = "escaping" ]

FileChecks(f) ==
  [ host_not_allowlisted |-> f.host = "other",
    extension_not_allowed |-> f.extension = "exe",
    mime_type_not_allowed |-> f.mime = "other",
    file_too_large |-> f.large,
    executable_content_blocked |-> f.executable ]

\* _safe_name and zipfile.ZipFile raise instead of rejecting.
IngestRaises(f) ==
  \/ f.name = "escaping"
  \/ Clear(FileChecks(f)) /\ f.extension = "zip" /\ ~f.readable
Accepted(f) == Clear(FileChecks(f)) /\ Clear(ZipChecks(f))

ScanKey(scan) == <<"quarantine_scan", scan>>

\* The metadata of a scan directory is the last of its files to appear.
IngestSteps == <<"stage", "describe_scan", "log">>
RejectSteps == <<"audit", "log">>

\* Mutant: the mark is set before the file is in the archive.
PromoteSteps_MarkFirst == <<"mark", "content", "metadata", "evidence", "log">>

\* store_artifact writes content and metadata, archive the ledger row, promote the rest.
PromoteSteps == <<"content", "metadata", "evidence", "mark", "log">>

Ingest(c) ==
  /\ MayCall(c)
  /\ \E f \in Downloads :
       /\ ~IngestRaises(f)
       /\ Call(c, IF Accepted(f) THEN IngestSteps ELSE RejectSteps,
               [scan |-> FreshId, file |-> f, key |-> ScanKey(FreshId),
                payload |-> IF Accepted(f) THEN "staged" ELSE "rejected"])
  /\ made' = FreshId
  /\ UNCHANGED <<scans, artifacts, schedule, rows>>

StageFile(c) ==
  /\ At(c, "stage")
  /\ scans' = Added(scans, About(c).scan,
                    [file |-> About(c).file, status |-> "none", evidence |-> NoEvidence])
  /\ Done(c)
  /\ UNCHANGED <<artifacts, schedule, rows, made>>

DescribeScan(c) ==
  /\ At(c, "describe_scan")
  /\ scans' = [scans EXCEPT ![About(c).scan].status = "staged"]
  /\ Done(c)
  /\ UNCHANGED <<artifacts, schedule, rows, made>>

\* The metadata is read now; another promotion of the scan may be on its way.
Promote(c) ==
  /\ MayCall(c)
  /\ \E scan \in DOMAIN scans :
       /\ scans[scan].status = "staged"
       /\ scans[scan].file.archivable
       /\ Call(c, PromoteSteps, [scan |-> scan, evidence |-> FreshId, key |-> ScanKey(scan),
                                 payload |-> "promoted"])
  /\ made' = FreshId
  /\ UNCHANGED <<scans, artifacts, schedule, rows>>

StoreContent(c) ==
  /\ At(c, "content")
  /\ artifacts' = Added(artifacts, About(c).evidence,
                        [file |-> scans[About(c).scan].file, described |-> FALSE])
  /\ Done(c)
  /\ UNCHANGED <<scans, schedule, rows, made>>

StoreMetadata(c) ==
  /\ At(c, "metadata")
  /\ artifacts' = [artifacts EXCEPT ![About(c).evidence].described = TRUE]
  /\ Done(c)
  /\ UNCHANGED <<scans, schedule, rows, made>>

EvidenceKey(evidence) == <<"evidence", evidence>>

RecordEvidence(c) ==
  /\ At(c, "evidence")
  /\ Record(EvidenceKey(About(c).evidence), "evidence")
  /\ Done(c)
  /\ UNCHANGED <<scans, artifacts, schedule, made>>

\* The metadata read before is written back with the mark.
MarkPromoted(c) ==
  /\ At(c, "mark")
  /\ scans' = [scans EXCEPT ![About(c).scan].status = "promoted",
                            ![About(c).scan].evidence = About(c).evidence]
  /\ Done(c)
  /\ UNCHANGED <<artifacts, schedule, rows, made>>

\* record_structured_result, the last step of every call.  The row of a promotion has
\* the key of the row of the ingestion.
Log(c) ==
  /\ At(c, "log")
  /\ Record(About(c).key, About(c).payload)
  /\ Done(c)
  /\ UNCHANGED <<scans, artifacts, schedule, made>>

\* record_plugin_audit_event, under an id of its own.
Audit(c) ==
  /\ At(c, "audit")
  /\ Record(<<"audit", About(c).key>>, "audit")
  /\ Done(c)
  /\ UNCHANGED <<scans, artifacts, schedule, made>>

-----------------------------------------------------------------------------
(***************************************************************************)
(* The deadline scheduler.  A request gives a date, or a text that names   *)
(* one or not, the current time and the end of its cooldown.               *)
(***************************************************************************)
ParsedDeadline(q) == IF q.form \in {"given", "iso_text"} THEN q.date ELSE Undated

StateFor(q) ==
  IF q.cooldown > q.now THEN "cooling_down"
  ELSE IF ParsedDeadline(q) = Undated THEN "uncertain"
  ELSE IF ParsedDeadline(q) < q.now THEN "overdue" ELSE "upcoming"

\* Mutant: only the newest entry of the reference is compared.
HasConflict_LastOnly(entries, q) ==
  LET own == {i \in DOMAIN entries : entries[i].reference = q.reference}
  IN  /\ ParsedDeadline(q) # Undated /\ own # {}
      /\ entries[Max(own)].deadline \notin {Undated, ParsedDeadline(q)}

HasConflict(entries, q) ==
  /\ ParsedDeadline(q) # Undated
  /\ \E i \in DOMAIN entries :
       /\ entries[i].reference = q.reference
       /\ entries[i].deadline \notin {Undated, ParsedDeadline(q)}

Entry(entries, q) ==
  [ reference |-> q.reference, deadline |-> ParsedDeadline(q),
    state |-> IF HasConflict(entries, q) THEN "conflicting" ELSE StateFor(q) ]

\* The oldest entries go when there are too many.
Extended(entries, entry) ==
  LET all == Append(entries, entry)
  IN  SubSeq(all, AtLeast(1, Len(all) - MaxItems + 1), Len(all))

\* The file is loaded now and written back whole, after the audit of a conflict.
Schedule(c) ==
  /\ MayCall(c)
  /\ schedule # Torn
  /\ \E q \in Deadlines :
       LET entry == Entry(schedule, q)
       IN  Call(c, IF entry.state = "conflicting" THEN <<"audit", "write", "log">>
                   ELSE <<"write", "log">>,
                [entries |-> Extended(schedule, entry),
                 key |-> <<"deadline_event", FreshId>>, payload |-> "scheduled"])
  /\ made' = FreshId
  /\ UNCHANGED <<scans, artifacts, schedule, rows>>

WriteSchedule(c) ==
  /\ At(c, "write")
  /\ schedule' = About(c).entries
  /\ Done(c)
  /\ UNCHANGED <<scans, artifacts, rows, made>>

\* The state of an entry is the one of the day it was scheduled, except that the
\* dates of the others are compared with the current time.
Summary(entries, now, window) ==
  LET Named(which) == {entries[i].reference : i \in which}
      InState(state) == {i \in DOMAIN entries : entries[i].state = state}
      dated == {i \in InState("upcoming") \cup InState("overdue") :
                  entries[i].deadline # Undated}
  IN  [ upcoming |-> Named({i \in dated : entries[i].deadline \in now .. now + window}),
        overdue |-> Named({i \in dated : entries[i].deadline < now}),
        uncertain |-> Named(InState("uncertain")),
        conflicting |-> Named(InState("conflicting")),
        cooling_down |-> Named(InState("cooling_down")) ]

Summarize(c) ==
  /\ MayCall(c)
  /\ schedule # Torn
  /\ \E q \in Deadlines :
       Call(c, <<"log">>, [key |-> <<"deadline_event", FreshId>>,
                           payload |-> Summary(schedule, q.now, 1)])
  /\ made' = FreshId
  /\ UNCHANGED <<scans, artifacts, schedule, rows>>

-----------------------------------------------------------------------------
\* The process dies between two steps; what it has written stays.
Die(c) ==
  /\ calls[c] # Idle
  /\ Call(c, <<>>, Nothing)
  /\ UNCHANGED <<scans, artifacts, schedule, rows, made>>

\* It dies while it writes a JSON file: the file is there and cannot be read.
Tear(c) ==
  /\ \/ /\ At(c, "write")
        /\ schedule' = Torn
        /\ UNCHANGED scans
     \/ /\ At(c, "mark") \/ At(c, "describe_scan")
        /\ scans' = [scans EXCEPT ![About(c).scan].status = "none"]
        /\ UNCHANGED schedule
  /\ Call(c, <<>>, Nothing)
  /\ UNCHANGED <<artifacts, rows, made>>

Next ==
  \E c \in Callers :
    \/ Ingest(c) \/ StageFile(c) \/ DescribeScan(c)
    \/ Promote(c) \/ StoreContent(c) \/ StoreMetadata(c) \/ RecordEvidence(c)
    \/ MarkPromoted(c) \/ Log(c) \/ Audit(c)
    \/ Schedule(c) \/ WriteSchedule(c) \/ Summarize(c)
    \/ Die(c) \/ Tear(c)

Spec == Init /\ [][Next]_vars

-----------------------------------------------------------------------------
(***************************************************************************)
(* Properties.                                                             *)
(***************************************************************************)
Archived(evidence) ==
  evidence \in DOMAIN artifacts /\ artifacts[evidence].described

\* Whatever dies when, and however many promotions of one scan there are: evidence the
\* ledger lists has both its files, and a scan marked promoted names evidence that the
\* ledger lists and that is the file the checks accepted under this scan (quarantine
\* service.py:146-165, archiver storage.py:176-194, runner.py:34-65).
PromotionIsBacked ==
  /\ \A key \in DOMAIN rows : key[1] = "evidence" => Archived(key[2])
  /\ \A scan \in DOMAIN scans :
       scans[scan].status = "promoted" =>
         /\ EvidenceKey(scans[scan].evidence) \in DOMAIN rows
         /\ artifacts[scans[scan].evidence].file = scans[scan].file
         /\ Accepted(scans[scan].file)

\* Two dates for one reference are never both in the schedule without a conflict that
\* the summary reports: not when calls overlap and one of them is lost, not when the
\* oldest entries have been cut off, not when a cooldown is running (deadline scheduler
\* service.py:43-75, 103-114, 199-214).
ConflictsSurface ==
  schedule # Torn =>
    \A i, j \in DOMAIN schedule :
      /\ schedule[i].reference = schedule[j].reference
      /\ Undated \notin {schedule[i].deadline, schedule[j].deadline}
      /\ schedule[i].deadline # schedule[j].deadline
      => schedule[i].reference \in Summary(schedule, 1, 1).conflicting
=============================================================================
