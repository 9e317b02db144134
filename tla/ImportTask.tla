----------------------------- MODULE ImportTask -----------------------------
(***************************************************************************)
(* An import as the aircraft-ingest command runs it, from the captured     *)
(* artifact to the exit code: the preflight pass over the document, the    *)
(* parser thread that makes the second pass and hands its records over a   *)
(* bounded channel, the import that consumes them in one transaction, and  *)
(* the connections and permits it needs of its store. Tasks share a store, *)
(* as SqlxIngestionStore allows; a document that fails its preflight only  *)
(* leaves a validation audit there. What the audit tables hold is module   *)
(* IngestRuns.                                                             *)
(***************************************************************************)
EXTENDS Integers, Sequences, FiniteSets, SequencesExt

CONSTANTS
    Task,             \* calls of the import command on one store
    Document,         \* what the input may be (DocumentAssumption)
    ChannelBound,     \* 16 records between the parser thread and the import
    MaxConnections,   \* ingest.max_connections
    None

\* A document is the records of its JSON, each with its key, its warnings and
\* whether it has an error, and what ends it: the end of the JSON, or a fault.
Item == UNION {{d.records[i] : i \in DOMAIN d.records} : d \in Document}
ASSUME DocumentAssumption ==
    /\ \A d \in Document : d.fault \in BOOLEAN /\ d.records \in Seq(Item)
    /\ \A r \in Item : r.warnings \in Nat /\ r.error \in BOOLEAN
ASSUME BoundAssumption == ChannelBound \in Nat \ {0} /\ MaxConnections \in Nat
ASSUME TaskAssumption == IsFiniteSet(Task)
ASSUME NoneAssumption == None \notin Item /\ None \notin 0..7

VARIABLES
    at,         \* at[t]: the await the task is in
    doc,        \* doc[t]: the captured document
    second,     \* second[t]: the document the second pass reads
    thread,     \* thread[t]: the parser thread of the task
    channel,    \* channel[t]: records, or the error, in the channel
    sent,       \* sent[t]: records the thread has handed over
    consumed,   \* consumed[t]: the records staged and promoted
    held,       \* held[t]: connections of the pool
    permit,     \* permit[t]: holds a permit of the import gate
    locked,     \* locked[t]: holds the advisory lock of its document
    exit,       \* exit[t]: the exit code, once known
    stored      \* the imports that committed, as pairs of document and records

taskVars == <<at, doc, consumed, held, permit, locked, exit, stored>>
threadVars == <<second, thread, channel, sent>>
vars == <<at, doc, second, thread, channel, sent, consumed, held, permit, locked, exit, stored>>

-----------------------------------------------------------------------------
(* The preflight.                                                          *)

Keys(records) == [i \in DOMAIN records |-> records[i].key]
Warnings(records) == FoldLeft(LAMBDA n, r : n + r.warnings, 0, records)

\* A preflight accepts a document that parses, has a record, and has neither
\* an error in a record nor a key twice.
Preflighted(d) ==
    /\ ~d.fault /\ d.records # <<>>
    /\ \A i \in DOMAIN d.records : ~d.records[i].error
    /\ IsInjective(Keys(d.records))

\* PreflightSummary: the count, the warnings, and a digest of the keys in
\* order, which is their sequence.
Summary(d) == [count |-> Len(d.records), warnings |-> Warnings(d.records), keys |-> Keys(d.records)]

-----------------------------------------------------------------------------
(* The store.                                                              *)

PoolSize == IF MaxConnections > 2 THEN MaxConnections ELSE 2

\* Fault: as many imports as connections.
Permits_all == PoolSize

\* from_pool: half as many imports as connections.
Permits == IF PoolSize \div 2 > 1 THEN PoolSize \div 2 ELSE 1

\* The connections in use: a task holds its first, or its first and second.
Connections == {c \in Task \X {1, 2} : c[2] <= held[c[1]]}
Free == PoolSize - Cardinality(Connections)
PermitsTaken == Cardinality({t \in Task : permit[t]})
LockTaken(t) == \E u \in Task \ {t} : locked[u] /\ doc[u] = doc[t]

Waits == {"idle", "preflight", "validation", "validating", "record", "open", "gate", "begin",
          "lock", "check", "audit", "auditing", "consume", "commit", "rollback", "fail",
          "failing", "report", "done"}

TypeOK ==
    /\ at \in [Task -> Waits]
    /\ doc \in [Task -> Document \union {None}]
    /\ second \in [Task -> Document \union {None}]
    /\ thread \in [Task -> {"none", "parsing", "ended"}]
    /\ channel \in [Task -> Seq(Item \union {None})]
    /\ \A t \in Task : Len(channel[t]) <= ChannelBound
    /\ sent \in [Task -> Nat]
    /\ consumed \in [Task -> Seq(Item)]
    /\ held \in [Task -> 0..2]
    /\ permit \in [Task -> BOOLEAN] /\ locked \in [Task -> BOOLEAN]
    /\ exit \in [Task -> {None} \union 0..7]
    /\ stored \subseteq [doc : Document, records : Seq(Item)]

Init ==
    /\ at = [t \in Task |-> "idle"]
    /\ doc = [t \in Task |-> None] /\ second = [t \in Task |-> None]
    /\ thread = [t \in Task |-> "none"]
    /\ channel = [t \in Task |-> <<>>] /\ sent = [t \in Task |-> 0]
    /\ consumed = [t \in Task |-> <<>>]
    /\ held = [t \in Task |-> 0]
    /\ permit = [t \in Task |-> FALSE] /\ locked = [t \in Task |-> FALSE]
    /\ exit = [t \in Task |-> None]
    /\ stored = {}

-----------------------------------------------------------------------------
(* The command, up to the import.                                          *)

\* The exit codes of the errors of the adapter and of the use case.
SourceFailure == [Artifact |-> 3, Json |-> 4, EmptyDocument |-> 4, Validation |-> 4, ParserThread |-> 7, ConsumerClosed |-> 7]
ImportFailure == [AlreadyRunning |-> 5, Input |-> 4, Persistence |-> 6, ParserConsistency |-> 7,
                  WarningCountMismatch |-> 7, ParserRecordKeysMismatch |-> 7]
\* The report cannot be written, or not be rendered.
ReportFailure == {3, 7}

Goes(t, a) == at' = [at EXCEPT ![t] = a]
Exits(t, code) == Goes(t, "done") /\ exit' = [exit EXCEPT ![t] = code]

(* Dropping a transaction gives its connection and its advisory lock back, *)
(* and the unit of work its permit.                                        *)
Drops(t) ==
    /\ held' = [held EXCEPT ![t] = 0]
    /\ locked' = [locked EXCEPT ![t] = FALSE]
    /\ permit' = [permit EXCEPT ![t] = FALSE]

\* Settings, then the capture of the input into a temporary file.
Capture(t) ==
    /\ at[t] = "idle"
    /\ \/ (\E d \in Document : doc' = [doc EXCEPT ![t] = d]) /\ Goes(t, "preflight") /\ UNCHANGED exit
       \/ (Exits(t, 2) \/ Exits(t, 3)) /\ UNCHANGED doc
    /\ UNCHANGED <<consumed, held, permit, locked, stored, threadVars>>

\* The exit after a preflight that failed: the artifact could not be read, or
\* the document is not one to import.
Refuses(t) == \E code \in {SourceFailure.Artifact, SourceFailure.Validation} : Exits(t, code)

\* The preflight, and the connection of the store that follows either way. Any
\* document can fail it: the temporary file is reopened and read.
Preflight(t) ==
    /\ at[t] = "preflight"
    /\ \/ Preflighted(doc[t]) /\ Goes(t, "open") /\ UNCHANGED exit
       \/ Preflighted(doc[t]) /\ Exits(t, ImportFailure.Persistence)
       \/ Goes(t, "validation") /\ UNCHANGED exit
       \/ Refuses(t)
    /\ UNCHANGED <<doc, consumed, held, permit, locked, stored, threadVars>>

\* record_validation_failure takes a connection without a permit.
Validation(t) ==
    /\ at[t] = "validation"
    /\ \/ Free > 0 /\ held' = [held EXCEPT ![t] = 1] /\ Goes(t, "validating") /\ UNCHANGED exit
       \/ Refuses(t) /\ UNCHANGED held
    /\ UNCHANGED <<doc, consumed, permit, locked, stored, threadVars>>

\* It waits for the advisory lock, until it is free or lock_timeout.
Validating(t) ==
    /\ at[t] = "validating"
    /\ \/ /\ ~LockTaken(t)
          /\ locked' = [locked EXCEPT ![t] = TRUE] /\ Goes(t, "record")
          /\ UNCHANGED <<held, permit, exit>>
       \/ Drops(t) /\ Refuses(t)
    /\ UNCHANGED <<doc, consumed, stored, threadVars>>

\* The audit is written or is not; the command fails either way.
Record(t) ==
    /\ at[t] = "record"
    /\ Drops(t) /\ Refuses(t)
    /\ UNCHANGED <<doc, consumed, stored, threadVars>>

\* open_records reads the temporary file again, in a thread of its own.
OpenRecords(t) ==
    /\ at[t] = "open"
    /\ \/ /\ \E d \in Document : second' = [second EXCEPT ![t] = d]
          /\ thread' = [thread EXCEPT ![t] = "parsing"]
          /\ Goes(t, "gate") /\ UNCHANGED exit
       \/ (Exits(t, SourceFailure.Artifact) \/ Exits(t, SourceFailure.ParserThread)) /\ UNCHANGED <<second, thread>>
    /\ UNCHANGED <<doc, consumed, held, permit, locked, stored, channel, sent>>

-----------------------------------------------------------------------------
(* start_import.                                                           *)

\* The import gate: waits for a permit, without a connection.
Gate(t) ==
    /\ at[t] = "gate" /\ PermitsTaken < Permits
    /\ permit' = [permit EXCEPT ![t] = TRUE]
    /\ Goes(t, "begin")
    /\ UNCHANGED <<doc, consumed, held, locked, exit, stored, threadVars>>

\* The connection of the import, or the pool's acquire timeout.
Begin(t) ==
    /\ at[t] = "begin"
    /\ \/ /\ Free > 0
          /\ held' = [held EXCEPT ![t] = 1] /\ Goes(t, "lock") /\ UNCHANGED <<permit, locked, exit>>
       \/ Drops(t) /\ Exits(t, ImportFailure.Persistence)
    /\ UNCHANGED <<doc, consumed, stored, threadVars>>

\* pg_try_advisory_xact_lock: busy is an answer, not a wait.
Lock(t) ==
    /\ at[t] = "lock"
    /\ \/ ~LockTaken(t) /\ locked' = [locked EXCEPT ![t] = TRUE] /\ Goes(t, "check")
          /\ UNCHANGED <<held, permit, exit>>
       \/ LockTaken(t) /\ Drops(t) /\ Exits(t, ImportFailure.AlreadyRunning)
       \/ Drops(t) /\ Exits(t, ImportFailure.Persistence)
    /\ UNCHANGED <<doc, consumed, stored, threadVars>>

Imported(d) == \E s \in stored : s.doc = d

\* successful_report: what succeeded before is reported again.
Check(t) ==
    /\ at[t] = "check"
    /\ \/ Imported(doc[t]) /\ Drops(t) /\ Goes(t, "report") /\ UNCHANGED exit
       \/ ~Imported(doc[t]) /\ Goes(t, "audit") /\ UNCHANGED <<held, permit, locked, exit>>
       \/ Drops(t) /\ Exits(t, ImportFailure.Persistence)
    /\ UNCHANGED <<doc, consumed, stored, threadVars>>

\* The audit of the attempt runs on a second connection.
Audit(t) ==
    /\ at[t] = "audit"
    /\ \/ Free > 0 /\ held' = [held EXCEPT ![t] = 2] /\ Goes(t, "auditing")
          /\ UNCHANGED <<permit, locked, exit>>
       \/ Drops(t) /\ Exits(t, ImportFailure.Persistence)
    /\ UNCHANGED <<doc, consumed, stored, threadVars>>

Audited(t) ==
    /\ at[t] = "auditing"
    /\ \/ held' = [held EXCEPT ![t] = 1] /\ Goes(t, "consume") /\ UNCHANGED <<permit, locked, exit>>
       \/ Drops(t) /\ Exits(t, ImportFailure.Persistence)
    /\ UNCHANGED <<doc, consumed, stored, threadVars>>

-----------------------------------------------------------------------------
(* consume_records.                                                        *)

\* The rest of the task when its import fails: roll back, audit, exit.
Fails(t, code) == Goes(t, "rollback") /\ exit' = [exit EXCEPT ![t] = code]

\* next_record and stage_and_promote for one record; the thread's error and a
\* record with an error end the import, and so does the database.
Consume(t) ==
    /\ at[t] = "consume" /\ channel[t] # <<>>
    /\ LET r == Head(channel[t])
       IN  \/ (r = None \/ (r # None /\ r.error)) /\ Fails(t, ImportFailure.Input) /\ UNCHANGED consumed
           \/ /\ r # None /\ ~r.error
              /\ consumed' = [consumed EXCEPT ![t] = Append(@, r)]
              /\ UNCHANGED <<at, exit>>
           \/ r # None /\ ~r.error /\ Fails(t, ImportFailure.Persistence) /\ UNCHANGED consumed
    /\ channel' = [channel EXCEPT ![t] = Tail(@)]
    /\ UNCHANGED <<doc, held, permit, locked, stored, second, thread, sent>>

\* Fault: the end of the stream is taken for the end of the document.
Consistent_warningsOnly(t) == Summary([records |-> consumed[t]]).warnings = Summary(doc[t]).warnings

\* What was consumed is what the preflight saw: the count, the digest of the
\* keys and the warnings.
Consistent(t) == Summary([records |-> consumed[t]]) = Summary(doc[t])

\* Fault: the import waits for as many records as its preflight counted.
EndOfStream_counted(t) ==
    /\ at[t] = "consume" /\ Len(consumed[t]) = Len(doc[t].records)
    /\ \/ ~Consistent(t) /\ Fails(t, ImportFailure.ParserConsistency)
       \/ Consistent(t) /\ (Fails(t, ImportFailure.Persistence) \/ (Goes(t, "commit") /\ UNCHANGED exit))
    /\ UNCHANGED <<doc, consumed, held, permit, locked, stored, threadVars>>

\* The channel is closed: the thread has ended, whatever the reason. The
\* import compares, refreshes the read models and marks its success.
EndOfStream(t) ==
    /\ at[t] = "consume" /\ channel[t] = <<>> /\ thread[t] = "ended"
    /\ \/ ~Consistent(t) /\ Fails(t, ImportFailure.ParserConsistency)
       \/ Consistent(t) /\ (Fails(t, ImportFailure.Persistence) \/ (Goes(t, "commit") /\ UNCHANGED exit))
    /\ UNCHANGED <<doc, consumed, held, permit, locked, stored, threadVars>>

\* The commit takes effect or not, and its answer arrives or not.
Commit(t) ==
    /\ at[t] = "commit"
    /\ \/ /\ stored' = stored \union {[doc |-> doc[t], records |-> consumed[t]]}
          /\ Goes(t, "report") /\ UNCHANGED exit
       \/ /\ stored' \in {stored, stored \union {[doc |-> doc[t], records |-> consumed[t]]}}
          /\ Goes(t, "fail") /\ exit' = [exit EXCEPT ![t] = 6]
    /\ Drops(t) /\ consumed' = [consumed EXCEPT ![t] = <<>>]
    /\ UNCHANGED <<doc, threadVars>>

\* Fault: the unit of work outlives its rollback.
Rollback_keepsUnit(t) ==
    /\ at[t] = "rollback"
    /\ locked' = [locked EXCEPT ![t] = FALSE] /\ UNCHANGED <<held, permit>>
    /\ Goes(t, "fail")
    /\ UNCHANGED <<doc, consumed, exit, stored, threadVars>>

\* rollback_and_audit: the connection is back before another is asked for.
Rollback(t) ==
    /\ at[t] = "rollback"
    /\ Drops(t) /\ consumed' = [consumed EXCEPT ![t] = <<>>]
    /\ Goes(t, "fail")
    /\ UNCHANGED <<doc, exit, stored, threadVars>>

\* mark_failed, on a connection from the pool or not at all.
MarkFailed(t) ==
    /\ \/ /\ at[t] = "fail"
          /\ \/ Free > 0 /\ held' = [held EXCEPT ![t] = 1] /\ Goes(t, "failing")
             \/ Goes(t, "done") /\ UNCHANGED held
       \/ /\ at[t] = "failing"
          /\ held' = [held EXCEPT ![t] = 0] /\ Goes(t, "done")
    /\ UNCHANGED <<doc, consumed, permit, locked, exit, stored, threadVars>>

\* write_report and render_import: a report file that cannot be written fails
\* the command after its import committed.
Report(t) ==
    /\ at[t] = "report"
    /\ Exits(t, 0) \/ \E code \in ReportFailure : Exits(t, code)
    /\ UNCHANGED <<doc, consumed, held, permit, locked, stored, threadVars>>

-----------------------------------------------------------------------------
(* The parser thread.                                                      *)

Closed(t) == at[t] = "done"   \* the reader is dropped when the command returns

Ended(t) == /\ thread' = [thread EXCEPT ![t] = "ended"]   \* the thread's locals are dropped
            /\ second' = [second EXCEPT ![t] = None] /\ sent' = [sent EXCEPT ![t] = 0]

\* parse_records hands a record over when the channel has room.
Produce(t) ==
    /\ thread[t] = "parsing" /\ ~Closed(t)
    /\ sent[t] < Len(second[t].records) /\ Len(channel[t]) < ChannelBound
    /\ channel' = [channel EXCEPT ![t] = Append(@, second[t].records[sent[t] + 1])]
    /\ sent' = [sent EXCEPT ![t] = @ + 1]
    /\ UNCHANGED <<second, thread, taskVars>>

\* The document ends well.
Parsed(t) ==
    /\ thread[t] = "parsing" /\ sent[t] = Len(second[t].records) /\ ~second[t].fault
    /\ Ended(t)
    /\ UNCHANGED <<channel, taskVars>>

\* Or it does not: the error goes through the channel as well.
SendError(t) ==
    /\ thread[t] = "parsing" /\ sent[t] = Len(second[t].records) /\ second[t].fault
    /\ ~Closed(t) /\ Len(channel[t]) < ChannelBound
    /\ channel' = [channel EXCEPT ![t] = Append(@, None)]
    /\ Ended(t)
    /\ UNCHANGED taskVars

\* blocking_send fails once the consumer is gone, for the error too.
ConsumerClosed(t) ==
    /\ thread[t] = "parsing" /\ Closed(t)
    /\ Ended(t)
    /\ UNCHANGED <<channel, taskVars>>

\* The thread panics: its sender is dropped, and nobody is told.
Panics(t) ==
    /\ thread[t] = "parsing" /\ ~Closed(t)
    /\ Ended(t)
    /\ UNCHANGED <<channel, taskVars>>

-----------------------------------------------------------------------------
TaskStep(t) ==
    \/ Capture(t) \/ Preflight(t) \/ Validation(t) \/ Validating(t) \/ Record(t)
    \/ OpenRecords(t) \/ Gate(t) \/ Begin(t) \/ Lock(t) \/ Check(t) \/ Audit(t) \/ Audited(t)
    \/ Consume(t) \/ EndOfStream(t) \/ Commit(t) \/ Rollback(t) \/ MarkFailed(t) \/ Report(t)

ThreadStep(t) == Produce(t) \/ Parsed(t) \/ SendError(t) \/ ConsumerClosed(t)

Finished ==
    /\ \A t \in Task : Closed(t) /\ thread[t] \in {"none", "ended"}
    /\ UNCHANGED vars

Next == (\E t \in Task : TaskStep(t) \/ ThreadStep(t) \/ Panics(t)) \/ Finished

Spec == Init /\ [][Next]_vars

(* Every await ends: the pool, the lock and every statement have timeouts. *)
(* Which way it ends is left open.  A task waiting at the gate is served   *)
(* in turn (a tokio semaphore is fair).                                    *)
Fairness ==
    \A t \in Task : /\ WF_vars(TaskStep(t) /\ at[t] # "idle") /\ SF_vars(Gate(t))
                    /\ WF_vars(ThreadStep(t))

LiveSpec == Spec /\ Fairness

-----------------------------------------------------------------------------
(* Properties.                                                             *)

\* What an import stores is what its preflight validated: the same keys in
\* the same order with as many warnings, although a parser thread that dies
\* looks like the end of the document and the file may read differently. And
\* exit code 0 is given only when the document has been imported.
StoredIsPreflighted ==
    /\ \A s \in stored : Preflighted(s.doc) /\ Summary(s) = Summary(s.doc)
                         /\ \A i \in DOMAIN s.records : ~s.records[i].error
    /\ \A t \in Task : exit[t] = 0 => Imported(doc[t])

\* Imports waiting for their second connection never hold all of the pool:
\* "pool acquisition cannot deadlock at any supported pool size".
NoPoolDeadlock ==
    Cardinality({c \in Connections : at[c[1]] = "audit"}) < PoolSize

\* A command that has ended holds nothing of the store, and an import that
\* failed asks for the connection of its audit without keeping another.
ResourcesReturned ==
    \A t \in Task :
        /\ at[t] \in {"done", "report", "fail"} => held[t] = 0 /\ ~permit[t] /\ ~locked[t]
        /\ at[t] = "failing" => held[t] = 1 /\ ~permit[t]

\* Every command that has captured its input ends, and its parser thread does
\* not outlive it: the full channel, the import gate, the pool and the
\* advisory lock never wait on each other.
CommandEnds ==
    \A t \in Task : /\ at[t] = "preflight" ~> at[t] = "done"
                    /\ thread[t] = "parsing" ~> thread[t] = "ended"

-----------------------------------------------------------------------------
(* The inductive invariant behind the properties.                          *)

\* The awaits of a task with one connection, with a permit and with the lock.
Connected == {"validating", "record", "lock", "check", "audit", "consume", "commit", "rollback",
              "failing"}
Permitted == {"begin", "lock", "check", "audit", "auditing", "consume", "commit", "rollback"}
Locked == {"record", "check", "audit", "auditing", "consume", "commit", "rollback"}

\* What a task holds is told by the await it is in, and the gate lets no more
\* than its permits through.
HoldingsFollow ==
    /\ \A t \in Task :
          /\ held[t] = IF at[t] = "auditing" THEN 2 ELSE IF at[t] \in Connected THEN 1 ELSE 0
          /\ permit[t] <=> at[t] \in Permitted
          /\ locked[t] <=> at[t] \in Locked
    /\ PermitsTaken <= Permits

\* One task at a time has the advisory lock of a document.
LockExclusive ==
    \A t, u \in Task : locked[t] /\ locked[u] /\ doc[t] = doc[u] => t = u

\* The import that is about to commit has consumed what its preflight saw, and
\* nobody else has imported the document since it checked.
Checked(t) ==
    /\ at[t] # "idle" /\ (at[t] = "done" => exit[t] = 0) => doc[t] \in Document
    /\ at[t] \in (Permitted \ {"rollback"}) \union {"open", "gate"} => Preflighted(doc[t])
    /\ at[t] \in {"audit", "auditing", "consume", "commit"} => ~Imported(doc[t])
    /\ \A i \in DOMAIN consumed[t] : ~consumed[t][i].error
    /\ at[t] = "commit" => Consistent(t)
    /\ at[t] = "report" => Imported(doc[t])
    /\ at[t] # "done" => exit[t] # 0
    /\ thread[t] = "parsing" => second[t] \in Document
ImportsAreChecked == \A t \in Task : Checked(t)

\* A document is imported at most once, however many commands are given it,
\* also when the answer to a commit was lost and the import is asked for again.
ImportedOnce == \A s1, s2 \in stored : s1.doc = s2.doc => s1 = s2

ImportInv ==
    /\ TypeOK
    /\ HoldingsFollow
    /\ LockExclusive
    /\ ImportsAreChecked
    /\ ImportedOnce
    /\ StoredIsPreflighted
=============================================================================
