----------------------------- MODULE IngestRuns -----------------------------
(***************************************************************************)
(* Concurrent `aircraft-ingest import` processes and the run audit they    *)
(* share in PostgreSQL: IngestionService::import over                      *)
(* SqlxIngestionStore (start_import, mark_failed,                          *)
(* record_validation_failure) and SqlxIngestionUnitOfWork (stage_and_      *)
(* promote, refresh_read_models, mark_succeeded, commit, rollback).        *)
(*                                                                         *)
(* An Artifact stands for a logical run identity (source slug, content     *)
(* hash, parser name, parser version): one row of ingest_runs, one         *)
(* advisory-lock key.  A Process is one CLI invocation at a time.  The     *)
(* long import transaction lives in the database server, so its state      *)
(* (session) outlives the client: a client that crashed, dropped its unit  *)
(* of work or lost its connection leaves a session the server resolves     *)
(* later.  A commit already sent may still take effect then.               *)
(***************************************************************************)
EXTENDS Naturals

CONSTANTS
    Process,      \* CLI processes
    Artifact,     \* logical run identities
    Records,      \* PreflightReport.record_count of the artifact
    MaxAttempts   \* bound on the attempts of one run that are explored

ASSUME RecordsAssumption == Records \in Nat \ {0}
ASSUME MaxAttemptsAssumption == MaxAttempts \in Nat

VARIABLES
    run,          \* ingest_runs.status per identity ("ABSENT": no row)
    runCode,      \* ingest_runs.failure_code
    attempt,      \* ingest_run_attempts.status per identity and number
    attemptCode,  \* ingest_run_attempts.failure_code
    last,         \* MAX(attempt_number) of the run, 0 without attempts
    rows,         \* committed staged_aircraft rows of the run
    session,      \* server side of the transaction a process opened
    pc,           \* where the process stands
    art,          \* the identity it works on
    att,          \* the attempt number it was given, 0 before that
    staged,       \* records staged in its open transaction
    outcome       \* what its last finished command told the caller

database == <<run, runCode, attempt, attemptCode, last, rows>>
client == <<pc, art, att, staged, outcome>>
vars == <<run, runCode, attempt, attemptCode, last, rows,
          session, pc, art, att, staged, outcome>>

RunStatus == {"ABSENT", "IMPORTING", "SUCCEEDED", "VALIDATION_FAILED", "FAILED"}
FailureCode == {"NULL", "PROCESS_TERMINATED", "IMPORT_ERROR", "VALIDATION_ERROR"}
SessionState == {"none", "open", "marked", "committing", "committed"}
ProgramPoint == {"idle", "checking", "starting", "consuming", "committing",
                 "awaiting", "rollingback", "auditing", "validating"}
Outcome == {"none", "succeeded", "already", "busy", "failed"}
Number == 1 .. MaxAttempts

(* The advisory lock pg_(try_)advisory_xact_lock is held to the end of the *)
(* transaction that took it; the rows mark_succeeded updates stay locked   *)
(* to the end of that transaction too.                                     *)
Holding == {"open", "marked", "committing"}
RowLocking == {"marked", "committing"}
LockHeld(a) == \E q \in Process : session[q] \in Holding /\ art[q] = a
RunRowLocked(a) == \E q \in Process : session[q] \in RowLocking /\ art[q] = a

TypeOK ==
    /\ run \in [Artifact -> RunStatus]
    /\ runCode \in [Artifact -> FailureCode]
    /\ attempt \in [Artifact -> [Number -> RunStatus]]
    /\ attemptCode \in [Artifact -> [Number -> FailureCode]]
    /\ last \in [Artifact -> 0 .. MaxAttempts]
    /\ rows \in [Artifact -> Nat]
    /\ session \in [Process -> SessionState]
    /\ pc \in [Process -> ProgramPoint]
    /\ art \in [Process -> Artifact]
    /\ att \in [Process -> 0 .. MaxAttempts]
    /\ staged \in [Process -> 0 .. Records + 1]
    /\ outcome \in [Process -> Outcome]

(* A fresh database and no process working; the identity each process      *)
(* will work on first is irrelevant until it starts a command.             *)
Init ==
    /\ run = [a \in Artifact |-> "ABSENT"]
    /\ runCode = [a \in Artifact |-> "NULL"]
    /\ attempt = [a \in Artifact |-> [n \in Number |-> "ABSENT"]]
    /\ attemptCode = [a \in Artifact |-> [n \in Number |-> "NULL"]]
    /\ last = [a \in Artifact |-> 0]
    /\ rows = [a \in Artifact |-> 0]
    /\ session = [p \in Process |-> "none"]
    /\ pc = [p \in Process |-> "idle"]
    /\ art \in [Process -> Artifact]
    /\ att = [p \in Process |-> 0]
    /\ staged = [p \in Process |-> 0]
    /\ outcome = [p \in Process |-> "none"]

-----------------------------------------------------------------------------
(***************************************************************************)
(* Starting: start_import.                                                 *)
(***************************************************************************)

(* A new command of an idle process; its predecessor's session is over.    *)
Available(p) == pc[p] = "idle" /\ session[p] = "none"

(* The command turns to identity a with nothing staged and no result yet.  *)
TurnTo(p, a) ==
    /\ art' = [art EXCEPT ![p] = a]
    /\ att' = [att EXCEPT ![p] = 0]
    /\ staged' = [staged EXCEPT ![p] = 0]

(* pg_try_advisory_xact_lock refuses: rolled back, ImportStart::Busy.      *)
StartBusy(p, a) ==
    /\ Available(p)
    /\ LockHeld(a)
    /\ TurnTo(p, a)
    /\ outcome' = [outcome EXCEPT ![p] = "busy"]
    /\ UNCHANGED <<database, session, pc>>

(* Fault: the lock is not taken.                                           *)
StartUnlocked(p, a) ==
    /\ Available(p)
    /\ TurnTo(p, a)
    /\ session' = [session EXCEPT ![p] = "open"]
    /\ pc' = [pc EXCEPT ![p] = "checking"]
    /\ outcome' = [outcome EXCEPT ![p] = "none"]
    /\ UNCHANGED database

(* The lock is taken; the transaction stays open.                          *)
StartLocked(p, a) ==
    /\ Available(p)
    /\ ~LockHeld(a)
    /\ TurnTo(p, a)
    /\ session' = [session EXCEPT ![p] = "open"]
    /\ pc' = [pc EXCEPT ![p] = "checking"]
    /\ outcome' = [outcome EXCEPT ![p] = "none"]
    /\ UNCHANGED database

(* successful_report: a SUCCEEDED run joined with its SUCCEEDED attempt.   *)
(* A SUCCEEDED run without one is reported as a broken invariant.          *)
SuccessfulAttempt(a) == \E n \in Number : attempt[a][n] = "SUCCEEDED"

CheckSucceeded(p) ==
    /\ pc[p] = "checking"
    /\ session[p] = "open"
    /\ run[art[p]] = "SUCCEEDED"
    /\ session' = [session EXCEPT ![p] = "none"]
    /\ pc' = [pc EXCEPT ![p] = "idle"]
    /\ outcome' = [outcome EXCEPT ![p] =
                     IF SuccessfulAttempt(art[p]) THEN "already" ELSE "failed"]
    /\ UNCHANGED <<database, art, att, staged>>

CheckNotSucceeded(p) ==
    /\ pc[p] = "checking"
    /\ session[p] = "open"
    /\ run[art[p]] # "SUCCEEDED"
    /\ pc' = [pc EXCEPT ![p] = "starting"]
    /\ UNCHANGED <<database, session, art, att, staged, outcome>>

(* Faults: attempts left open are not closed; or every attempt is.         *)
AuditAttemptOnly(a) ==
    /\ last[a] < MaxAttempts
    /\ ~RunRowLocked(a)
    /\ run' = [run EXCEPT ![a] = "IMPORTING"]
    /\ runCode' = [runCode EXCEPT ![a] = "NULL"]
    /\ last' = [last EXCEPT ![a] = @ + 1]
    /\ attempt' = [attempt EXCEPT ![a][last[a] + 1] = "IMPORTING"]
    /\ UNCHANGED <<attemptCode, rows>>
AuditAttemptClosingAll(a) ==
    /\ last[a] < MaxAttempts
    /\ ~RunRowLocked(a)
    /\ run' = [run EXCEPT ![a] = "IMPORTING"]
    /\ runCode' = [runCode EXCEPT ![a] = "NULL"]
    /\ last' = [last EXCEPT ![a] = @ + 1]
    /\ attempt' = [attempt EXCEPT ![a] =
         [n \in Number |-> IF n = last[a] + 1 THEN "IMPORTING"
                           ELSE IF n <= last[a] THEN "FAILED" ELSE @[n]]]
    /\ UNCHANGED <<attemptCode, rows>>

(* The audit transaction on a second connection: upsert the run, close     *)
(* attempts left IMPORTING, insert the next attempt.  It holds the run row *)
(* from its first statement, so it is one step.                            *)
AuditAttempt(a) ==
    /\ last[a] < MaxAttempts
    /\ ~RunRowLocked(a)
    /\ run' = [run EXCEPT ![a] = "IMPORTING"]
    /\ runCode' = [runCode EXCEPT ![a] = "NULL"]
    /\ last' = [last EXCEPT ![a] = @ + 1]
    /\ attempt' = [attempt EXCEPT ![a] =
         [n \in Number |-> IF n = last[a] + 1 THEN "IMPORTING"
                           ELSE IF @[n] = "IMPORTING" THEN "FAILED" ELSE @[n]]]
    /\ attemptCode' = [attemptCode EXCEPT ![a] =
         [n \in Number |-> IF attempt[a][n] = "IMPORTING"
                           THEN "PROCESS_TERMINATED" ELSE @[n]]]
    /\ UNCHANGED rows

StartAudited(p) ==
    /\ pc[p] = "starting"
    /\ AuditAttempt(art[p])
    /\ att' = [att EXCEPT ![p] = last[art[p]] + 1]
    /\ pc' = [pc EXCEPT ![p] = "consuming"]
    /\ UNCHANGED <<session, art, staged, outcome>>

(* An error anywhere in start_import drops the transaction and returns     *)
(* Err before any attempt is known to the service, so nothing is audited.  *)
StartFails(p) ==
    /\ pc[p] \in {"checking", "starting"}
    /\ pc' = [pc EXCEPT ![p] = "idle"]
    /\ outcome' = [outcome EXCEPT ![p] = "failed"]
    /\ UNCHANGED <<database, session, art, att, staged>>

(* ... also when the audit commit took effect and only its answer was lost.*)
StartAuditUnknown(p) ==
    /\ pc[p] = "starting"
    /\ AuditAttempt(art[p])
    /\ pc' = [pc EXCEPT ![p] = "idle"]
    /\ outcome' = [outcome EXCEPT ![p] = "failed"]
    /\ UNCHANGED <<session, art, att, staged>>

-----------------------------------------------------------------------------
(***************************************************************************)
(* Importing: consume_records, mark_succeeded, commit.                     *)
(***************************************************************************)

(* One record staged and promoted.  The reader reparses the artifact, so   *)
(* it can disagree with preflight in either direction.  staged_aircraft is *)
(* unique per run and source record key, so nothing can be staged over the *)
(* rows of an import that committed before.                                *)
StageAndPromote(p) ==
    /\ pc[p] = "consuming"
    /\ session[p] = "open"
    /\ rows[art[p]] = 0
    /\ staged[p] <= Records
    /\ staged' = [staged EXCEPT ![p] = @ + 1]
    /\ UNCHANGED <<database, session, pc, art, att, outcome>>

(* Fault: the count is not compared with preflight.                        *)
MarkSucceededUncounted(p) ==
    /\ pc[p] = "consuming"
    /\ session[p] = "open"
    /\ session' = [session EXCEPT ![p] = "marked"]
    /\ pc' = [pc EXCEPT ![p] = "committing"]
    /\ UNCHANGED <<database, art, att, staged, outcome>>

(* The stream ended, agrees with preflight, the read models were rebuilt   *)
(* and both SUCCEEDED updates ran, all inside the open transaction.        *)
MarkSucceeded(p) ==
    /\ pc[p] = "consuming"
    /\ session[p] = "open"
    /\ staged[p] = Records
    /\ session' = [session EXCEPT ![p] = "marked"]
    /\ pc' = [pc EXCEPT ![p] = "committing"]
    /\ UNCHANGED <<database, art, att, staged, outcome>>

(* Fault: a failed import starts over inside its transaction.              *)
ConsumeRetries(p) ==
    /\ pc[p] = "consuming"
    /\ staged' = [staged EXCEPT ![p] = 0]
    /\ UNCHANGED <<database, session, pc, art, att, outcome>>

(* Any error on the way: reader, staging, a disagreement with preflight,   *)
(* the refresh, mark_succeeded.                                            *)
ConsumeFails(p) ==
    /\ pc[p] = "consuming"
    /\ pc' = [pc EXCEPT ![p] = "rollingback"]
    /\ UNCHANGED <<database, session, art, att, staged, outcome>>

SendCommit(p) ==
    /\ pc[p] = "committing"
    /\ session[p] = "marked"
    /\ session' = [session EXCEPT ![p] = "committing"]
    /\ pc' = [pc EXCEPT ![p] = "awaiting"]
    /\ UNCHANGED <<database, art, att, staged, outcome>>

(* The server makes the transaction durable: the staged rows, and the      *)
(* status updates of mark_succeeded, which leave the failure code alone.   *)
(* It tells the client only if the client still listens.                   *)
ServerCommit(p) ==
    /\ session[p] = "committing"
    /\ run' = [run EXCEPT ![art[p]] = "SUCCEEDED"]
    /\ attempt' = [attempt EXCEPT ![art[p]][att[p]] = "SUCCEEDED"]
    /\ rows' = [rows EXCEPT ![art[p]] = @ + staged[p]]
    /\ session' = [session EXCEPT ![p] =
                     IF pc[p] = "awaiting" THEN "committed" ELSE "none"]
    /\ UNCHANGED <<runCode, attemptCode, last, client>>

CommitSucceeds(p) ==
    /\ pc[p] = "awaiting"
    /\ session[p] = "committed"
    /\ session' = [session EXCEPT ![p] = "none"]
    /\ pc' = [pc EXCEPT ![p] = "idle"]
    /\ outcome' = [outcome EXCEPT ![p] = "succeeded"]
    /\ UNCHANGED <<database, art, att, staged>>

(* Fault: a commit that was sent is taken for done.                        *)
CommitAssumed(p) ==
    /\ pc[p] = "awaiting"
    /\ session' = [session EXCEPT ![p] = IF @ = "committed" THEN "none" ELSE @]
    /\ pc' = [pc EXCEPT ![p] = "idle"]
    /\ outcome' = [outcome EXCEPT ![p] = "succeeded"]
    /\ UNCHANGED <<database, art, att, staged>>

(* commit() returned an error, which says nothing about the transaction:   *)
(* it may have committed, may have aborted, or may still be decided.       *)
CommitFails(p) ==
    /\ \/ pc[p] = "awaiting"
       \/ pc[p] = "committing" /\ session[p] = "none"
    /\ session' = [session EXCEPT ![p] = IF @ = "committed" THEN "none" ELSE @]
    /\ pc' = [pc EXCEPT ![p] = "auditing"]
    /\ UNCHANGED <<database, art, att, staged, outcome>>

-----------------------------------------------------------------------------
(***************************************************************************)
(* Failing: rollback_and_audit, audit_failure, mark_failed.                *)
(***************************************************************************)

(* rollback() ends the transaction, or fails and is only logged.           *)
Rollback(p) ==
    /\ pc[p] = "rollingback"
    /\ session' \in {session, [session EXCEPT ![p] = "none"]}
    /\ pc' = [pc EXCEPT ![p] = "auditing"]
    /\ UNCHANGED <<database, art, att, staged, outcome>>

(* Fault: the run is failed whatever its status.                           *)
MarkFailedRowsAlways(p) ==
    LET a == art[p]
    IN  /\ run' = [run EXCEPT ![a] = "FAILED"]
        /\ runCode' = [runCode EXCEPT ![a] = "IMPORT_ERROR"]
        /\ attempt' = [attempt EXCEPT ![a][att[p]] =
                     IF @ # "SUCCEEDED" THEN "FAILED" ELSE @]
        /\ UNCHANGED <<attemptCode, last, rows>>

(* Both updates of mark_failed, in a transaction of their own.  They wait  *)
(* for a transaction that marked the run and are re-evaluated after it.    *)
MarkFailedRows(p) ==
    LET a == art[p]
    IN  /\ run' = [run EXCEPT ![a] =
                     IF @ # "SUCCEEDED" THEN "FAILED" ELSE @]
        /\ runCode' = [runCode EXCEPT ![a] =
                     IF run[a] # "SUCCEEDED" THEN "IMPORT_ERROR" ELSE @]
        /\ attempt' = [attempt EXCEPT ![a][att[p]] =
                     IF @ # "SUCCEEDED" THEN "FAILED" ELSE @]
        /\ attemptCode' = [attemptCode EXCEPT ![a][att[p]] =
                     IF attempt[a][att[p]] # "SUCCEEDED" THEN "IMPORT_ERROR" ELSE @]
        /\ UNCHANGED <<last, rows>>

MarkFailed(p) ==
    /\ pc[p] = "auditing"
    /\ ~RunRowLocked(art[p])
    /\ MarkFailedRows(p)
    /\ pc' = [pc EXCEPT ![p] = "idle"]
    /\ outcome' = [outcome EXCEPT ![p] = "failed"]
    /\ UNCHANGED <<session, art, att, staged>>

(* The audit itself fails (lock_timeout, connection): only logged.         *)
AuditFails(p) ==
    /\ pc[p] = "auditing"
    /\ pc' = [pc EXCEPT ![p] = "idle"]
    /\ outcome' = [outcome EXCEPT ![p] = "failed"]
    /\ UNCHANGED <<database, session, art, att, staged>>

-----------------------------------------------------------------------------
(***************************************************************************)
(* Preflight failures: record_validation_failure.                          *)
(***************************************************************************)

(* The blocking pg_advisory_xact_lock was granted.                         *)
ValidationLocked(p, a) ==
    /\ Available(p)
    /\ ~LockHeld(a)
    /\ TurnTo(p, a)
    /\ session' = [session EXCEPT ![p] = "open"]
    /\ pc' = [pc EXCEPT ![p] = "validating"]
    /\ outcome' = [outcome EXCEPT ![p] = "none"]
    /\ UNCHANGED database

(* Fault: the upsert overwrites a SUCCEEDED run.                           *)
ValidationOverwrites(p) ==
    LET a == art[p]
    IN  /\ pc[p] = "validating"
        /\ session[p] = "open"
        /\ last[a] < MaxAttempts
        /\ run' = [run EXCEPT ![a] = "VALIDATION_FAILED"]
        /\ runCode' = [runCode EXCEPT ![a] = "VALIDATION_ERROR"]
        /\ last' = [last EXCEPT ![a] = @ + 1]
        /\ attempt' = [attempt EXCEPT ![a][last[a] + 1] = "VALIDATION_FAILED"]
        /\ attemptCode' = [attemptCode EXCEPT ![a][last[a] + 1] = "VALIDATION_ERROR"]
        /\ session' = [session EXCEPT ![p] = "none"]
        /\ pc' = [pc EXCEPT ![p] = "idle"]
        /\ outcome' = [outcome EXCEPT ![p] = "failed"]
        /\ UNCHANGED <<rows, art, att, staged>>

(* Upsert that keeps a SUCCEEDED run as it is, then the next attempt; the  *)
(* attempts left IMPORTING by an earlier crash are not touched.  The       *)
(* command fails either way.                                               *)
ValidationRecorded(p) ==
    LET a == art[p]
    IN  /\ pc[p] = "validating"
        /\ session[p] = "open"
        /\ last[a] < MaxAttempts
        /\ run' = [run EXCEPT ![a] =
                     IF @ = "SUCCEEDED" THEN @ ELSE "VALIDATION_FAILED"]
        /\ runCode' = [runCode EXCEPT ![a] =
                     IF run[a] = "SUCCEEDED" THEN @ ELSE "VALIDATION_ERROR"]
        /\ last' = [last EXCEPT ![a] = @ + 1]
        /\ attempt' = [attempt EXCEPT ![a][last[a] + 1] = "VALIDATION_FAILED"]
        /\ attemptCode' = [attemptCode EXCEPT ![a][last[a] + 1] = "VALIDATION_ERROR"]
        /\ session' = [session EXCEPT ![p] = "none"]
        /\ pc' = [pc EXCEPT ![p] = "idle"]
        /\ outcome' = [outcome EXCEPT ![p] = "failed"]
        /\ UNCHANGED <<rows, art, att, staged>>

(* The audit of the validation failure fails; only printed.                *)
ValidationFails(p) ==
    /\ pc[p] = "validating"
    /\ pc' = [pc EXCEPT ![p] = "idle"]
    /\ outcome' = [outcome EXCEPT ![p] = "failed"]
    /\ UNCHANGED <<database, session, art, att, staged>>

-----------------------------------------------------------------------------
(***************************************************************************)
(* The environment: PostgreSQL and the operating system.                   *)
(***************************************************************************)

(* The server aborts a transaction: its client is gone, its connection     *)
(* broke, a timeout fired, the server restarted.                           *)
ServerAbort(p) ==
    /\ session[p] \in Holding
    /\ session' = [session EXCEPT ![p] = "none"]
    /\ UNCHANGED <<database, client>>

(* The process dies without finalizing; its session stays until resolved.  *)
Crash(p) ==
    /\ pc[p] # "idle"
    /\ pc' = [pc EXCEPT ![p] = "idle"]
    /\ session' = [session EXCEPT ![p] = IF @ = "committed" THEN "none" ELSE @]
    /\ outcome' = [outcome EXCEPT ![p] = "none"]
    /\ UNCHANGED <<database, art, att, staged>>

(* A process that carries on: the steps the code takes by itself.          *)
Proceed(p) ==
    \/ CheckSucceeded(p) \/ CheckNotSucceeded(p)
    \/ StartAudited(p) \/ StartFails(p) \/ StartAuditUnknown(p)
    \/ StageAndPromote(p) \/ MarkSucceeded(p) \/ ConsumeFails(p)
    \/ SendCommit(p) \/ CommitSucceeds(p) \/ CommitFails(p)
    \/ Rollback(p) \/ MarkFailed(p) \/ AuditFails(p)
    \/ ValidationRecorded(p) \/ ValidationFails(p)

(* The server resolves the transactions it holds.                          *)
Resolve(p) == ServerCommit(p) \/ ServerAbort(p)

Next ==
    \E p \in Process :
        \/ \E a \in Artifact :
              StartBusy(p, a) \/ StartLocked(p, a) \/ ValidationLocked(p, a)
        \/ Proceed(p)
        \/ Resolve(p)
        \/ Crash(p)

Spec == Init /\ [][Next]_vars

(* The advisory lock lives on the import connection, the audit transaction *)
(* on another one, and start_import does not look at the first again.      *)
(* KeepsLock says that the import connection does not break in that        *)
(* window; everything stated of SteadySpec depends on it.                  *)
KeepsLock ==
    \A p \in Process :
        pc[p] = "starting" /\ pc'[p] = "starting" => session'[p] = session[p]

SteadySpec == Init /\ [][Next /\ KeepsLock]_vars

(* Fairness for the liveness run.  A process that has not crashed keeps    *)
(* executing and every call it makes returns, because the pool sets        *)
(* lock_timeout and statement_timeout on each session and the record       *)
(* stream is finite.  A transaction whose client is gone or waits for the  *)
(* answer to a commit is resolved by the server.  Nothing forces a command *)
(* to be issued or to be retried.                                          *)
Fairness ==
    \A p \in Process :
        /\ WF_vars(Proceed(p))
        /\ WF_vars(pc[p] \in {"idle", "auditing", "awaiting"} /\ Resolve(p))
LiveSpec == Spec /\ Fairness
LiveSteadySpec == SteadySpec /\ Fairness

-----------------------------------------------------------------------------
(***************************************************************************)
(* Properties of Spec: whatever session breaks, whenever it breaks.        *)
(***************************************************************************)

(* All-or-nothing and exactly-once: the committed rows of an identity are  *)
(* none or exactly the preflighted records, and a SUCCEEDED run has them,  *)
(* whatever crashed, was retried or lost the answer to its commit.         *)
AllOrNothing ==
    \A a \in Artifact :
        /\ rows[a] \in {0, Records}
        /\ run[a] = "SUCCEEDED" => rows[a] = Records

(* A retry closes the attempt an interrupted import left open: a run never *)
(* has two attempts IMPORTING.                                             *)
OneOpenAttempt ==
    \A a \in Artifact : \A m, n \in Number :
        attempt[a][m] = "IMPORTING" /\ attempt[a][n] = "IMPORTING" => m = n

(* A caller told of a success, of its own import or of an earlier one, was *)
(* told of rows that are in the database.                                  *)
ReportIsDurable ==
    \A p \in Process :
        outcome[p] \in {"succeeded", "already"} => rows[art[p]] = Records

(* The refinement: the rows are what is stored, and a process that ended   *)
(* with a success told its caller.                                         *)
Told == [p \in Process |->
           IF outcome[p] \in {"succeeded", "already"} THEN {art[p]} ELSE {}]

Ledger == INSTANCE ImportLedger WITH Caller <- Process, stored <- rows, told <- Told

(* The concurrent, crashing, retrying import implements the ledger: each   *)
(* artifact is stored whole in one step and once, and acknowledged only    *)
(* then.                                                                   *)
ImplementsLedger == Ledger!Spec

(* Every import lets go of its identity: a lock that is held is released,  *)
(* so an identity that was busy can be retried.                            *)
LockIsReleased == \A a \in Artifact : LockHeld(a) ~> ~LockHeld(a)

-----------------------------------------------------------------------------
(***************************************************************************)
(* Properties of SteadySpec: what the audit promises while the lock taken  *)
(* by start_import is held until its audit transaction has committed.      *)
(***************************************************************************)

(* A run is SUCCEEDED exactly when one of its attempts is, and no two are: *)
(* the branch of successful_report that reports a run without a            *)
(* successful attempt is unreachable, and the attempt it returns is unique.*)
OneSuccessfulAttempt ==
    \A a \in Artifact :
        /\ run[a] = "SUCCEEDED" <=> SuccessfulAttempt(a)
        /\ \A m, n \in Number :
              attempt[a][m] = "SUCCEEDED" /\ attempt[a][n] = "SUCCEEDED" => m = n

(* A transaction that can still commit owns the newest attempt of its run, *)
(* and nobody has closed it: the unconditional updates of mark_succeeded   *)
(* never overwrite an attempt that was finished by somebody else.          *)
CommitterOwnsAttempt ==
    \A p \in Process :
        session[p] \in RowLocking =>
            /\ att[p] = last[art[p]]
            /\ attempt[art[p]][att[p]] = "IMPORTING"
            /\ run[art[p]] # "SUCCEEDED"

(* The history explains itself: an attempt carries a failure code exactly  *)
(* when it failed, also one superseded by a retry and then reported by its *)
(* own process, or one whose commit took effect after an error.            *)
FailuresAreExplained ==
    \A a \in Artifact : \A n \in Number :
        attempt[a][n] \in {"FAILED", "VALIDATION_FAILED"} <=> attemptCode[a][n] # "NULL"

(* Success is final: no later audit, validation failure or late failure    *)
(* report of another process takes a SUCCEEDED run back, so a re-import of *)
(* the same artifact is a replay.                                          *)
SuccessIsFinal ==
    [][\A a \in Artifact : run[a] = "SUCCEEDED" => run'[a] = "SUCCEEDED"]_vars

(* The attempt history is never rewritten: an attempt that is finished     *)
(* keeps the status it finished with, however late its process reports.    *)
HistoryIsFinal ==
    [][\A a \in Artifact : \A n \in Number :
         attempt[a][n] \notin {"ABSENT", "IMPORTING"}
            => attempt'[a][n] = attempt[a][n]]_vars

-----------------------------------------------------------------------------
(***************************************************************************)
(* The inductive invariants behind the properties.                         *)
(***************************************************************************)

(* One transaction at a time holds the lock of an identity.                *)
LockExclusive ==
    \A p, q \in Process :
        session[p] \in Holding /\ session[q] \in Holding /\ art[p] = art[q] => p = q

(* What a session that can still commit is about to make durable.          *)
SessionRows ==
    \A p \in Process :
        /\ session[p] \in Holding /\ staged[p] # 0 => rows[art[p]] = 0
        /\ session[p] \in RowLocking => staged[p] = Records /\ att[p] # 0
        /\ session[p] = "committed" => pc[p] = "awaiting" /\ rows[art[p]] = Records

(* A process past start_import knows its attempt, which the run has.       *)
AttemptKnown ==
    \A p \in Process :
        /\ pc[p] \in {"consuming", "committing", "awaiting", "rollingback", "auditing"}
              => att[p] # 0
        /\ att[p] <= last[art[p]]

(* Attempts are numbered without gaps up to last.                          *)
Unused == \A a \in Artifact : \A n \in Number : n > last[a] => attempt[a][n] = "ABSENT"

FaultInv ==
    /\ TypeOK
    /\ LockExclusive
    /\ SessionRows
    /\ AttemptKnown
    /\ Unused
    /\ AllOrNothing
    /\ OneOpenAttempt
    /\ ReportIsDurable

(* An attempt number belongs to one process, which the audit gave it.      *)
AttemptOwned ==
    /\ \A p \in Process :
          att[p] # 0 =>
              attempt[art[p]][att[p]] \in {"IMPORTING", "FAILED", "SUCCEEDED"}
    /\ \A p, q \in Process :
          att[p] # 0 /\ att[p] = att[q] /\ art[p] = art[q] => p = q

(* While start_import runs between its check and its audit, the lock it    *)
(* still holds keeps the answer of the check true.                         *)
CheckStillHolds ==
    \A p \in Process :
        pc[p] = "starting" => session[p] = "open" /\ run[art[p]] # "SUCCEEDED"

(* An import whose session is alive owns the newest attempt, still open.   *)
ImporterOwnsAttempt ==
    \A p \in Process :
        pc[p] = "consuming" /\ session[p] = "open" =>
            /\ att[p] = last[art[p]]
            /\ attempt[art[p]][att[p]] = "IMPORTING"
            /\ run[art[p]] # "SUCCEEDED"

SteadyInv ==
    /\ FaultInv
    /\ AttemptOwned
    /\ CheckStillHolds
    /\ ImporterOwnsAttempt
    /\ CommitterOwnsAttempt
    /\ OneSuccessfulAttempt

=============================================================================
