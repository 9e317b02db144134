-------------------------- MODULE IngestRuns_proofs --------------------------
(***************************************************************************)
(* Proofs about IngestRuns, for every number of processes, artifacts,      *)
(* records and attempts.                                                   *)
(*                                                                         *)
(* FaultInv is inductive for Spec, where any session may break at any      *)
(* moment.  SteadyInv strengthens it for SteadySpec, where the session     *)
(* that holds the advisory lock survives start_import.                     *)
(***************************************************************************)
EXTENDS IngestRuns, TLAPS

USE RecordsAssumption, MaxAttemptsAssumption
    DEF Holding, RowLocking, Number, RunStatus, FailureCode, SessionState,
        ProgramPoint, Outcome

-----------------------------------------------------------------------------
(* A fresh database with idle processes satisfies the invariant.           *)
LEMMA FaultInit == Init => FaultInv
  BY DEF Init, FaultInv, TypeOK, LockExclusive, SessionRows, AttemptKnown,
         Unused, AllOrNothing, OneOpenAttempt, ReportIsDurable

(* Every step of every process, of the server and every crash keeps it.    *)
LEMMA FaultNext == FaultInv /\ [Next]_vars => FaultInv'
<1> SUFFICES ASSUME FaultInv, [Next]_vars PROVE FaultInv'
  OBVIOUS
<1> USE DEF FaultInv, TypeOK, LockExclusive, SessionRows, AttemptKnown, Unused,
            AllOrNothing, OneOpenAttempt, ReportIsDurable, database, client
<1>1. ASSUME NEW p \in Process, NEW a \in Artifact, StartBusy(p, a) PROVE FaultInv'
  <2>1. TypeOK'
    BY <1>1 DEF StartBusy, Available, TurnTo
  <2>2. LockExclusive'
    <3>1. /\ session' = session
          /\ session[p] = "none"
          /\ \A q \in Process : q # p => art'[q] = art[q]
      BY <1>1 DEF StartBusy, Available, TurnTo
    <3>2. LockExclusive
      OBVIOUS
    <3> HIDE DEF FaultInv
    <3> QED
      BY <3>1, <3>2 DEF LockExclusive, Holding
  <2>3. SessionRows'
    BY <1>1 DEF StartBusy, Available, TurnTo
  <2>4. AttemptKnown'
    BY <1>1 DEF StartBusy, Available, TurnTo
  <2>5. Unused'
    BY <1>1 DEF StartBusy, Available, TurnTo
  <2>6. AllOrNothing'
    BY <1>1 DEF StartBusy, Available, TurnTo
  <2>7. OneOpenAttempt'
    BY <1>1 DEF StartBusy, Available, TurnTo
  <2>8. ReportIsDurable'
    BY <1>1 DEF StartBusy, Available, TurnTo
  <2> QED
    BY <2>1, <2>2, <2>3, <2>4, <2>5, <2>6, <2>7, <2>8
<1>2. ASSUME NEW p \in Process, NEW a \in Artifact, StartLocked(p, a) PROVE FaultInv'
  <2>1. TypeOK'
    BY <1>2 DEF StartLocked, Available, TurnTo, LockHeld
  <2>2. LockExclusive'
    BY <1>2 DEF StartLocked, Available, TurnTo, LockHeld
  <2>3. SessionRows'
    BY <1>2 DEF StartLocked, Available, TurnTo, LockHeld
  <2>4. AttemptKnown'
    BY <1>2 DEF StartLocked, Available, TurnTo, LockHeld
  <2>5. Unused'
    BY <1>2 DEF StartLocked, Available, TurnTo, LockHeld
  <2>6. AllOrNothing'
    BY <1>2 DEF StartLocked, Available, TurnTo, LockHeld
  <2>7. OneOpenAttempt'
    BY <1>2 DEF StartLocked, Available, TurnTo, LockHeld
  <2>8. ReportIsDurable'
    BY <1>2 DEF StartLocked, Available, TurnTo, LockHeld
  <2> QED
    BY <2>1, <2>2, <2>3, <2>4, <2>5, <2>6, <2>7, <2>8
<1>3. ASSUME NEW p \in Process, NEW a \in Artifact, ValidationLocked(p, a) PROVE FaultInv'
  <2>1. TypeOK'
    BY <1>3 DEF ValidationLocked, Available, TurnTo, LockHeld
  <2>2. LockExclusive'
    BY <1>3 DEF ValidationLocked, Available, TurnTo, LockHeld
  <2>3. SessionRows'
    BY <1>3 DEF ValidationLocked, Available, TurnTo, LockHeld
  <2>4. AttemptKnown'
    BY <1>3 DEF ValidationLocked, Available, TurnTo, LockHeld
  <2>5. Unused'
    BY <1>3 DEF ValidationLocked, Available, TurnTo, LockHeld
  <2>6. AllOrNothing'
    BY <1>3 DEF ValidationLocked, Available, TurnTo, LockHeld
  <2>7. OneOpenAttempt'
    BY <1>3 DEF ValidationLocked, Available, TurnTo, LockHeld
  <2>8. ReportIsDurable'
    BY <1>3 DEF ValidationLocked, Available, TurnTo, LockHeld
  <2> QED
    BY <2>1, <2>2, <2>3, <2>4, <2>5, <2>6, <2>7, <2>8
<1>4. ASSUME NEW p \in Process, CheckSucceeded(p) PROVE FaultInv'
  BY <1>4 DEF CheckSucceeded
<1>5. ASSUME NEW p \in Process, CheckNotSucceeded(p) PROVE FaultInv'
  BY <1>5 DEF CheckNotSucceeded
<1>6. ASSUME NEW p \in Process, StartAudited(p) PROVE FaultInv'
  <2>1. TypeOK'
    BY <1>6 DEF StartAudited, AuditAttempt
  <2>2. LockExclusive'
    BY <1>6 DEF StartAudited, AuditAttempt
  <2>3. SessionRows'
    BY <1>6 DEF StartAudited, AuditAttempt
  <2>4. AttemptKnown'
    BY <1>6 DEF StartAudited, AuditAttempt
  <2>5. Unused'
    BY <1>6 DEF StartAudited, AuditAttempt
  <2>6. AllOrNothing'
    BY <1>6 DEF StartAudited, AuditAttempt
  <2>7. OneOpenAttempt'
    BY <1>6 DEF StartAudited, AuditAttempt
  <2>8. ReportIsDurable'
    BY <1>6 DEF StartAudited, AuditAttempt
  <2> QED
    BY <2>1, <2>2, <2>3, <2>4, <2>5, <2>6, <2>7, <2>8
<1>7. ASSUME NEW p \in Process, StartFails(p) PROVE FaultInv'
  BY <1>7 DEF StartFails
<1>8. ASSUME NEW p \in Process, StartAuditUnknown(p) PROVE FaultInv'
  <2>1. TypeOK'
    BY <1>8 DEF StartAuditUnknown, AuditAttempt
  <2>2. LockExclusive'
    BY <1>8 DEF StartAuditUnknown, AuditAttempt
  <2>3. SessionRows'
    BY <1>8 DEF StartAuditUnknown, AuditAttempt
  <2>4. AttemptKnown'
    BY <1>8 DEF StartAuditUnknown, AuditAttempt
  <2>5. Unused'
    BY <1>8 DEF StartAuditUnknown, AuditAttempt
  <2>6. AllOrNothing'
    BY <1>8 DEF StartAuditUnknown, AuditAttempt
  <2>7. OneOpenAttempt'
    BY <1>8 DEF StartAuditUnknown, AuditAttempt
  <2>8. ReportIsDurable'
    BY <1>8 DEF StartAuditUnknown, AuditAttempt
  <2> QED
    BY <2>1, <2>2, <2>3, <2>4, <2>5, <2>6, <2>7, <2>8
<1>9. ASSUME NEW p \in Process, StageAndPromote(p) PROVE FaultInv'
  BY <1>9 DEF StageAndPromote
<1>10. ASSUME NEW p \in Process, MarkSucceeded(p) PROVE FaultInv'
  BY <1>10 DEF MarkSucceeded
<1>11. ASSUME NEW p \in Process, ConsumeFails(p) PROVE FaultInv'
  BY <1>11 DEF ConsumeFails
<1>12. ASSUME NEW p \in Process, SendCommit(p) PROVE FaultInv'
  BY <1>12 DEF SendCommit
<1>13. ASSUME NEW p \in Process, CommitSucceeds(p) PROVE FaultInv'
  BY <1>13 DEF CommitSucceeds
<1>14. ASSUME NEW p \in Process, CommitFails(p) PROVE FaultInv'
  BY <1>14 DEF CommitFails
<1>15. ASSUME NEW p \in Process, Rollback(p) PROVE FaultInv'
  <2>1. TypeOK'
    BY <1>15 DEF Rollback
  <2>2. LockExclusive'
    BY <1>15 DEF Rollback
  <2>3. SessionRows'
    BY <1>15 DEF Rollback
  <2>4. AttemptKnown'
    BY <1>15 DEF Rollback
  <2>5. Unused'
    BY <1>15 DEF Rollback
  <2>6. AllOrNothing'
    BY <1>15 DEF Rollback
  <2>7. OneOpenAttempt'
    BY <1>15 DEF Rollback
  <2>8. ReportIsDurable'
    BY <1>15 DEF Rollback
  <2> QED
    BY <2>1, <2>2, <2>3, <2>4, <2>5, <2>6, <2>7, <2>8
<1>16. ASSUME NEW p \in Process, MarkFailed(p) PROVE FaultInv'
  BY <1>16 DEF MarkFailed, MarkFailedRows, RunRowLocked
<1>17. ASSUME NEW p \in Process, AuditFails(p) PROVE FaultInv'
  BY <1>17 DEF AuditFails
<1>18. ASSUME NEW p \in Process, ValidationRecorded(p) PROVE FaultInv'
  BY <1>18 DEF ValidationRecorded
<1>19. ASSUME NEW p \in Process, ValidationFails(p) PROVE FaultInv'
  BY <1>19 DEF ValidationFails
<1>20. ASSUME NEW p \in Process, ServerCommit(p) PROVE FaultInv'
  BY <1>20 DEF ServerCommit
<1>21. ASSUME NEW p \in Process, ServerAbort(p) PROVE FaultInv'
  BY <1>21 DEF ServerAbort
<1>22. ASSUME NEW p \in Process, Crash(p) PROVE FaultInv'
  BY <1>22 DEF Crash
<1>23. CASE UNCHANGED vars
  BY <1>23 DEF vars
<1> QED
  BY <1>1, <1>2, <1>3, <1>4, <1>5, <1>6, <1>7, <1>8, <1>9, <1>10, <1>11, <1>12, <1>13, <1>14, <1>15, <1>16, <1>17, <1>18, <1>19, <1>20, <1>21, <1>22, <1>23 DEF Next, Proceed, Resolve

(* The invariant holds throughout.                                         *)
THEOREM FaultInvariant == Spec => []FaultInv
  BY FaultInit, FaultNext, PTL DEF Spec

(* Type correctness of the model of the import processes and their audit.  *)
THEOREM TypeCorrect == Spec => []TypeOK
<1>1. FaultInv => TypeOK
  BY DEF FaultInv
<1> QED
  BY <1>1, FaultInvariant, PTL

(* Imports are all-or-nothing and exactly-once, whatever fails: the lock,  *)
(* the unique staging key and the single transaction of the unit of work   *)
(* never let a partial or a second copy of an artifact become durable.     *)
THEOREM ImportsAreAtomic == Spec => []AllOrNothing
<1>1. FaultInv => AllOrNothing
  BY DEF FaultInv
<1> QED
  BY <1>1, FaultInvariant, PTL

(* start_import closes every attempt an interrupted process left open.     *)
THEOREM AttemptsAreClosed == Spec => []OneOpenAttempt
<1>1. FaultInv => OneOpenAttempt
  BY DEF FaultInv
<1> QED
  BY <1>1, FaultInvariant, PTL

(* The result an import command returned is in the database.               *)
THEOREM ReportsAreDurable == Spec => []ReportIsDurable
<1>1. FaultInv => ReportIsDurable
  BY DEF FaultInv
<1> QED
  BY <1>1, FaultInvariant, PTL

-----------------------------------------------------------------------------
(* Steps that change neither the stored rows nor what callers were told    *)
(* are stuttering steps of the ledger, commits are Import, successful ends *)
(* are Acknowledge, and turning to a new command is Forget.                *)
LEMMA LedgerStep == FaultInv /\ [Next]_vars => [Ledger!Next]_<<rows, Told>>
<1> SUFFICES ASSUME FaultInv, [Next]_vars PROVE [Ledger!Next]_<<rows, Told>>
  OBVIOUS
<1> USE DEF FaultInv, TypeOK, database, client, Told
<1>1. ASSUME NEW p \in Process, NEW a \in Artifact, StartBusy(p, a) PROVE [Ledger!Next]_<<rows, Told>>
  <2>1. Ledger!Forget(p)
    BY <1>1 DEF StartBusy, Available, TurnTo, Ledger!Forget
  <2> QED
    BY <2>1 DEF Ledger!Next
<1>2. ASSUME NEW p \in Process, NEW a \in Artifact, StartLocked(p, a) PROVE [Ledger!Next]_<<rows, Told>>
  <2>1. Ledger!Forget(p)
    BY <1>2 DEF StartLocked, Available, TurnTo, LockHeld, Ledger!Forget
  <2> QED
    BY <2>1 DEF Ledger!Next
<1>3. ASSUME NEW p \in Process, NEW a \in Artifact, ValidationLocked(p, a) PROVE [Ledger!Next]_<<rows, Told>>
  <2>1. Ledger!Forget(p)
    BY <1>3 DEF ValidationLocked, Available, TurnTo, LockHeld, Ledger!Forget
  <2> QED
    BY <2>1 DEF Ledger!Next
<1>4. ASSUME NEW p \in Process, CheckSucceeded(p) PROVE [Ledger!Next]_<<rows, Told>>
  <2>1. CASE SuccessfulAttempt(art[p])
    <3>1. Ledger!Acknowledge(p, art[p])
      BY <1>4, <2>1 DEF CheckSucceeded, Ledger!Acknowledge, AllOrNothing
    <3>2. art[p] \in Artifact
      OBVIOUS
    <3> HIDE DEF FaultInv, TypeOK, Told
    <3> QED
      BY <3>1, <3>2 DEF Ledger!Next
  <2>2. CASE ~SuccessfulAttempt(art[p])
    <3>1. Ledger!Forget(p)
      BY <1>4, <2>2 DEF CheckSucceeded, Ledger!Forget
    <3> QED
      BY <3>1 DEF Ledger!Next
  <2> QED
    BY <2>1, <2>2
<1>5. ASSUME NEW p \in Process, CheckNotSucceeded(p) PROVE [Ledger!Next]_<<rows, Told>>
  BY <1>5 DEF CheckNotSucceeded
<1>6. ASSUME NEW p \in Process, StartAudited(p) PROVE [Ledger!Next]_<<rows, Told>>
  BY <1>6 DEF StartAudited, AuditAttempt
<1>7. ASSUME NEW p \in Process, StartFails(p) PROVE [Ledger!Next]_<<rows, Told>>
  <2>1. Ledger!Forget(p)
    BY <1>7 DEF StartFails, Ledger!Forget
  <2> QED
    BY <2>1 DEF Ledger!Next
<1>8. ASSUME NEW p \in Process, StartAuditUnknown(p) PROVE [Ledger!Next]_<<rows, Told>>
  <2>1. Ledger!Forget(p)
    BY <1>8 DEF StartAuditUnknown, AuditAttempt, Ledger!Forget
  <2> QED
    BY <2>1 DEF Ledger!Next
<1>9. ASSUME NEW p \in Process, StageAndPromote(p) PROVE [Ledger!Next]_<<rows, Told>>
  BY <1>9 DEF StageAndPromote
<1>10. ASSUME NEW p \in Process, MarkSucceeded(p) PROVE [Ledger!Next]_<<rows, Told>>
  BY <1>10 DEF MarkSucceeded
<1>11. ASSUME NEW p \in Process, ConsumeFails(p) PROVE [Ledger!Next]_<<rows, Told>>
  BY <1>11 DEF ConsumeFails
<1>12. ASSUME NEW p \in Process, SendCommit(p) PROVE [Ledger!Next]_<<rows, Told>>
  BY <1>12 DEF SendCommit
<1>13. ASSUME NEW p \in Process, CommitSucceeds(p) PROVE [Ledger!Next]_<<rows, Told>>
  <2>1. Ledger!Acknowledge(p, art[p])
    BY <1>13 DEF CommitSucceeds, Ledger!Acknowledge, SessionRows
  <2>2. art[p] \in Artifact
    OBVIOUS
  <2> HIDE DEF FaultInv, TypeOK, Told
  <2> QED
    BY <2>1, <2>2 DEF Ledger!Next
<1>14. ASSUME NEW p \in Process, CommitFails(p) PROVE [Ledger!Next]_<<rows, Told>>
  BY <1>14 DEF CommitFails
<1>15. ASSUME NEW p \in Process, Rollback(p) PROVE [Ledger!Next]_<<rows, Told>>
  BY <1>15 DEF Rollback
<1>16. ASSUME NEW p \in Process, MarkFailed(p) PROVE [Ledger!Next]_<<rows, Told>>
  <2>1. Ledger!Forget(p)
    BY <1>16 DEF MarkFailed, MarkFailedRows, RunRowLocked, Ledger!Forget
  <2> QED
    BY <2>1 DEF Ledger!Next
<1>17. ASSUME NEW p \in Process, AuditFails(p) PROVE [Ledger!Next]_<<rows, Told>>
  <2>1. Ledger!Forget(p)
    BY <1>17 DEF AuditFails, Ledger!Forget
  <2> QED
    BY <2>1 DEF Ledger!Next
<1>18. ASSUME NEW p \in Process, ValidationRecorded(p) PROVE [Ledger!Next]_<<rows, Told>>
  <2>1. Ledger!Forget(p)
    BY <1>18 DEF ValidationRecorded, Ledger!Forget
  <2> QED
    BY <2>1 DEF Ledger!Next
<1>19. ASSUME NEW p \in Process, ValidationFails(p) PROVE [Ledger!Next]_<<rows, Told>>
  <2>1. Ledger!Forget(p)
    BY <1>19 DEF ValidationFails, Ledger!Forget
  <2> QED
    BY <2>1 DEF Ledger!Next
<1>20. ASSUME NEW p \in Process, ServerCommit(p) PROVE [Ledger!Next]_<<rows, Told>>
  <2>1. /\ art[p] \in Artifact
        /\ staged[p] = Records
        /\ rows[art[p]] = 0
    BY <1>20 DEF ServerCommit, SessionRows
  <2>2. rows' = [rows EXCEPT ![art[p]] = Records]
    BY <1>20, <2>1 DEF ServerCommit
  <2>3. UNCHANGED Told
    BY <1>20 DEF ServerCommit
  <2> HIDE DEF FaultInv, TypeOK, Told
  <2> QED
    BY <2>1, <2>2, <2>3 DEF Ledger!Next, Ledger!Import
<1>21. ASSUME NEW p \in Process, ServerAbort(p) PROVE [Ledger!Next]_<<rows, Told>>
  BY <1>21 DEF ServerAbort
<1>22. ASSUME NEW p \in Process, Crash(p) PROVE [Ledger!Next]_<<rows, Told>>
  <2>1. Ledger!Forget(p)
    BY <1>22 DEF Crash, Ledger!Forget
  <2> QED
    BY <2>1 DEF Ledger!Next
<1>23. CASE UNCHANGED vars
  BY <1>23 DEF vars
<1> QED
  BY <1>1, <1>2, <1>3, <1>4, <1>5, <1>6, <1>7, <1>8, <1>9, <1>10, <1>11, <1>12, <1>13, <1>14, <1>15, <1>16, <1>17, <1>18, <1>19, <1>20, <1>21, <1>22, <1>23 DEF Next, Proceed, Resolve

(* The import protocol implements the ledger: exactly-once, all-or-nothing *)
(* storage and truthful acknowledgement, under crashes, retries, lost      *)
(* sessions and commits whose outcome the client never learned.            *)
THEOREM ImportRefinesLedger == Spec => ImplementsLedger
<1>1. Init => Ledger!Init
  BY DEF Init, Ledger!Init, Told
<1> QED
  BY <1>1, LedgerStep, FaultInvariant, PTL DEF Spec, ImplementsLedger, Ledger!Spec

-----------------------------------------------------------------------------
(* With no run, no attempt and every process idle, the invariant that     *)
(* KeepsLock buys holds.                                                   *)
LEMMA SteadyInit == Init => SteadyInv
  BY FaultInit DEF Init, SteadyInv, AttemptOwned, CheckStillHolds,
     ImporterOwnsAttempt, CommitterOwnsAttempt, OneSuccessfulAttempt, SuccessfulAttempt

(* With the lock kept through start_import, an attempt stays with the      *)
(* process it was given to and the answer of successful_report stays true. *)
LEMMA SteadyNext == SteadyInv /\ [Next /\ KeepsLock]_vars => SteadyInv'
<1> SUFFICES ASSUME SteadyInv, [Next /\ KeepsLock]_vars PROVE SteadyInv'
  OBVIOUS
<1> USE DEF SteadyInv, AttemptOwned, CheckStillHolds, ImporterOwnsAttempt,
            CommitterOwnsAttempt, OneSuccessfulAttempt, SuccessfulAttempt
<1>0. FaultInv'
  BY FaultNext DEF vars
<1> USE <1>0 DEF FaultInv, TypeOK, LockExclusive, SessionRows, AttemptKnown, Unused,
            AllOrNothing, OneOpenAttempt, ReportIsDurable, database, client
<1>1. ASSUME KeepsLock, NEW p \in Process, NEW a \in Artifact, StartBusy(p, a) PROVE SteadyInv'
  <2>1. AttemptOwned'
    BY <1>1 DEF StartBusy, Available, TurnTo, KeepsLock
  <2>2. CheckStillHolds'
    BY <1>1 DEF StartBusy, Available, TurnTo, KeepsLock
  <2>3. ImporterOwnsAttempt'
    BY <1>1 DEF StartBusy, Available, TurnTo, KeepsLock
  <2>4. CommitterOwnsAttempt'
    BY <1>1 DEF StartBusy, Available, TurnTo, KeepsLock
  <2>5. OneSuccessfulAttempt'
    BY <1>1 DEF StartBusy, Available, TurnTo, KeepsLock
  <2> QED
    BY <2>1, <2>2, <2>3, <2>4, <2>5
<1>2. ASSUME KeepsLock, NEW p \in Process, NEW a \in Artifact, StartLocked(p, a) PROVE SteadyInv'
  <2>1. AttemptOwned'
    BY <1>2 DEF StartLocked, Available, TurnTo, LockHeld, KeepsLock
  <2>2. CheckStillHolds'
    BY <1>2 DEF StartLocked, Available, TurnTo, LockHeld, KeepsLock
  <2>3. ImporterOwnsAttempt'
    BY <1>2 DEF StartLocked, Available, TurnTo, LockHeld, KeepsLock
  <2>4. CommitterOwnsAttempt'
    BY <1>2 DEF StartLocked, Available, TurnTo, LockHeld, KeepsLock
  <2>5. OneSuccessfulAttempt'
    BY <1>2 DEF StartLocked, Available, TurnTo, LockHeld, KeepsLock
  <2> QED
    BY <2>1, <2>2, <2>3, <2>4, <2>5
<1>3. ASSUME KeepsLock, NEW p \in Process, NEW a \in Artifact, ValidationLocked(p, a) PROVE SteadyInv'
  <2>1. AttemptOwned'
    BY <1>3 DEF ValidationLocked, Available, TurnTo, LockHeld, KeepsLock
  <2>2. CheckStillHolds'
    BY <1>3 DEF ValidationLocked, Available, TurnTo, LockHeld, KeepsLock
  <2>3. ImporterOwnsAttempt'
    BY <1>3 DEF ValidationLocked, Available, TurnTo, LockHeld, KeepsLock
  <2>4. CommitterOwnsAttempt'
    BY <1>3 DEF ValidationLocked, Available, TurnTo, LockHeld, KeepsLock
  <2>5. OneSuccessfulAttempt'
    BY <1>3 DEF ValidationLocked, Available, TurnTo, LockHeld, KeepsLock
  <2> QED
    BY <2>1, <2>2, <2>3, <2>4, <2>5
<1>4. ASSUME KeepsLock, NEW p \in Process, CheckSucceeded(p) PROVE SteadyInv'
  <2>1. AttemptOwned'
    BY <1>4 DEF CheckSucceeded, KeepsLock
  <2>2. CheckStillHolds'
    BY <1>4 DEF CheckSucceeded, KeepsLock
  <2>3. ImporterOwnsAttempt'
    BY <1>4 DEF CheckSucceeded, KeepsLock
  <2>4. CommitterOwnsAttempt'
    BY <1>4 DEF CheckSucceeded, KeepsLock
  <2>5. OneSuccessfulAttempt'
    BY <1>4 DEF CheckSucceeded, KeepsLock
  <2> QED
    BY <2>1, <2>2, <2>3, <2>4, <2>5
<1>5. ASSUME KeepsLock, NEW p \in Process, CheckNotSucceeded(p) PROVE SteadyInv'
  <2>1. AttemptOwned'
    BY <1>5 DEF CheckNotSucceeded, KeepsLock
  <2>2. CheckStillHolds'
    BY <1>5 DEF CheckNotSucceeded, KeepsLock
  <2>3. ImporterOwnsAttempt'
    BY <1>5 DEF CheckNotSucceeded, KeepsLock
  <2>4. CommitterOwnsAttempt'
    BY <1>5 DEF CheckNotSucceeded, KeepsLock
  <2>5. OneSuccessfulAttempt'
    BY <1>5 DEF CheckNotSucceeded, KeepsLock
  <2> QED
    BY <2>1, <2>2, <2>3, <2>4, <2>5
<1>6. ASSUME KeepsLock, NEW p \in Process, StartAudited(p) PROVE SteadyInv'
  <2>1. AttemptOwned'
    <3>1. /\ art[p] \in Artifact
          /\ last[art[p]] + 1 \in Number
          /\ att' = [att EXCEPT ![p] = last[art[p]] + 1]
          /\ art' = art
      BY <1>6 DEF StartAudited, AuditAttempt
    <3>2. attempt'[art[p]][last[art[p]] + 1] = "IMPORTING"
      BY <1>6, <3>1 DEF StartAudited, AuditAttempt
    <3>3. ASSUME NEW q \in Process, q # p, att[q] # 0
          PROVE  attempt'[art[q]][att[q]] \in {"IMPORTING", "FAILED", "SUCCEEDED"}
      BY <1>6, <3>1, <3>3 DEF StartAudited, AuditAttempt
    <3>4. ASSUME NEW q \in Process, q # p, art[q] = art[p]
          PROVE  att[q] # last[art[p]] + 1
      BY <3>4
    <3>5. \A q, r \in Process :
            att[q] # 0 /\ att[q] = att[r] /\ art[q] = art[r] => q = r
      OBVIOUS
    <3>6. att \in [Process -> 0 .. MaxAttempts]
      OBVIOUS
    <3> HIDE DEF SteadyInv, FaultInv
    <3>7. ASSUME NEW q \in Process, att'[q] # 0
          PROVE  attempt'[art'[q]][att'[q]] \in {"IMPORTING", "FAILED", "SUCCEEDED"}
      <4>1. CASE q = p
        BY <3>1, <3>2, <3>6, <4>1
      <4>2. CASE q # p
        BY <3>1, <3>3, <3>6, <3>7, <4>2
      <4> QED
        BY <4>1, <4>2
    <3>8. \A q, r \in Process :
            att'[q] # 0 /\ att'[q] = att'[r] /\ art'[q] = art'[r] => q = r
      BY <3>1, <3>4, <3>5, <3>6
    <3> QED
      BY <3>7, <3>8
  <2>2. CheckStillHolds'
    BY <1>6 DEF StartAudited, AuditAttempt, KeepsLock
  <2>3. ImporterOwnsAttempt'
    BY <1>6 DEF StartAudited, AuditAttempt, KeepsLock
  <2>4. CommitterOwnsAttempt'
    BY <1>6 DEF StartAudited, AuditAttempt, KeepsLock
  <2>5. OneSuccessfulAttempt'
    BY <1>6 DEF StartAudited, AuditAttempt, KeepsLock
  <2> QED
    BY <2>1, <2>2, <2>3, <2>4, <2>5
<1>7. ASSUME KeepsLock, NEW p \in Process, StartFails(p) PROVE SteadyInv'
  <2>1. AttemptOwned'
    BY <1>7 DEF StartFails, KeepsLock
  <2>2. CheckStillHolds'
    BY <1>7 DEF StartFails, KeepsLock
  <2>3. ImporterOwnsAttempt'
    BY <1>7 DEF StartFails, KeepsLock
  <2>4. CommitterOwnsAttempt'
    BY <1>7 DEF StartFails, KeepsLock
  <2>5. OneSuccessfulAttempt'
    BY <1>7 DEF StartFails, KeepsLock
  <2> QED
    BY <2>1, <2>2, <2>3, <2>4, <2>5
<1>8. ASSUME KeepsLock, NEW p \in Process, StartAuditUnknown(p) PROVE SteadyInv'
  <2>1. AttemptOwned'
    BY <1>8 DEF StartAuditUnknown, AuditAttempt, KeepsLock
  <2>2. CheckStillHolds'
    BY <1>8 DEF StartAuditUnknown, AuditAttempt, KeepsLock
  <2>3. ImporterOwnsAttempt'
    BY <1>8 DEF StartAuditUnknown, AuditAttempt, KeepsLock
  <2>4. CommitterOwnsAttempt'
    BY <1>8 DEF StartAuditUnknown, AuditAttempt, KeepsLock
  <2>5. OneSuccessfulAttempt'
    BY <1>8 DEF StartAuditUnknown, AuditAttempt, KeepsLock
  <2> QED
    BY <2>1, <2>2, <2>3, <2>4, <2>5
<1>9. ASSUME KeepsLock, NEW p \in Process, StageAndPromote(p) PROVE SteadyInv'
  <2>1. AttemptOwned'
    BY <1>9 DEF StageAndPromote, KeepsLock
  <2>2. CheckStillHolds'
    BY <1>9 DEF StageAndPromote, KeepsLock
  <2>3. ImporterOwnsAttempt'
    BY <1>9 DEF StageAndPromote, KeepsLock
  <2>4. CommitterOwnsAttempt'
    BY <1>9 DEF StageAndPromote, KeepsLock
  <2>5. OneSuccessfulAttempt'
    BY <1>9 DEF StageAndPromote, KeepsLock
  <2> QED
    BY <2>1, <2>2, <2>3, <2>4, <2>5
<1>10. ASSUME KeepsLock, NEW p \in Process, MarkSucceeded(p) PROVE SteadyInv'
  <2>1. AttemptOwned'
    BY <1>10 DEF MarkSucceeded, KeepsLock
  <2>2. CheckStillHolds'
    BY <1>10 DEF MarkSucceeded, KeepsLock
  <2>3. ImporterOwnsAttempt'
    BY <1>10 DEF MarkSucceeded, KeepsLock
  <2>4. CommitterOwnsAttempt'
    BY <1>10 DEF MarkSucceeded, KeepsLock
  <2>5. OneSuccessfulAttempt'
    BY <1>10 DEF MarkSucceeded, KeepsLock
  <2> QED
    BY <2>1, <2>2, <2>3, <2>4, <2>5
<1>11. ASSUME KeepsLock, NEW p \in Process, ConsumeFails(p) PROVE SteadyInv'
  <2>1. AttemptOwned'
    BY <1>11 DEF ConsumeFails, KeepsLock
  <2>2. CheckStillHolds'
    BY <1>11 DEF ConsumeFails, KeepsLock
  <2>3. ImporterOwnsAttempt'
    BY <1>11 DEF ConsumeFails, KeepsLock
  <2>4. CommitterOwnsAttempt'
    BY <1>11 DEF ConsumeFails, KeepsLock
  <2>5. OneSuccessfulAttempt'
    BY <1>11 DEF ConsumeFails, KeepsLock
  <2> QED
    BY <2>1, <2>2, <2>3, <2>4, <2>5
<1>12. ASSUME KeepsLock, NEW p \in Process, SendCommit(p) PROVE SteadyInv'
  <2>1. AttemptOwned'
    BY <1>12 DEF SendCommit, KeepsLock
  <2>2. CheckStillHolds'
    BY <1>12 DEF SendCommit, KeepsLock
  <2>3. ImporterOwnsAttempt'
    BY <1>12 DEF SendCommit, KeepsLock
  <2>4. CommitterOwnsAttempt'
    BY <1>12 DEF SendCommit, KeepsLock
  <2>5. OneSuccessfulAttempt'
    BY <1>12 DEF SendCommit, KeepsLock
  <2> QED
    BY <2>1, <2>2, <2>3, <2>4, <2>5
<1>13. ASSUME KeepsLock, NEW p \in Process, CommitSucceeds(p) PROVE SteadyInv'
  <2>1. AttemptOwned'
    BY <1>13 DEF CommitSucceeds, KeepsLock
  <2>2. CheckStillHolds'
    BY <1>13 DEF CommitSucceeds, KeepsLock
  <2>3. ImporterOwnsAttempt'
    BY <1>13 DEF CommitSucceeds, KeepsLock
  <2>4. CommitterOwnsAttempt'
    BY <1>13 DEF CommitSucceeds, KeepsLock
  <2>5. OneSuccessfulAttempt'
    BY <1>13 DEF CommitSucceeds, KeepsLock
  <2> QED
    BY <2>1, <2>2, <2>3, <2>4, <2>5
<1>14. ASSUME KeepsLock, NEW p \in Process, CommitFails(p) PROVE SteadyInv'
  <2>1. AttemptOwned'
    BY <1>14 DEF CommitFails, KeepsLock
  <2>2. CheckStillHolds'
    BY <1>14 DEF CommitFails, KeepsLock
  <2>3. ImporterOwnsAttempt'
    BY <1>14 DEF CommitFails, KeepsLock
  <2>4. CommitterOwnsAttempt'
    BY <1>14 DEF CommitFails, KeepsLock
  <2>5. OneSuccessfulAttempt'
    BY <1>14 DEF CommitFails, KeepsLock
  <2> QED
    BY <2>1, <2>2, <2>3, <2>4, <2>5
<1>15. ASSUME KeepsLock, NEW p \in Process, Rollback(p) PROVE SteadyInv'
  <2>1. AttemptOwned'
    BY <1>15 DEF Rollback, KeepsLock
  <2>2. CheckStillHolds'
    BY <1>15 DEF Rollback, KeepsLock
  <2>3. ImporterOwnsAttempt'
    BY <1>15 DEF Rollback, KeepsLock
  <2>4. CommitterOwnsAttempt'
    BY <1>15 DEF Rollback, KeepsLock
  <2>5. OneSuccessfulAttempt'
    BY <1>15 DEF Rollback, KeepsLock
  <2> QED
    BY <2>1, <2>2, <2>3, <2>4, <2>5
<1>16. ASSUME KeepsLock, NEW p \in Process, MarkFailed(p) PROVE SteadyInv'
  <2>1. AttemptOwned'
    BY <1>16 DEF MarkFailed, MarkFailedRows, RunRowLocked, KeepsLock
  <2>2. CheckStillHolds'
    BY <1>16 DEF MarkFailed, MarkFailedRows, RunRowLocked, KeepsLock
  <2>3. ImporterOwnsAttempt'
    BY <1>16 DEF MarkFailed, MarkFailedRows, RunRowLocked, KeepsLock
  <2>4. CommitterOwnsAttempt'
    BY <1>16 DEF MarkFailed, MarkFailedRows, RunRowLocked, KeepsLock
  <2>5. OneSuccessfulAttempt'
    BY <1>16 DEF MarkFailed, MarkFailedRows, RunRowLocked, KeepsLock
  <2> QED
    BY <2>1, <2>2, <2>3, <2>4, <2>5
<1>17. ASSUME KeepsLock, NEW p \in Process, AuditFails(p) PROVE SteadyInv'
  <2>1. AttemptOwned'
    BY <1>17 DEF AuditFails, KeepsLock
  <2>2. CheckStillHolds'
    BY <1>17 DEF AuditFails, KeepsLock
  <2>3. ImporterOwnsAttempt'
    BY <1>17 DEF AuditFails, KeepsLock
  <2>4. CommitterOwnsAttempt'
    BY <1>17 DEF AuditFails, KeepsLock
  <2>5. OneSuccessfulAttempt'
    BY <1>17 DEF AuditFails, KeepsLock
  <2> QED
    BY <2>1, <2>2, <2>3, <2>4, <2>5
<1>18. ASSUME KeepsLock, NEW p \in Process, ValidationRecorded(p) PROVE SteadyInv'
  <2>1. AttemptOwned'
    BY <1>18 DEF ValidationRecorded, KeepsLock
  <2>2. CheckStillHolds'
    BY <1>18 DEF ValidationRecorded, KeepsLock
  <2>3. ImporterOwnsAttempt'
    BY <1>18 DEF ValidationRecorded, KeepsLock
  <2>4. CommitterOwnsAttempt'
    BY <1>18 DEF ValidationRecorded, KeepsLock
  <2>5. OneSuccessfulAttempt'
    <3>1. /\ art[p] \in Artifact
          /\ last[art[p]] + 1 \in Number
          /\ attempt[art[p]][last[art[p]] + 1] = "ABSENT"
      BY <1>18 DEF ValidationRecorded
    <3>2. \A b \in Artifact : \A n \in Number :
            attempt'[b][n] = "SUCCEEDED" <=> attempt[b][n] = "SUCCEEDED"
      BY <1>18, <3>1 DEF ValidationRecorded
    <3>3. \A b \in Artifact : run'[b] = "SUCCEEDED" <=> run[b] = "SUCCEEDED"
      BY <1>18 DEF ValidationRecorded
    <3>4. OneSuccessfulAttempt
      OBVIOUS
    <3> HIDE DEF SteadyInv, FaultInv
    <3> QED
      BY <3>2, <3>3, <3>4
  <2> QED
    BY <2>1, <2>2, <2>3, <2>4, <2>5
<1>19. ASSUME KeepsLock, NEW p \in Process, ValidationFails(p) PROVE SteadyInv'
  <2>1. AttemptOwned'
    BY <1>19 DEF ValidationFails, KeepsLock
  <2>2. CheckStillHolds'
    BY <1>19 DEF ValidationFails, KeepsLock
  <2>3. ImporterOwnsAttempt'
    BY <1>19 DEF ValidationFails, KeepsLock
  <2>4. CommitterOwnsAttempt'
    BY <1>19 DEF ValidationFails, KeepsLock
  <2>5. OneSuccessfulAttempt'
    BY <1>19 DEF ValidationFails, KeepsLock
  <2> QED
    BY <2>1, <2>2, <2>3, <2>4, <2>5
<1>20. ASSUME KeepsLock, NEW p \in Process, ServerCommit(p) PROVE SteadyInv'
  <2>1. AttemptOwned'
    BY <1>20 DEF ServerCommit, KeepsLock
  <2>2. CheckStillHolds'
    BY <1>20 DEF ServerCommit, KeepsLock
  <2>3. ImporterOwnsAttempt'
    BY <1>20 DEF ServerCommit, KeepsLock
  <2>4. CommitterOwnsAttempt'
    BY <1>20 DEF ServerCommit, KeepsLock
  <2>5. OneSuccessfulAttempt'
    BY <1>20 DEF ServerCommit, KeepsLock
  <2> QED
    BY <2>1, <2>2, <2>3, <2>4, <2>5
<1>21. ASSUME KeepsLock, NEW p \in Process, ServerAbort(p) PROVE SteadyInv'
  <2>1. AttemptOwned'
    BY <1>21 DEF ServerAbort, KeepsLock
  <2>2. CheckStillHolds'
    BY <1>21 DEF ServerAbort, KeepsLock
  <2>3. ImporterOwnsAttempt'
    BY <1>21 DEF ServerAbort, KeepsLock
  <2>4. CommitterOwnsAttempt'
    BY <1>21 DEF ServerAbort, KeepsLock
  <2>5. OneSuccessfulAttempt'
    BY <1>21 DEF ServerAbort, KeepsLock
  <2> QED
    BY <2>1, <2>2, <2>3, <2>4, <2>5
<1>22. ASSUME KeepsLock, NEW p \in Process, Crash(p) PROVE SteadyInv'
  <2>1. AttemptOwned'
    BY <1>22 DEF Crash, KeepsLock
  <2>2. CheckStillHolds'
    BY <1>22 DEF Crash, KeepsLock
  <2>3. ImporterOwnsAttempt'
    BY <1>22 DEF Crash, KeepsLock
  <2>4. CommitterOwnsAttempt'
    BY <1>22 DEF Crash, KeepsLock
  <2>5. OneSuccessfulAttempt'
    BY <1>22 DEF Crash, KeepsLock
  <2> QED
    BY <2>1, <2>2, <2>3, <2>4, <2>5
<1>23. CASE UNCHANGED vars
  BY <1>23 DEF vars
<1> QED
  BY <1>1, <1>2, <1>3, <1>4, <1>5, <1>6, <1>7, <1>8, <1>9, <1>10, <1>11, <1>12, <1>13, <1>14, <1>15, <1>16, <1>17, <1>18, <1>19, <1>20, <1>21, <1>22, <1>23 DEF Next, Proceed, Resolve

(* The strengthened invariant holds throughout.                            *)
THEOREM SteadyInvariant == SteadySpec => []SteadyInv
  BY SteadyInit, SteadyNext, PTL DEF SteadySpec

(* A run is SUCCEEDED exactly when it has its one successful attempt, so   *)
(* successful_report never finds a run without one.                        *)
THEOREM SuccessIsUnique == SteadySpec => []OneSuccessfulAttempt
<1>1. SteadyInv => OneSuccessfulAttempt
  BY DEF SteadyInv
<1> QED
  BY <1>1, SteadyInvariant, PTL

(* mark_succeeded only ever finishes the attempt its own process opened.   *)
THEOREM CommitterIsOwner == SteadySpec => []CommitterOwnsAttempt
<1>1. SteadyInv => CommitterOwnsAttempt
  BY DEF SteadyInv
<1> QED
  BY <1>1, SteadyInvariant, PTL

-----------------------------------------------------------------------------
(* What a step may do to a run that is SUCCEEDED and to an attempt that is *)
(* finished: nothing.                                                      *)
LEMMA FinalStep ==
    SteadyInv /\ [Next /\ KeepsLock]_vars =>
        /\ \A a \in Artifact : run[a] = "SUCCEEDED" => run'[a] = "SUCCEEDED"
        /\ \A a \in Artifact : \A n \in Number :
              attempt[a][n] \notin {"ABSENT", "IMPORTING"}
                 => attempt'[a][n] = attempt[a][n]
<1> DEFINE Final ==
        /\ \A b \in Artifact : run[b] = "SUCCEEDED" => run'[b] = "SUCCEEDED"
        /\ \A b \in Artifact : \A n \in Number :
              attempt[b][n] \notin {"ABSENT", "IMPORTING"}
                 => attempt'[b][n] = attempt[b][n]
<1> SUFFICES ASSUME SteadyInv, [Next /\ KeepsLock]_vars PROVE Final
  OBVIOUS
<1> USE DEF SteadyInv, FaultInv, TypeOK, database, client
<1>1. ASSUME NEW p \in Process, NEW a \in Artifact, StartBusy(p, a) PROVE Final
  BY <1>1 DEF StartBusy, Available, TurnTo
<1>2. ASSUME NEW p \in Process, NEW a \in Artifact, StartLocked(p, a) PROVE Final
  BY <1>2 DEF StartLocked, Available, TurnTo, LockHeld
<1>3. ASSUME NEW p \in Process, NEW a \in Artifact, ValidationLocked(p, a) PROVE Final
  BY <1>3 DEF ValidationLocked, Available, TurnTo, LockHeld
<1>4. ASSUME NEW p \in Process, CheckSucceeded(p) PROVE Final
  BY <1>4 DEF CheckSucceeded
<1>5. ASSUME NEW p \in Process, CheckNotSucceeded(p) PROVE Final
  BY <1>5 DEF CheckNotSucceeded
<1>6. ASSUME NEW p \in Process, StartAudited(p) PROVE Final
  BY <1>6 DEF StartAudited, AuditAttempt, CheckStillHolds, Unused
<1>7. ASSUME NEW p \in Process, StartFails(p) PROVE Final
  BY <1>7 DEF StartFails
<1>8. ASSUME NEW p \in Process, StartAuditUnknown(p) PROVE Final
  BY <1>8 DEF StartAuditUnknown, AuditAttempt, CheckStillHolds, Unused
<1>9. ASSUME NEW p \in Process, StageAndPromote(p) PROVE Final
  BY <1>9 DEF StageAndPromote
<1>10. ASSUME NEW p \in Process, MarkSucceeded(p) PROVE Final
  BY <1>10 DEF MarkSucceeded
<1>11. ASSUME NEW p \in Process, ConsumeFails(p) PROVE Final
  BY <1>11 DEF ConsumeFails
<1>12. ASSUME NEW p \in Process, SendCommit(p) PROVE Final
  BY <1>12 DEF SendCommit
<1>13. ASSUME NEW p \in Process, CommitSucceeds(p) PROVE Final
  BY <1>13 DEF CommitSucceeds
<1>14. ASSUME NEW p \in Process, CommitFails(p) PROVE Final
  BY <1>14 DEF CommitFails
<1>15. ASSUME NEW p \in Process, Rollback(p) PROVE Final
  BY <1>15 DEF Rollback
<1>16. ASSUME NEW p \in Process, MarkFailed(p) PROVE Final
  BY <1>16 DEF MarkFailed, MarkFailedRows, RunRowLocked, AttemptKnown, AttemptOwned
<1>17. ASSUME NEW p \in Process, AuditFails(p) PROVE Final
  BY <1>17 DEF AuditFails
<1>18. ASSUME NEW p \in Process, ValidationRecorded(p) PROVE Final
  BY <1>18 DEF ValidationRecorded, Unused
<1>19. ASSUME NEW p \in Process, ValidationFails(p) PROVE Final
  BY <1>19 DEF ValidationFails
<1>20. ASSUME NEW p \in Process, ServerCommit(p) PROVE Final
  BY <1>20 DEF ServerCommit, CommitterOwnsAttempt, SessionRows, AttemptKnown
<1>21. ASSUME NEW p \in Process, ServerAbort(p) PROVE Final
  BY <1>21 DEF ServerAbort
<1>22. ASSUME NEW p \in Process, Crash(p) PROVE Final
  BY <1>22 DEF Crash
<1>23. CASE UNCHANGED vars
  BY <1>23 DEF vars
<1> HIDE DEF Final
<1> QED
  BY <1>1, <1>2, <1>3, <1>4, <1>5, <1>6, <1>7, <1>8, <1>9, <1>10, <1>11, <1>12, <1>13, <1>14, <1>15, <1>16, <1>17, <1>18, <1>19, <1>20, <1>21, <1>22, <1>23 DEF Next, Proceed, Resolve

(* No audit, retry, validation failure or late report withdraws a success. *)
THEOREM SuccessStays == SteadySpec => SuccessIsFinal
  BY SteadyInvariant, FinalStep, PTL DEF SteadySpec, SuccessIsFinal

(* Nobody rewrites how an attempt ended.                                   *)
THEOREM HistoryStays == SteadySpec => HistoryIsFinal
  BY SteadyInvariant, FinalStep, PTL DEF SteadySpec, HistoryIsFinal

-----------------------------------------------------------------------------
(* A step that touches the attempts keeps their failure codes in agreement *)
(* with how they ended.                                                    *)
LEMMA ExplainedStep ==
    SteadyInv /\ FailuresAreExplained /\ [Next /\ KeepsLock]_vars => FailuresAreExplained'
<1> SUFFICES ASSUME SteadyInv, FailuresAreExplained, [Next]_vars
             PROVE  FailuresAreExplained'
  OBVIOUS
<1> USE DEF FailuresAreExplained
<1>1. CASE UNCHANGED <<attempt, attemptCode>>
  BY <1>1
<1>2. ASSUME NEW a \in Artifact, AuditAttempt(a) PROVE FailuresAreExplained'
  BY <1>2 DEF AuditAttempt, SteadyInv, FaultInv, TypeOK, Unused
<1>3. ASSUME NEW p \in Process, MarkFailed(p) PROVE FailuresAreExplained'
  BY <1>3 DEF MarkFailed, MarkFailedRows, SteadyInv, FaultInv, TypeOK,
     AttemptKnown, AttemptOwned
<1>4. ASSUME NEW p \in Process, ValidationRecorded(p) PROVE FailuresAreExplained'
  BY <1>4 DEF ValidationRecorded, SteadyInv, FaultInv, TypeOK, Unused
<1>5. ASSUME NEW p \in Process, ServerCommit(p) PROVE FailuresAreExplained'
  BY <1>5 DEF ServerCommit, SteadyInv, FaultInv, TypeOK, CommitterOwnsAttempt,
     SessionRows, RowLocking
<1>6. ASSUME NEW p \in Process, Proceed(p) PROVE FailuresAreExplained'
  <2>1. \/ UNCHANGED <<attempt, attemptCode>>
        \/ AuditAttempt(art[p]) \/ MarkFailed(p) \/ ValidationRecorded(p)
    BY <1>6 DEF Proceed, CheckSucceeded, CheckNotSucceeded, StartAudited, StartFails,
       StartAuditUnknown, StageAndPromote, MarkSucceeded, ConsumeFails, SendCommit,
       CommitSucceeds, CommitFails, Rollback, AuditFails, ValidationFails, database
  <2>2. art[p] \in Artifact
    BY DEF SteadyInv, FaultInv, TypeOK
  <2> QED
    BY <1>1, <1>2, <1>3, <1>4, <2>1, <2>2
<1>7. ASSUME NEW p \in Process, NEW a \in Artifact,
             StartBusy(p, a) \/ StartLocked(p, a) \/ ValidationLocked(p, a)
      PROVE  FailuresAreExplained'
  BY <1>1, <1>7 DEF StartBusy, StartLocked, ValidationLocked, database
<1>8. ASSUME NEW p \in Process, ServerAbort(p) \/ Crash(p) PROVE FailuresAreExplained'
  BY <1>1, <1>8 DEF ServerAbort, Crash, database
<1>9. CASE UNCHANGED vars
  BY <1>1, <1>9 DEF vars
<1> HIDE DEF FailuresAreExplained
<1> QED
  BY <1>5, <1>6, <1>7, <1>8, <1>9 DEF Next, Resolve

(* The audit explains itself: an attempt carries a failure code exactly    *)
(* when it failed.                                                         *)
THEOREM FailuresExplained == SteadySpec => []FailuresAreExplained
<1>1. Init => FailuresAreExplained
  BY DEF Init, FailuresAreExplained
<1> QED
  BY <1>1, SteadyInvariant, ExplainedStep, PTL DEF SteadySpec

=============================================================================
