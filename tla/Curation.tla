------------------------------ MODULE Curation ------------------------------
(***************************************************************************)
(* Curators deciding assertions while imports add new ones:                *)
(* SqlxCurationStore::decide_with, publish_decision, refresh_and_settle,   *)
(* and the part of an import that asserts market values.                   *)
(*                                                                         *)
(* PostgreSQL runs every transaction at READ COMMITTED: a statement sees   *)
(* what was committed before it started and the writes of its own          *)
(* transaction.  A decision locks the assertions of ONE field; the rest of *)
(* the snapshot it may publish is only read.  The writes of an open        *)
(* decision are kept in target, verdict and flag until it commits.  A      *)
(* refresh is a statement too: it reads what was committed when it         *)
(* started, and only then waits for the exclusive lock of the view.        *)
(*                                                                         *)
(* An assertion of a market entity (a valuation or a cost snapshot) backs  *)
(* the whole snapshot row; one of a measured field backs the measurement   *)
(* row linked to it by source_assertion_id; any other one backs nothing.   *)
(* The market entities here are snapshots of one variant and of one kind,  *)
(* so at most one may be canonical.                                        *)
(***************************************************************************)
EXTENDS Naturals, FiniteSets

CONSTANTS
    Curator,      \* curation commands in flight
    Assertion,    \* source_assertions rows, present or to be imported
    EntityOf,     \* the entity an assertion is about
    FieldOf,      \* and its field
    Market,       \* the entities that are market snapshots
    Measured,     \* the fields of a variant that are stored as measurements
    Initial,      \* assertions already imported, all pending
    Agrees,       \* assertions whose value is the one their row stores
    None,         \* no assertion
    MaxRequests   \* bound on the refresh requests that are explored

ASSUME AssertionAssumption == Initial \subseteq Assertion /\ None \notin Assertion
ASSUME MaxRequestsAssumption == MaxRequests \in Nat

\* Snapshots and assertions are rows of different tables, and what is stored
\* as a measurement is a field of a variant, never of a snapshot.
ASSUME RowAssumption ==
    /\ Market \intersect Assertion = {}
    /\ \A a \in Assertion : EntityOf[a] \in Market => FieldOf[a] \notin Measured

VARIABLES
    status,       \* source_assertions.status_code ("ABSENT": no row)
    canonical,    \* rows whose is_canonical flag is set
    flags,        \* fields with an OPEN curation flag
    pending,      \* PENDING refresh requests
    lastRequest,  \* number of refresh requests ever enqueued
    view,         \* the fields the materialized view serves
    pc,           \* where each curator stands
    target, verdict, flag,   \* its open decision, and what that does to the row
    outstanding, rebuilt,    \* its refresh: requests read, contents computed
    import, imported, captured  \* the import in flight and its refresh

store == <<status, canonical, flags, pending, lastRequest>>
decision == <<target, verdict, flag>>
refresh == <<outstanding, rebuilt>>
importer == <<import, imported, captured>>
vars == <<store, view, pc, decision, refresh, importer>>

Decision == {"ACCEPTED", "REJECTED"}
Status == Decision \union {"ABSENT", "PENDING"}
Flag == {"set", "clear", "keep"}
InTransaction == {"decided", "evaluated", "applied"}

(* (entity_type_code, entity_id, field_name): what lock_assertion_field    *)
(* locks and uq_assertion_accepted is unique on.                           *)
Key(a) == <<EntityOf[a], FieldOf[a]>>

(* The row whose is_canonical flag a decision on the assertion may change, *)
(* if it backs one: market_target, measurement_target.                     *)
Backs(a) == EntityOf[a] \in Market \/ FieldOf[a] \in Measured
Row(a) == IF EntityOf[a] \in Market THEN EntityOf[a] ELSE a

Rows == {Row(a) : a \in Assertion}
Keys == {Key(a) : a \in Assertion}

(* What the view shows of a set of canonical rows and stored values.       *)
Served(canon, present) == {Key(a) : a \in {b \in present : Row(b) \in canon}}
Present == {a \in Assertion : status[a] # "ABSENT"}

TypeOK ==
    /\ status \in [Assertion -> Status]
    /\ canonical \subseteq Rows
    /\ flags \subseteq Keys
    /\ lastRequest \in 0 .. MaxRequests
    /\ pending \subseteq 1 .. lastRequest
    /\ view \subseteq Keys
    /\ pc \in [Curator -> InTransaction \union
                  {"idle", "reading", "rebuilding", "installing", "settling"}]
    /\ target \in [Curator -> Assertion \union {None}]
    /\ \A c \in Curator : pc[c] \in InTransaction => target[c] # None
    /\ verdict \in [Curator -> Decision]
    /\ flag \in [Curator -> Flag]
    /\ outstanding \in [Curator -> SUBSET (1 .. MaxRequests)]
    /\ rebuilt \in [Curator -> SUBSET Keys]
    /\ import \in {"idle", "staged", "refreshing", "refreshed"}
    /\ imported \subseteq Assertion
    /\ captured \subseteq Keys

(* The state an earlier import left: everything pending and withheld, and  *)
(* an open curation flag on every field.                                   *)
Init ==
    /\ status = [a \in Assertion |-> IF a \in Initial THEN "PENDING" ELSE "ABSENT"]
    /\ canonical = {}
    /\ flags = {Key(a) : a \in Initial}
    /\ pending = {}
    /\ lastRequest = 0
    /\ view = {}
    /\ pc = [c \in Curator |-> "idle"]
    /\ target = [c \in Curator |-> None]
    /\ verdict = [c \in Curator |-> "REJECTED"]
    /\ flag = [c \in Curator |-> "keep"]
    /\ outstanding = [c \in Curator |-> {}]
    /\ rebuilt = [c \in Curator |-> {}]
    /\ import = "idle"
    /\ imported = {}
    /\ captured = {}

-----------------------------------------------------------------------------
(***************************************************************************)
(* One decision: decide_with.                                              *)
(***************************************************************************)

GoTo(c, point) == pc' = [pc EXCEPT ![c] = point]

(* The transaction of c is over, one way or the other.                     *)
EndTransaction(c) ==
    /\ target' = [target EXCEPT ![c] = None]
    /\ verdict' = [verdict EXCEPT ![c] = "REJECTED"]
    /\ flag' = [flag EXCEPT ![c] = "keep"]

(* Fault: the unit is judged without the decision being made.              *)
SeenCommitted(c, a) == status[a]

(* The status of an assertion as a statement of c's transaction sees it.   *)
Seen(c, a) == IF a = target[c] THEN verdict[c] ELSE status[a]

FieldLocked(k) == \E d \in Curator : pc[d] \in InTransaction /\ Key(target[d]) = k

(* AlreadyDecided, or Conflict with the accepted assertion of the field.   *)
(* A refused decision changes nothing.                                     *)
Refused(a, d) ==
    \/ status[a] = d
    \/ d = "ACCEPTED" /\ \E b \in Assertion \ {a} : Key(b) = Key(a) /\ status[b] = "ACCEPTED"

(* Fault: the field is not locked.                                         *)
DecideUnlocked(c, a, d) ==
    /\ pc[c] = "idle"
    /\ status[a] # "ABSENT"
    /\ ~Refused(a, d)
    /\ target' = [target EXCEPT ![c] = a]
    /\ verdict' = [verdict EXCEPT ![c] = d]
    /\ GoTo(c, "decided")
    /\ UNCHANGED <<store, view, flag, refresh, importer>>

(* Lock the field, check the decision, update the assertion.               *)
Decide(c, a, d) ==
    /\ pc[c] = "idle"
    /\ status[a] # "ABSENT"
    /\ ~FieldLocked(Key(a))
    /\ ~Refused(a, d)
    /\ target' = [target EXCEPT ![c] = a]
    /\ verdict' = [verdict EXCEPT ![c] = d]
    /\ GoTo(c, "decided")
    /\ UNCHANGED <<store, view, flag, refresh, importer>>

(* Fault: the first acceptance publishes the unit.                         *)
PublishableOnFirst(c, e) ==
    \E a \in Present : EntityOf[a] = e /\ Seen(c, a) = "ACCEPTED"

(* publishable: some accepted assertion, and no asserted field without one.*)
Publishable(c, e) ==
    LET asserted == {a \in Present : EntityOf[a] = e}
        accepted == {a \in asserted : Seen(c, a) = "ACCEPTED"}
    IN  /\ accepted # {}
        /\ \A a \in asserted : \E b \in accepted : FieldOf[b] = FieldOf[a]

(* What the decision makes of its row: a measurement follows its own       *)
(* assertion, a snapshot the whole unit.                                   *)
ShouldPublish(c) ==
    LET e == EntityOf[target[c]]
    IN  IF e \in Market THEN Publishable(c, e) ELSE verdict[c] = "ACCEPTED"

(* VALUE_MISMATCH, or SNAPSHOT_CONFLICT with a committed sibling.          *)
Refusal(c) ==
    /\ EntityOf[target[c]] \in Market
    /\ \/ verdict[c] = "ACCEPTED" /\ target[c] \notin Agrees
       \/ ShouldPublish(c) /\ (canonical \intersect Market) \ {Row(target[c])} # {}

(* The reads of publish_decision.  Reading the sibling later than the      *)
(* assertions makes no difference: the unique index decides at the write.  *)
Evaluate(c) ==
    /\ pc[c] = "decided"
    /\ ~Refusal(c)
    /\ flag' = [flag EXCEPT ![c] = IF ~Backs(target[c]) THEN "keep"
                                   ELSE IF ShouldPublish(c) THEN "set" ELSE "clear"]
    /\ GoTo(c, "evaluated")
    /\ UNCHANGED <<store, view, target, verdict, refresh, importer>>

(* The rows written by other decisions still open.                         *)
Writing(c) ==
    {Row(target[d]) : d \in {x \in Curator \ {c} : pc[x] = "applied" /\ flag[x] # "keep"}}

(* The flag c would write is the one the row already has.                  *)
FlagStands(c) ==
    flag[c] = "keep" \/ (flag[c] = "set" <=> Row(target[c]) \in canonical)

(* UPDATE ... SET is_canonical WHERE is_canonical IS DISTINCT FROM: a row  *)
(* that already has the value is skipped without waiting for anybody.      *)
SkipFlag(c) ==
    /\ pc[c] = "evaluated"
    /\ FlagStands(c)
    /\ flag' = [flag EXCEPT ![c] = "keep"]
    /\ GoTo(c, "applied")
    /\ UNCHANGED <<store, view, target, verdict, refresh, importer>>

(* Fault: no unique index, so nobody waits for or fails on a sibling.      *)
WriteFlagUnindexed(c) ==
    /\ pc[c] = "evaluated"
    /\ ~FlagStands(c)
    /\ Row(target[c]) \notin Writing(c)
    /\ GoTo(c, "applied")
    /\ UNCHANGED <<store, view, decision, refresh, importer>>

(* Otherwise the update waits for the row, and publishing a snapshot for   *)
(* the unique index entry of its variant; a canonical sibling found there  *)
(* is a constraint violation, so the decision can only fail.               *)
WriteFlag(c) ==
    LET r == Row(target[c])
        contended == IF flag[c] = "set" /\ r \in Market THEN Market ELSE {r}
    IN  /\ pc[c] = "evaluated"
        /\ ~FlagStands(c)
        /\ Writing(c) \intersect contended = {}
        /\ flag[c] = "set" => canonical \intersect contended = {}
        /\ GoTo(c, "applied")
        /\ UNCHANGED <<store, view, decision, refresh, importer>>

(* The commit makes the assertion's status, the flag of its row, the       *)
(* closed curation flags and the refresh request durable together.  A      *)
(* decision that changed a row goes on to refresh; an acceptance may be    *)
(* asked to defer that and leave the request standing.                     *)
Commit(c) ==
    LET a == target[c]
        changed == flag[c] # "keep"
    IN  /\ pc[c] = "applied"
        /\ status' = [status EXCEPT ![a] = verdict[c]]
        /\ canonical' = CASE flag[c] = "set" -> canonical \union {Row(a)}
                          [] flag[c] = "clear" -> canonical \ {Row(a)}
                          [] OTHER -> canonical
        /\ flags' = flags \ {Key(a)}
        /\ changed => lastRequest < MaxRequests
        /\ lastRequest' = IF changed THEN lastRequest + 1 ELSE lastRequest
        /\ pending' = IF changed THEN pending \union {lastRequest + 1} ELSE pending
        /\ EndTransaction(c)
        /\ \/ changed /\ GoTo(c, "reading")
           \/ (changed => verdict[c] = "ACCEPTED") /\ GoTo(c, "idle")
        /\ UNCHANGED <<view, refresh, importer>>

(* A refusal, a database error or the end of the process before the commit *)
(* rolls the decision back.                                                *)
GiveUp(c) ==
    /\ pc[c] \in InTransaction
    /\ EndTransaction(c)
    /\ GoTo(c, "idle")
    /\ UNCHANGED <<store, view, refresh, importer>>

-----------------------------------------------------------------------------
(***************************************************************************)
(* Rebuilding the read model: refresh_and_settle.                          *)
(***************************************************************************)

(* `curate refresh`.                                                       *)
CurateRefresh(c) ==
    /\ pc[c] = "idle"
    /\ GoTo(c, "reading")
    /\ UNCHANGED <<store, view, decision, refresh, importer>>

ReadOutstanding(c) ==
    /\ pc[c] = "reading"
    /\ outstanding' = [outstanding EXCEPT ![c] = pending]
    /\ GoTo(c, IF pending = {} THEN "idle" ELSE "rebuilding")
    /\ UNCHANGED <<store, view, decision, rebuilt, importer>>

(* refresh_search_matviews starts, with the snapshot it computes from.     *)
StartRebuild(c) ==
    /\ pc[c] = "rebuilding"
    /\ rebuilt' = [rebuilt EXCEPT ![c] = Served(canonical, Present)]
    /\ GoTo(c, "installing")
    /\ UNCHANGED <<store, view, decision, outstanding, importer>>

(* It has the view exclusively: an import that refreshed has ended.        *)
InstallRebuilt(c) ==
    /\ pc[c] = "installing"
    /\ import # "refreshed"
    /\ view' = rebuilt[c]
    /\ rebuilt' = [rebuilt EXCEPT ![c] = {}]
    /\ GoTo(c, "settling")
    /\ UNCHANGED <<store, decision, outstanding, importer>>

(* Fault: every pending request is closed.                                 *)
SettleAll(c) ==
    /\ pc[c] = "settling"
    /\ pending' = {}
    /\ outstanding' = [outstanding EXCEPT ![c] = {}]
    /\ GoTo(c, "idle")
    /\ UNCHANGED <<status, canonical, flags, lastRequest, view, decision, rebuilt, importer>>

(* Only the requests read before the rebuild are closed.                   *)
Settle(c) ==
    /\ pc[c] = "settling"
    /\ pending' = pending \ outstanding[c]
    /\ outstanding' = [outstanding EXCEPT ![c] = {}]
    /\ GoTo(c, "idle")
    /\ UNCHANGED <<status, canonical, flags, lastRequest, view, decision, rebuilt, importer>>

(* The refresh fails or the process ends; the requests stay pending.       *)
RefreshFails(c) ==
    /\ pc[c] \in {"reading", "rebuilding", "installing", "settling"}
    /\ outstanding' = [outstanding EXCEPT ![c] = {}]
    /\ rebuilt' = [rebuilt EXCEPT ![c] = {}]
    /\ GoTo(c, "idle")
    /\ UNCHANGED <<store, view, decision, importer>>

-----------------------------------------------------------------------------
(***************************************************************************)
(* A later import that lands on the same entities: promote_market and      *)
(* promote_measurements assert, refresh_read_models rebuilds inside the    *)
(* import transaction, commit publishes both.                              *)
(***************************************************************************)
ImportStage(A) ==
    /\ import = "idle"
    /\ A # {}
    /\ import' = "staged"
    /\ imported' = A
    /\ UNCHANGED <<store, view, pc, decision, refresh, captured>>

ImportStartRefresh ==
    /\ import = "staged"
    /\ captured' = Served(canonical, Present \union imported)
    /\ import' = "refreshing"
    /\ UNCHANGED <<store, view, pc, decision, refresh, imported>>

(* The view is locked from here to the end of the transaction.             *)
ImportRefreshed ==
    /\ import = "refreshing"
    /\ import' = "refreshed"
    /\ UNCHANGED <<store, view, pc, decision, refresh, imported, captured>>

ImportEnds ==
    /\ import' = "idle"
    /\ imported' = {}
    /\ captured' = {}
    /\ UNCHANGED <<canonical, pending, lastRequest, pc, decision, refresh>>

ImportCommit ==
    /\ import = "refreshed"
    /\ status' = [a \in Assertion |-> IF a \in imported THEN "PENDING" ELSE status[a]]
    /\ flags' = flags \union {Key(a) : a \in imported}
    /\ view' = captured
    /\ ImportEnds

ImportAbort ==
    /\ import # "idle"
    /\ ImportEnds
    /\ UNCHANGED <<status, flags, view>>

Curate(c) ==
    \/ \E a \in Assertion, d \in Decision : Decide(c, a, d)
    \/ Evaluate(c) \/ SkipFlag(c) \/ WriteFlag(c) \/ Commit(c) \/ GiveUp(c)
    \/ CurateRefresh(c) \/ ReadOutstanding(c)
    \/ StartRebuild(c) \/ InstallRebuilt(c) \/ Settle(c) \/ RefreshFails(c)

Import ==
    \/ \E A \in SUBSET (Assertion \ Present) : ImportStage(A)
    \/ ImportStartRefresh \/ ImportRefreshed \/ ImportCommit \/ ImportAbort

Next == (\E c \in Curator : Curate(c)) \/ Import

Spec == Init /\ [][Next]_vars

(* FreshSnapshot says that nothing was committed between the snapshot of a *)
(* refresh and the moment it has the view; FreshSpec depends on it.        *)
FreshSnapshot ==
    /\ \A c \in Curator :
          pc[c] = "installing" /\ pc'[c] = "settling"
              => rebuilt[c] = Served(canonical, Present)
    /\ import = "refreshing" /\ import' = "refreshed"
          => captured = Served(canonical, Present \union imported)

FreshSpec == Init /\ [][Next /\ FreshSnapshot]_vars

-----------------------------------------------------------------------------
(***************************************************************************)
(* Properties.                                                             *)
(***************************************************************************)

(* A stale read model is always on record: whenever the views differ from  *)
(* what the canonical rows say, a refresh request is pending, so a retry   *)
(* of `curate refresh` rebuilds them; a failed or overtaken rebuild, or an *)
(* import that installs what it captured earlier, never loses that.  This  *)
(* needs FreshSpec.                                                        *)
StaleIsRecorded == view # Served(canonical, Present) => pending # {}

(* A measurement is published exactly while its own assertion is accepted, *)
(* and a field never has two published or two accepted values.             *)
MeasurementFollowsDecision ==
    /\ \A a \in Assertion :
          FieldOf[a] \in Measured => (a \in canonical <=> status[a] = "ACCEPTED")
    /\ \A a, b \in Assertion :
          status[a] = "ACCEPTED" /\ status[b] = "ACCEPTED" /\ Key(a) = Key(b) => a = b

(* uq_val_canonical and uq_cs_canonical: two curators who publish two      *)
(* snapshots of one variant at the same time never both succeed.           *)
OneSnapshotPublished == Cardinality(canonical \intersect Market) <= 1

(* A snapshot publishes as a unit: every field asserted on a canonical     *)
(* snapshot has an accepted assertion.                                     *)
UnitPublication ==
    \A a \in Present :
        EntityOf[a] \in canonical \intersect Market =>
            \E b \in Present : Key(b) = Key(a) /\ status[b] = "ACCEPTED"

(* What is left of that with several curators and later imports: of what   *)
(* was asserted on a snapshot from the beginning, no field that nobody ever *)
(* decided is published with it, whatever the other curators withdraw or an *)
(* import adds in the meantime (publish_decision).                         *)
Decided(k) == \E b \in Present : Key(b) = k /\ status[b] \in Decision
PublishedIsDecided ==
    \A a \in Initial : EntityOf[a] \in canonical \intersect Market => Decided(Key(a))

-----------------------------------------------------------------------------
(***************************************************************************)
(* The inductive invariants behind the properties.                         *)
(***************************************************************************)

(* One open decision per field; while it is open nobody else accepts an    *)
(* assertion of the field, and an import only brings assertions that       *)
(* nobody can have decided.                                                *)
DecisionsStand ==
    /\ imported \subseteq Assertion \ Present
    /\ \A c \in Curator : pc[c] \in InTransaction =>
          /\ target[c] \in Present
          /\ verdict[c] = "ACCEPTED" =>
                \A b \in Assertion \ {target[c]} :
                    Key(b) = Key(target[c]) => status[b] # "ACCEPTED"
    /\ \A c, d \in Curator :
          pc[c] \in InTransaction /\ pc[d] \in InTransaction /\ Key(target[c]) = Key(target[d])
              => c = d

(* What an open decision on a measured field is about to make of its row   *)
(* is what its verdict asks for.                                           *)
Intended(c) == IF verdict[c] = "ACCEPTED" THEN "set" ELSE "clear"
FlagFollowsVerdict(c) ==
    pc[c] \in InTransaction /\ FieldOf[target[c]] \in Measured =>
        /\ pc[c] = "evaluated" => flag[c] = Intended(c)
        /\ pc[c] = "applied" =>
              \/ flag[c] = Intended(c)
              \/ flag[c] = "keep" /\ (target[c] \in canonical <=> verdict[c] = "ACCEPTED")

(* The curator that has written the flag of a snapshot has the unique      *)
(* index entry of the variant until it commits.                            *)
Publishing(c) == pc[c] = "applied" /\ flag[c] = "set" /\ Row(target[c]) \in Market
IndexHeld ==
    /\ \A c \in Curator : Publishing(c) => canonical \intersect Market = {}
    /\ \A c, d \in Curator : Publishing(c) /\ Publishing(d) => c = d
    /\ \A r, s \in canonical \intersect Market : r = s

CurationInv ==
    /\ TypeOK
    /\ DecisionsStand
    /\ \A c \in Curator : FlagFollowsVerdict(c)
    /\ IndexHeld
    /\ MeasurementFollowsDecision

(* The requests no refresh is about to close.  There is one whenever the   *)
(* view is stale, or an import is about to make it so.                     *)
Unsettled == {n \in pending : \A c \in Curator : pc[c] = "settling" => n \notin outstanding[c]}
RecordInv ==
    /\ \A c \in Curator : outstanding[c] \subseteq 1 .. lastRequest
    /\ view # Served(canonical, Present) => Unsettled # {}
    /\ import = "refreshed" /\ captured # Served(canonical, Present \union imported)
          => Unsettled # {}

(* A decision that is about to publish a snapshot has seen every field of  *)
(* it decided, its own field by its own verdict.                           *)
SawDecided(c) ==
    pc[c] \in InTransaction /\ pc[c] # "decided" /\ EntityOf[target[c]] \in Market /\ flag[c] = "set" =>
        \A a \in Initial : EntityOf[a] = EntityOf[target[c]] => Key(a) = Key(target[c]) \/ Decided(Key(a))
DecidedInv ==
    /\ Initial \subseteq Present
    /\ \A c \in Curator : SawDecided(c)
    /\ PublishedIsDecided
=============================================================================
