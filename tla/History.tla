------------------------------ MODULE History -------------------------------
(***************************************************************************)
(* The migration history: what the repository's policy check asks of the   *)
(* files, the checksum lock, the installer and the validations             *)
(* (xtask/src/migrations.rs), and what psql does with the installer        *)
(* (database/install.sql) on a database, once or again after it was cut    *)
(* off. The advisory lock makes installers take turns, so sessions follow  *)
(* one another.                                                            *)
(*                                                                         *)
(* A migration is named by its version (None: the name has none) and the   *)
(* rank of its description. A line of the installer opens or closes a      *)
(* guarded block, includes a migration or a seed, or records a version; a  *)
(* line that does none of this is a comment.                               *)
(***************************************************************************)
EXTENDS Arms

LockSchemaVersion == 1
Malformed == 0             \* a checksum that is not 64 hexadecimal digits
BaselineLastVersion == 16
ValidationRequiredFrom == 17

-----------------------------------------------------------------------------
(* The policy. Each check gives the set of what it objects to.             *)

Name(m) == <<m.version, m.description>>
VersionOf(m) == IF m.version = None THEN 0 ELSE m.version

\* The migrations in the order of their file names.
ReadMigrations(files) ==
    LET before(m, n) == \/ VersionOf(m) < VersionOf(n)
                        \/ VersionOf(m) = VersionOf(n) /\ m.description < n.description
    IN  InOrder(files, before)

ShippedVersions(migrations) == [i \in DOMAIN migrations |-> VersionOf(migrations[i])]
Names(migrations) == {Name(migrations[i]) : i \in DOMAIN migrations}

CheckNamesAndVersions(migrations) ==
    LET named == {i \in DOMAIN migrations : migrations[i].version # None /\ migrations[i].lowercase}
    IN  {<<"name", i>> : i \in DOMAIN migrations \ named}
        \union {<<"duplicated", j>> : j \in {k \in named : \E i \in named : i < k /\ VersionOf(migrations[i]) = VersionOf(migrations[k])}}

\* Of two entries for one file the later counts.
LockedBy(lock, name) ==
    LET entries == {i \in DOMAIN lock.entries : lock.entries[i].file = name}
    IN  IF entries = {} THEN None ELSE lock.entries[CHOOSE i \in entries : \A j \in entries : j <= i].sha256

CheckLock(migrations, lock) ==
    LET locked == {lock.entries[i].file : i \in DOMAIN lock.entries}
        sha(i) == LockedBy(lock, Name(migrations[i]))
        held == {i \in DOMAIN migrations : sha(i) # None}
    IN  {<<"unlocked", n>> : n \in Names(migrations) \ locked}
        \union {<<"stale lock", n>> : n \in locked \ Names(migrations)}
        \union {<<"malformed", i>> : i \in {j \in held : sha(j) = Malformed}}
        \union {<<"checksum", i>> : i \in {j \in held : sha(j) # Malformed /\ sha(j) # migrations[j].sha256}}

CheckTransactions(migrations) ==
    {<<"transaction", i>> : i \in {j \in DOMAIN migrations : ~(migrations[j].begins /\ migrations[j].commits)}}

\* The lines of a kind that are not comments.
Directives(installer, kind) ==
    Picked(installer, {i \in DOMAIN installer : installer[i].kind = kind /\ ~installer[i].comment})
Positions(installer, name) ==
    {i \in DOMAIN installer : installer[i].kind = "ir" /\ ~installer[i].comment /\ installer[i].of = name}

CheckIncludes(migrations, installer) ==
    LET at(i) == Positions(installer, Name(migrations[i]))
        once == {i \in DOMAIN migrations : Cardinality(at(i)) = 1}
        included == Directives(installer, "ir")
    IN  {<<"included", i>> : i \in DOMAIN migrations \ once}
        \union {<<"order", j>> : j \in {k \in once : \E i \in once :
                    /\ i < k /\ ~\E between \in once : i < between /\ between < k
                    /\ \E p \in at(i), q \in at(k) : q <= p}}
        \union {<<"unknown", n>> : n \in {included[i].of : i \in DOMAIN included} \ Names(migrations)}

RecordedVersions(installer) ==
    LET recorded == Directives(installer, "insert")
    IN  [i \in DOMAIN recorded |-> recorded[i].of]

\* Fault: only what the installer includes is compared.
CheckInstaller_includes(migrations, installer) == CheckIncludes(migrations, installer)

CheckInstaller(migrations, installer) ==
    CheckIncludes(migrations, installer)
    \union (IF RecordedVersions(installer) = ShippedVersions(migrations) THEN {} ELSE {<<"recorded", 0>>})

CheckValidations(migrations, companions) ==
    {<<"companion", i>> : i \in {j \in DOMAIN migrations : /\ VersionOf(migrations[j]) >= ValidationRequiredFrom
                                                           /\ VersionOf(migrations[j]) \notin companions}}

\* expected_versions of the history validation, None when it declares none.
CheckHistoryLedger(migrations, declared) ==
    IF declared = ShippedVersions(migrations) THEN {} ELSE {<<"ledger", 0>>}

CheckSquawkExclusions(migrations, excluded) ==
    IF excluded = {Name(migrations[i]) : i \in {j \in DOMAIN migrations : VersionOf(migrations[j]) <= BaselineLastVersion}}
    THEN {} ELSE {<<"exclusions", 0>>}

\* check: a lock of another schema ends it before it looks at anything.
CheckHistory(r) ==
    LET migrations == ReadMigrations(r.files)
    IN  IF r.lock.schema # LockSchemaVersion THEN {<<"unsupported", r.lock.schema>>}
        ELSE CheckNamesAndVersions(migrations) \union CheckLock(migrations, r.lock)
             \union CheckTransactions(migrations) \union CheckInstaller(migrations, r.installer)
             \union CheckValidations(migrations, r.companions)
             \union CheckHistoryLedger(migrations, r.declared) \union CheckSquawkExclusions(migrations, r.excluded)

-----------------------------------------------------------------------------
(* psql on the installer. A database is the migrations its schema has, in  *)
(* the order they were applied, the versions of the history table and the  *)
(* seeds it has the rows of.                                               *)

Database(schema, ledger, seeded) ==
    [schema |-> schema, ledger |-> ledger, seeded |-> seeded, apply |-> TRUE, failed |-> FALSE]

Applied(db, name) == \E i \in DOMAIN db.schema : db.schema[i] = name

\* Every migration of the schema is in the history.
FullyRecorded(db) == \A i \in DOMAIN db.schema : db.schema[i][1] \in db.ledger

\* A migration is applied to a database that has not got it and that has the
\* rows it refers to; most are one-time DDL, so that none runs twice.
Applicable(r, db, name) ==
    ~Applied(db, name) /\ \E m \in r.files : Name(m) = name /\ m.seeds \subseteq db.seeded

\* A seed fills tables that are there, and does so again on every run.
Seedable(r, db, seed) == \A name \in r.needs[seed] : Applied(db, name)

\* One line: the version is the key of the history; ON_ERROR_STOP ends the session.
Execute(r, db, line) ==
    IF db.failed \/ line.comment THEN db
    ELSE CASE line.kind = "if" -> [db EXCEPT !.apply = line.of \notin db.ledger]
           [] line.kind = "endif" -> [db EXCEPT !.apply = TRUE]
           [] db.apply /\ line.kind = "ir" ->
                IF Applicable(r, db, line.of) THEN [db EXCEPT !.schema = Append(@, line.of)] ELSE [db EXCEPT !.failed = TRUE]
           [] db.apply /\ line.kind = "seed" ->
                IF Seedable(r, db, line.of) THEN [db EXCEPT !.seeded = @ \union {line.of}] ELSE [db EXCEPT !.failed = TRUE]
           [] db.apply /\ line.kind = "insert" ->
                IF line.of \in db.ledger THEN [db EXCEPT !.failed = TRUE]
                ELSE [db EXCEPT !.ledger = @ \union {line.of}]
           [] OTHER -> db

\* A session: what it has made of a database after each line.
Session(r, db) ==
    LET after[n \in 0..Len(r.installer)] ==
            IF n = 0 THEN Database(db.schema, db.ledger, db.seeded) ELSE Execute(r, after[n - 1], r.installer[n])
    IN  after

Install(r, db) == Session(r, db)[Len(r.installer)]

\* Line n includes a migration that is not one transaction, whatever lines its
\* file has.
Divisible(r, n) ==
    /\ n \in DOMAIN r.installer /\ r.installer[n].kind = "ir" /\ ~r.installer[n].comment
    /\ \E m \in r.files : Name(m) = r.installer[n].of /\ ~m.whole

\* A session that ends while it executes line n: a statement or a transaction
\* takes effect or not; of a migration that is neither a part stays, which
\* stands in its own way like all of it.
CutOff(r, db, n) == Session(r, db)[IF Divisible(r, n) THEN n ELSE n - 1]

\* 000_migration_history_validation.
Validates(r, db) ==
    LET precedes(v, w) == v < w
    IN  r.declared # None /\ r.declared = InOrder(db.ledger, precedes)

-----------------------------------------------------------------------------
(* The form of install.sql, which the policy check does not ask for: a     *)
(* migration and its record stand in a block that is guarded by the        *)
(* version that is recorded; seeds stand between blocks, after the         *)
(* migrations they need and before those that need them.                   *)

Block(installer, guard, ir, insert, end) ==
    /\ guard < ir /\ ir < insert /\ insert < end
    /\ installer[guard].kind = "if" /\ installer[ir].kind = "ir"
    /\ installer[insert].kind = "insert" /\ installer[end].kind = "endif"
    /\ installer[guard].of = installer[insert].of
    /\ \A l \in guard..end : installer[l].comment <=> l \notin {guard, ir, insert, end}

Blocks(installer) ==
    \A l \in DOMAIN installer : installer[l].comment \/ installer[l].kind = "seed" \/
        \E guard, ir, insert, end \in DOMAIN installer :
            l \in {guard, ir, insert, end} /\ Block(installer, guard, ir, insert, end)

\* Some line before line l is of a kind and of a name.
Preceded(installer, l, kind, of) ==
    \E i \in DOMAIN installer : i < l /\ installer[i].kind = kind /\ ~installer[i].comment /\ installer[i].of = of

SeedsInPlace(r) ==
    /\ \A l \in DOMAIN r.installer : r.installer[l].kind = "seed" /\ ~r.installer[l].comment =>
            \A name \in r.needs[r.installer[l].of] : Preceded(r.installer, l, "ir", name)
    /\ \A m \in r.files : \A seed \in m.seeds, l \in Positions(r.installer, Name(m)) :
            Preceded(r.installer, l, "seed", seed)

WellFormed(r) == Blocks(r.installer) /\ SeedsInPlace(r)
=============================================================================
