# TLA+ verification of the aircraft API

This directory holds TLA+ models of this repository. Most of them are about
parts whose correctness depends on the order of steps of several actors: import
processes, parser threads, curators, operators, HTTP requests and a shutdown
that share a PostgreSQL database, a pool or an in-memory store. One group is
about decisions that keep no state and are hard for another reason: they have
many inputs, and something else relies on their answer. TLC checks the models
on small instances and TLAPS proves every safety property they check, of a state
machine or of a decision, for every instance.

Run everything from this directory: `tlc -workers 2 -config X.cfg M` checks the
configuration `X.cfg` of the module `M` (`PROJECT.json` lists the pairs),
`tlapm M_proofs.tla` checks the proofs about the module `M`.

## 1. Inventory

| Component | State | Operations | Shared with | What is hard about it | What makes it correct |
|---|---|---|---|---|---|
| Import use case and run audit (`aircraft_app/services/ingestion.rs`, `aircraft_db/.../ingestion_repository.rs`) | `ingest_runs`, `ingest_run_attempts`, `staged_aircraft`, one advisory lock per run identity, one long transaction per process | `start_import`, `stage_and_promote`, `refresh_read_models`, `mark_succeeded`, `commit`, `rollback`, `mark_failed`, `record_validation_failure` | other CLI processes, over PostgreSQL | the lock and the audit live on two connections; crashes; commits whose answer is lost; late failure reports; retries | an artifact is stored whole and once; what is reported is durable; success is final; the history of attempts is not rewritten |
| Ingestion CLI, adapter, record stream (`apps/ingest/main.rs`, `planephd.rs`, `artifact.rs`) | a captured file, a bounded channel, a parser thread | `validate`, `import`, `curate ...`; send, receive, close | the import | the death of the parser and the end of the stream look alike; the file is read twice | a truncated stream is never a success; every command ends |
| Database pool and import permits (`pool.rs`, `ingestion_repository.rs`) | connections, a semaphore | acquire, release | everything | an import needs two connections at once | nobody waits for a connection that only waiters hold |
| Promotion (`ingestion_repository.rs`) | families, models, variants, engines, documents, snapshots, measurements, assertions | the statements of `stage_and_promote` | other imports, curators, readers | upserts of several documents meet in one row; slugs are looked up before others commit; rows may be curated already | rows consistent, slugs unique, earlier market values stand, nothing undecided is served |
| Curation (`curation_repository.rs`, `services/curation.rs`) | assertion status, `is_canonical`, curation flags, refresh requests | `decide`, publication, `refresh_and_settle`, `pending` | other curators, imports | READ COMMITTED: a decision locks one field and reads the others; the view is rebuilt after the commit and may fail | no undecided field is published; one snapshot per variant; a stale view is on record |
| Read model (migrations 016, 020) | materialized views | `refresh_search_matviews` | imports, curators | a rebuild reads before it waits for the view's lock | shows what is canonical, or is known to be stale |
| Rate limiter (`rate_limit.rs`, `routes/mod.rs`) | a bounded map of token buckets | `admit` | all requests of a replica | instants read outside the lock; sweeping; capping; rounding to milliseconds; tier changes | rate kept, nobody refused unfairly, store bounded |
| HTTP perimeter and shutdown (`limits.rs`, `shutdown.rs`, `apps/server`) | permits, in-flight counter, phase, buffers | admit, buffer, deadline, drain, cancel, flush | all requests | futures dropped at any await; a deadline races an answer; drain races new requests and probes | permits return; the count is right; the drain ends and says truthfully how |
| Authentication and issuance (`authentication*.rs`, `credential*.rs`) | credentials, principals, scope grants | issue, revoke, disable, look up, judge | requests, operators | rows change between lookup and handler; failed lookups; lost commits | who is served was authorized; who is refused is told why; a handed secret works |
| Catalog reads, pagination, reference catalogs | cursors, entity tags | page, conditional read | concurrent imports | keyset pages over changing rows; tags of changing tables | no row is skipped or repeated; a 304 is true |
| Normalization, domain values | none | pure functions | | unexpected shapes, units and digits; what is kept must also have a place in the tables | what is lost in silence is known; what is stored is read back |
| Configuration | none | layers, validation, construction | | limits at zero and at the ceiling of a library | what is accepted starts |
| Problem documents, correlation, OpenAPI | none | answers, document | | layers add answers of their own | every answer is published |
| Migrations and installer (`xtask/migrations.rs`, `install.sql`) | files, schema, history table | check, install | installers | four lists kept in step by hand; seeds that run every time; an install cut off | migrations apply in order; an accepted history installs or stops loudly |
| Logging, repository automation, retired template crates | | | | | |

`PROJECT.json` lists every component with its status and every hazard with its
line and the property that covers it.

### How the components interact

An `aircraft-ingest import` process captures an artifact and preflights it, then
`IngestionService::import` drives `SqlxIngestionStore`: a transaction on one
connection takes the advisory lock and stays open for the whole import; the
audit rows are written on a second connection so that they outlive a rollback;
a parser thread reads the file again and hands its records over a channel.
Normalization decides what a record becomes, promotion writes pending
assertions and non-canonical rows. A curator's decision is one transaction,
followed by a rebuild of the views in another; a refresh request row ties the two
together. An import also rebuilds the views, inside its own transaction. HTTP
requests only read. They pass correlation, the admission semaphore, the
in-flight count, the deadline and the body limit, then authentication, the rate
limiter and the scope of the route.

## 2. Modules

| Module | Models | State and actions |
|---|---|---|
| `IngestRuns` | the import use case over the run audit | one action per statement group of the store that another process can observe; the client (`pc`, `att`, `staged`) and the server side of its transaction (`session`) are separate, because a client can die while its transaction, even its commit, lives on |
| `ImportLedger` | the promise of the import: an artifact is stored whole, once, and acknowledged only then | `Import`, `Acknowledge`, `Forget` |
| `ImportTask` | the import command from the captured file to the exit code, with the parser thread, the channel, the pool and the import gate | `at[t]` is the await a task is in, one action per await; `Produce`, `Parsed`, `SendError`, `ConsumerClosed`, `Panics` are the thread |
| `Promotion` | `stage_and_promote`, one action per statement | `db` are the committed rows by unique key, `mine[t]` those of an open import, which are its row locks |
| `Catalog` | `GET /v1/models` page by page, composed with `Promotion` | `walk[c]` is a client's scan, `lasting` what matched throughout |
| `Curation` | decisions, publication, refresh requests, an import that lands on curated entities | the open transaction of a decision is `target`, `verdict`, `flag`; its commit applies them; a refresh is `ReadOutstanding`, `StartRebuild`, `InstallRebuilt`, `Settle` |
| `RateLimiter` | `RateLimiter::admit` called by concurrent requests | `Arrive` reads tier and clock, `Admit` is one call under the lock with one of three results |
| `TokenBucket` | the promise of the limiter: burst and rate | `Pass`, `Spend` |
| `Perimeter` | the layers of the router, the shutdown state, `serve` and the start of the server | `stage[r]` is how far the future of a request has come; it can be dropped at every await |
| `Access` | issuance, authentication and route policy over rows that operators change | `row`, `disabled`, `scopes`; `allowed` and `denied` are histories |
| `Normalization`, `Measurements`, `Settings`, `Contract`, `References`, `History` | pure decisions: normalizing a record, domain values, configuration, published answers, tags and cursors, the migration policy and what psql does with the installer | operators only |
| `Arms` | the first of a list of early returns that applies, a set in order, the places of a sequence that are kept | shared by those |
| `Rules` | a machine that asks one such decision about one input | `asked`, `told`; one action per decision |
| `IngestRuns_proofs`, `ImportTask_proofs`, `Catalog_proofs`, `Curation_proofs`, `RateLimiter_proofs`, `Perimeter_proofs`, `Access_proofs`, `Rules_proofs` | theorems about the module of the name; `Catalog_proofs` is also about `Promotion`, `Rules_proofs` about the modules of decisions | |
| `MC*` | instances for TLC | values of the constants and symmetry sets |

Definitions named as faults in comments (`StartUnlocked`, `Permits_all`,
`RefilledUncapped`, ...) are wrong variants of the definition that follows
them. No specification uses them; putting one in the place of the original shows
that a property notices the error.

### Modelling decisions

*Import.* An artifact is a run identity (source, content hash, parser, parser
version). A session goes `none`, `open`, `marked` (after the updates of
`mark_succeeded`, whose row locks make others wait), `committing`, `committed`.
`ServerCommit` is separate from `SendCommit` and `CommitSucceeds`, so the answer
of a commit can be lost. `StartAuditUnknown` does the same for the audit
transaction. `rollback` may fail, which the code only logs. The record reader
reparses the artifact, so a stream may be shorter or longer than preflight said.
`staged_aircraft` is unique per run and source record key; with the content
addressed by the identity, the same keys come again, so an import over the rows
of a committed one fails at its first record.

*Import command.* `ImportTask` is about the resources around the same import, so
the audit rows, which `IngestRuns` has, are left out. Tasks share one store, as
its type allows and the integration tests do; the command itself makes one. A
document is its records, each with key, warnings and whether it has an error,
and whether the JSON is cut off. The second pass may read any document. Any
document can fail its preflight, which reopens and reads the captured file, and
such a failure is audited like an invalid document.

*Promotion.* A statement sees committed rows and those of its import, and waits
for a row another open import has written; a wait that closes a circle ends in
an abort, as PostgreSQL ends it. `Slugify` is a function on the names of an
instance, which makes two names collide. Manufacturers are told apart by the upper
case of their names, as the lookup of an organization compares them.

*Catalog reads.* A page is the set of its rows: within a page the order is that of
the slugs. The filter of a scan is the one its cursor was issued for; a client
that asks for another family with that cursor is refused, and may come back to
the one it had.

*Curation.* A statement at READ COMMITTED sees what was committed when it started
and the writes of its own transaction (`Seen`). A decision locks the assertions of
one field (`FieldLocked`). Setting `is_canonical` waits for the row and, when
publishing a snapshot, for the unique index entry of its variant. `SkipFlag` is
the `IS DISTINCT FROM` of the update: it takes no lock. The market entities of an
instance are snapshots of one variant and kind.

*Rate limiter.* Units are thousandths of a token in the code; the instance uses 2
units per token and 2 instants per millisecond, so that rounding, capping and the
remainder kept in `last` all occur within a few steps. `fluid`, `admitted` and
`served` are history variables. `Moving` principals change their tier and their
requests may reach the store out of order; the promises per principal are about
the others, who share the store with them.

*Perimeter.* Time is left out: a timeout may fire at any moment after it was
armed. A body is a number of chunks. Hyper holds a body to the length it declares.

*Access.* A token is its key and secret and a digest is the token. Nobody presents
a token that was drawn and not handed out: this is what the random source
promises. A stored digest can be damaged, which is about one credential, and a
grant, which is about all credentials of its principal.

*Rules.* Inputs are described by what the code tells apart. A cell of a record is
its JSON type, its number if it parses as one, whether something follows it, and
its unit; a whole number is kept if it is an `i32` (TLC's own integers end there,
so that only the proofs meet others); an origin is whether it parses, has a host and so on. Decimal texts,
slugs and paths, whose characters are what the code looks at, are sequences of
characters. SHA-256 is injective on what is compared.

*Migration history.* The advisory lock makes installers take turns, so an install
is a sequence of sessions, each of which may be cut off. A session is what it has
made of the database after each of its lines: the migrations of the schema in the
order they were applied, the versions of the history, and the seeds. A migration is
applied once and needs the rows of its seeds; a seed stands outside the blocks, is
executed by every session and needs the tables of its migrations. A session that
ends in a migration of one transaction leaves nothing of it, one that ends in
another may leave it all (`Divisible`): the policy check asks for lines that say
`BEGIN;` and `COMMIT;`, not for one transaction from the first to the last.

The policy check does not look at guards or seeds. It accepts an installer without
guards, with the guard of another version, or with a record outside of its block.
The model has such installers; nothing is assumed of the accepted ones.
`WellFormed` says what `database/install.sql` looks like: lines are in blocks of a
guard for the version that is recorded, a migration, its record and an end, and
seeds stand after what they need and before what needs them. The second half of
`AcceptedHistoryInstalls` is about installers of that form, its first half about all.

## 3. Runs

| Run | Instance | Shows |
|---|---|---|
| `import` | 2 processes, 1 artifact, 2 records, 3 attempts, fairness, `KeepsLock` | `AllOrNothing`, `OneOpenAttempt`, `ReportIsDurable`, `OneSuccessfulAttempt`, `SuccessIsFinal`, `HistoryIsFinal`, `ImplementsLedger` and `LockIsReleased`, under crashes, aborts, lost answers and retries |
| `import_lostlock` | the same with 1 record, without `KeepsLock` | violates `SuccessIsFinal` |
| `curation` | 2 curators, 2 snapshots of a variant of which one has two fields, and a value for the other that arrives with an import, rival measurements, 2 requests, `FreshSnapshot` | `StaleIsRecorded`, `OneSnapshotPublished`, `MeasurementFollowsDecision`, `PublishedIsDecided` |
| `curation_units` | 2 curators, a snapshot of two fields, no import | violates `UnitPublication` |
| `curation_lateimport` | 1 curator and an import | violates `UnitPublication` |
| `limiter` | 3 principals of which one moves, 2 requests, 2 tiers, room for 2 buckets, 5 instants | `StoreBounded`, `RefusalIsFair`, `EvictionInvisible`, `ImplementsTokenBucket` |
| `perimeter_shutdown` | 2 requests for 1 permit, 10 kinds of input, body limit 1, from the start of the process to its end | `LoadIsAccounted`, `ReadyIsCurrent`, `GracefulStop`, `PermitReturns`, `ShutdownEnds` |
| `import_task` | 2 tasks, 2 connections, channel of 1, 4 documents | `StoredIsPreflighted`, `NoPoolDeadlock`, `ResourcesReturned`, `CommandEnds` |
| `access` | 1 request, 2 issuers, 2 keys, 2 secrets, 2 principals of which 1 is enrolled, 3 policies | `ServedIsAuthorized`, `RefusalHasCause`, `HandedIsStored` |
| `catalog` | 3 imports of 4 batches with colliding slugs, makers, engines and days, 3 models, 1 client with pages of 1 | `VariantSlugsUnique`, `PromotedIsConsistent`, `ScanIsComplete`, `MarketStands` |
| `rules` | see below | `SilentLossIsKnown`, `MeasurementsAreComparable`, `StoredValuesReadBack`, `AcceptedSettingsServe`, `AnswersArePublished`, `NotModifiedIsCurrent`, `CursorsAreBound`, `AcceptedHistoryInstalls` |
| `normalization_clean` | the same | violates `CleanRecordIsInsertable` |

`SuccessIsFinal` also passes, under the assumption that makes it true, and
`PublishedIsDecided` is what is left of `UnitPublication` with several curators and
late imports: each pair shows what the property depends on. The inductive invariants of section 5 were
checked on the same instances before they were proved.

Deadlock is checked except in `access`, `catalog` and where all imports and
clients of an instance may simply be over. The type invariants of the modules
hold on the same instances; they are not listed with the runs, and they are
proved as parts of the inductive invariants.

### Why the bounds are enough

*Import.* Identities do not interact: every guard and update is about one
identity. Two processes are needed for a race. Two records make a partial import
possible. Three attempts (`MaxAttempts`) allow one that is superseded, one that
fails late and one that succeeds. The theorems remove these bounds.

*Import command.* `ChannelBound` 1 makes the thread wait after every record, and a
document of two records is longer than that. `MaxConnections` 2 is the least the
configuration accepts and the tightest: one permit, and a validation audit that
takes a connection without one.

*Catalog.* Three imports are a first document, a second that meets its rows, and a
third that is open at the same time. Pages of one row put a cursor between any
two models, and three models let a scan stop between two of them, ask for another
family, and come back.

*Curation.* Decisions interact through one field, one unit or one index entry, so
two curators exhibit every pairwise conflict; `MaxRequests` 2 allows a request
that arrives during a rebuild for another.

*Limiter.* One bucket fewer than there are principals forces sweeps and
saturation; five instants (`MaxClock`) are two milliseconds, enough to empty and
refill either tier.

*Perimeter.* With one permit (`MaxConcurrent`) the second request is shed or takes
over a returned permit; `MaxBody` 1 has bodies below, at and above the limit. The
inputs are one for every way through the layers.

*Access.* One request sees every order of changes around its own steps; requests
do not write. Two issuers can draw the same key.

*Rules.* Records are a full one with at most two of about 290 changes, one per kind
of cell and place, so that two odd fields meet (two units of one metric, a range
and a year). Decimal texts have up to five characters of six, with
`MaxIntegerDigits` 3 and `MaxFractionalDigits` 2 for PostgreSQL's 131072 and
16383. `MaxPermits` 300 and `MaxStatementMs` 30000 stand for ceilings far above
the defaults; settings are at 0, 1, the ceiling and above. `MaxInstance`,
`MaxCatalogRows` and `MaxValidators` are small enough to be passed;
`MaxCursorBytes` 1024 is the real one and `MaxSlugLength` 314 the longest slug
whose cursor fits. Requests differ from a good one in at most two ways.
Migration histories have three migrations around the version from which a
validation is required (16, 17, 18), with a seed after the first and one at the
end, consistent or with at most two oversights, some of which the policy check
does not notice: guards that are missing or of another version, seeds out of place,
and a migration that is not one transaction. Each is installed on every release and
cut off at every line.

### Assumptions that some results need

- `KeepsLock`: the connection that holds the advisory lock does not break between
  the check of `start_import` and the commit of its audit. Nothing in the code
  enforces it; `import_lostlock` shows what happens otherwise.
- `FreshSnapshot`: nothing is committed between the snapshot of a refresh and the
  moment it gets the view's lock (section 4 says what happens otherwise).
- `InOrder`: requests of a settled principal reach the limiter in the order of
  their instants.

The proofs show which properties need them (section 5).

### Fairness

- `IngestRuns`: a process that has not crashed takes its next step (weak fairness
  of `Proceed`): the pool sets `lock_timeout` and `statement_timeout` on every
  session, so no call blocks for ever, and the record stream is finite. The
  server resolves a transaction whose client is gone or awaits the answer of its
  commit. No command has to be issued, retried, or to succeed. A crash is never
  required either.
- `ImportTask`: every await of a started task ends, one way or another, for the
  same timeouts; a task at the import gate is served in turn, since a tokio
  semaphore is fair; the parser thread runs while it can.
- `Perimeter`: a deadline fires, a future that unwinds does so, and the timeouts of
  `serve` fire. Nothing is assumed of clients, handlers, the database or signals:
  a handler may hang for ever and the properties hold.

## 4. What the checks found

Each of the first four is a run that is expected to end in a violation, with the
sentence it contradicts quoted in `PROJECT.json`.

1. `import_lostlock`: `start_import` does not look at the lock's connection again
   before its audit; the audit of a process that lost its lock takes a run that
   has SUCCEEDED in the meantime back to IMPORTING. The rows remain, so no later
   attempt can succeed.
2. `curation_lateimport`: an import on the same day adds undecided fields to a
   published snapshot.
3. `curation_units`: a decision locks one field and reads the others. While a
   snapshot is not published a withdrawal writes no flag, so nothing makes a second
   curator wait who still reads the field accepted: it accepts the last field and
   publishes a snapshot one of whose fields is rejected.
4. `normalization_clean`: years from 1800 to 1899 and from 2101 to 2200, negative
   prices, counts, costs, power or occupants, and zero engines or overhaul times
   are normalized without a warning, and the database refuses them: one such value
   aborts the import of its artifact.

Other observations follow from the same models without a run of their own:

- Curation. The same interleaving of two acceptances leaves a complete snapshot
  unpublished. What does hold is that no field nobody decided is published with a
  snapshot it was asserted on before (`PublishedIsDecided`). A rebuild that waits
  for an import's view lock installs what it read before and closes its request
  (`StaleIsRecorded` fails without `FreshSnapshot`).
- Limiter. A request that read the clock, then waited while its principal's bucket
  was swept, starts a full bucket in the past and gains a token
  (`ImplementsTokenBucket` fails without `InOrder`). A full bucket of a small tier
  that is swept after its principal moved to a larger one comes back full, where a
  kept one would not (`EvictionInvisible` fails for a moving principal).
- Import. `rollback` releases the lock before `mark_failed`, so a retry in between
  records the attempt of a live process as terminated, and the late `mark_failed`
  sets the retry's run to FAILED until it succeeds; `mark_succeeded` leaves the
  run's failure code in place. A command whose import was committed exits with 3 or
  7 when its report cannot be written or rendered. `status` reads runs and
  attempts in two queries and can pair a run with attempts of a later moment. Two
  imports that promote the same rows in opposite orders can deadlock; PostgreSQL
  aborts one.
- Credentials. When the answer of the commit is lost, a row exists whose secret
  nobody has.
- Normalization and promotion. `src/docs/architecture/rust_ingestion_adapter.md:87-88`
  says that optional data that cannot become canonical produces a warning. Some does
  not: `promote_engine` returns at once for an engine without a model, with which
  horsepower, thrust, manufacturer and overhaul times are dropped
  (`ingestion_repository.rs:1001`); `promote_market` writes a listing count only
  beside a price (`ingestion_repository.rs:1067`); a title is only staged; unknown
  keys inside `engine` are not read; of the `performance.horsepower` and
  `performance.thrust` of a record only the number of engines is, and it, or a number
  of occupants, that does not parse is ignored. `SilentLossIsKnown` names these and
  shows that there are no others. Pounds of fuel against gallons are a weight unit that
  diverges, where a comment says none does; the code is right: the canonical value
  stays empty.
- Contract. The internal error that a broken invariant causes is published for no
  operation. A path that is not UTF-8 is refused by axum itself, as plain text.
  The cursor of a slug of 315 characters or more is longer than the service
  accepts.
- Settings. A statement timeout above 2147483 seconds is accepted and then refused
  by PostgreSQL at the first connection.
- Migrations. A session that ends between the COMMIT of a migration and the INSERT
  of its version, or inside a migration that is not one transaction, leaves it applied
  and not recorded. Every later install then stops at it with an error, having changed
  neither schema nor history: somebody has to repair the history by hand. The policy
  check looks neither at guards and seeds nor at block comments, so an installer
  without guards is accepted although it cannot be run twice.

## 5. Proofs

Each module of theorems proves an inductive invariant of its specification (it
holds initially, every action keeps it, one step per action) and derives the
properties from it. Nothing bounds the instances: sets, quotas, pool sizes, page
sizes, documents and batches are arbitrary.

| Module | Inductive invariant | Proved from it |
|---|---|---|
| `IngestRuns_proofs` | `FaultInv` of `Spec` | `TypeOK`, `AllOrNothing`, `OneOpenAttempt`, `ReportIsDurable`, `ImplementsLedger` |
| | `SteadyInv` of `SteadySpec` (`KeepsLock`) | `OneSuccessfulAttempt`, `SuccessIsFinal`, `HistoryIsFinal`, and that a committer owns its attempt and failures have codes |
| `ImportTask_proofs` | `ImportInv` | `StoredIsPreflighted`, `ImportedOnce`, `NoPoolDeadlock`, `ResourcesReturned` |
| `Catalog_proofs` | `RowInv /\ ControlInv` | `VariantSlugsUnique`, `PromotedIsConsistent`, `MarketStands` |
| | `FiniteInv /\ ScanInv` | `ScanIsComplete` |
| `Curation_proofs` | `CurationInv` | `MeasurementFollowsDecision`, `OneSnapshotPublished` |
| | `RecordInv` of `FreshSpec` | `StaleIsRecorded` |
| | `DecidedInv` | `PublishedIsDecided` |
| `RateLimiter_proofs` | `LimiterInv` | `StoreBounded`, `EvictionInvisible` |
| | `FluidInv` of `OrderedSpec` (`InOrder`) | `RefusalIsFair`, `ImplementsTokenBucket` |
| | `AccountInv` of `OrderedSpec` | `WithinRate` of `TokenBucket` |
| `Perimeter_proofs` | `PerimeterInv` | `LoadIsAccounted`, `ReadyIsCurrent`, `GracefulStop` |
| `Access_proofs` | `AccessInv` | `ServedIsAuthorized`, `RefusalHasCause`, `HandedIsStored` |
| `Rules_proofs` | `Decided` | `SilentLossIsKnown`, `MeasurementsAreComparable`, `StoredValuesReadBack`, `AcceptedSettingsServe`, `AnswersArePublished`, `NotModifiedIsCurrent`, `CursorsAreBound`, `AcceptedHistoryInstalls` |

### Why the properties are not inductive by themselves

*Import.* A commit may add to rows that exist unless `LockExclusive` (one
transaction per identity) and `SessionRows` (a session that has staged something
found no rows; one that marked its success staged exactly `Records`) exclude it.
`AttemptKnown` and `Unused` say that attempts are numbered without gaps and that a
process past `start_import` has one. The refinement maps commits to `Import`,
successful ends to `Acknowledge`, new commands and crashes to `Forget` and
everything else to stuttering. `SteadyInv` adds `AttemptOwned` (an attempt number
belongs to one process, so a late `mark_failed` cannot hit somebody else's
attempt), `CheckStillHolds` (the lock keeps the answer of `successful_report` true
until the audit: this is where `KeepsLock` is used), and `ImporterOwnsAttempt` and
`CommitterOwnsAttempt` (a live transaction owns the newest attempt).

*Import command.* What a task holds (`held`, `permit`, `locked`) is a function of the
await it is in. A permit holder uses at most two connections and anybody else one
at a time, and there are fewer permits than connections. The advisory lock of a
document keeps the answer of the check true until the commit, and a task that
commits has compared what it consumed with its preflight.

*Promotion.* The slug of a new variant is looked up among the rows an import can
see. `Guarded` is why that is enough: whoever gives a new variant the slug of its
model has written that model, and no two imports have a row (`RowsExclusive`); so
a variant that the import cannot see has another model's slug. `Standing` relates
what is written to what is committed: both `MarketStands` at the commit, and that
the slug of a stored variant never changes. `Progress` follows an import through
its batch: so many records have their price asserted and their engine counted.
`CountsStated` also says that the powerplant row of every counted record is there,
without which the first count of a row could not be told from a forgotten one.

*Catalog reads.* `Scan` says that what lasted is listed up to the cursor and still
matches past it. A page that is followed by another has a last row because
there are finitely many rows at any instant (`FiniteInv`): a nonempty finite set of
slugs has a least and a greatest member (`Least`, `Greatest`, by well-foundedness
of strict inclusion on finite sets).

*Curation.* A decision reads the assertions of its field before it writes; the lock
of the field keeps what it read true until its commit (`DecisionsStand`), and
the index entry of the variant keeps other publications out while one is open
(`IndexHeld`). A decision that is about to publish has read every field of the
snapshot as decided (`SawDecided`); a decision is never undone, only replaced by
another, so what it read may be stale but no field has become undecided. That is why
`PublishedIsDecided` holds where `UnitPublication` does not. `RecordInv` says what a refresh in progress has read and which
requests it may still settle.

*Rate limiter.* What is proved is arithmetic about the milliseconds rounded away. A
refill of e whole milliseconds moves `last` by what it pays for, so that what a
bucket holds together with what it has yet to be given (`Worth`) is kept. The
ideal bucket holds no more than that. Every step of the store is then a step of
the token bucket of the principal, or a stutter.

*Perimeter.* `LoadIsAccounted` relates two counters to the stages of all requests.
Every step moves at most one request in or out of the sets that are counted
(`StageCounts`).

*Access.* A request carries a projection of the tables from its lookup to its
judgement. The invariant does not say that the tables still say so, but that they
did at one instant since the request arrived (`Witnessed`).

*Decisions.* `Decided` says that an answer is the one of its question, which is
inductive at once; the work is in what the answer then says, for inputs of any
size. Most lemmas are about one decision each. Four arguments carry the rest:

- Values of a record are followed from their cell to what is kept of them, one
  lemma per kind of cell (`MeasureSays`, `CostSays` and their like): a cell that
  states something ends in a kept value or in an issue of its own path, and the
  issues of the parts are issues of the record. What is kept is then compared with
  what promotion writes: it is written, or it is one of the values that
  `SilentLossIsKnown` names.
- A number that `parse_numeric` keeps is cut at its point. Its digits before and
  after the point are what a cast has; printing a cast makes a text whose first
  point is where the cast says, so `DecimalString` reads those digits back.
- A finite set of integers, or of rows under the order of a statement, has one
  enumeration in its order (`Ascent`, `Enumerates`). This is what makes a catalog
  whole (`CatalogIsWhole`), and what makes the versions recorded, declared and
  shipped the same sequence when they are the same set.
- An accepted installer includes each migration once and in order, although the
  check only compares neighbouring includes. That alone makes the schema climb: what
  a session has applied is an ascending selection of the migrations (`Climbs`),
  whatever guards there are, because a migration that is applied again stops the
  session. An installer that is also `WellFormed` has the block of each migration, one
  after the other (`Layout`), with its seeds where they are needed. The invariant of
  a session (`Standing`, `Progress`, `Holding`) says after each line how many
  migrations the schema has, how many versions the history has, which seeds have
  been executed, and whether the session is inside of a block that it applies. The two
  numbers differ nowhere but between a migration and its record (`CutLeaves`). If they
  agree the next session ends with all of both (`InstallEnds`); if not it comes to the
  inclusion of the migration without a record, applies it again, and stops there
  (`InstallStops`).

### What the theorems assume

Of the constants:

- `RecordsAssumption`, `BatchAssumption` (preflight refuses an empty artifact),
  `RecordAssumption` (a normalized production range is in order),
  `MaxAttemptsAssumption`, `MaxRequestsAssumption`, `LimitAssumption`,
  `QuotaAssumption`, `ScaleAssumption`, `BoundAssumption` (the numbers are positive
  as the settings require);
- `RequestAssumption` and `TaskAssumption`: the requests and commands of an
  instance are finitely many, so that they can be counted;
- `InputAssumption` (hyper holds a body to the length it declares),
  `DocumentAssumption`, `SlugAssumption`, `EnrolledAssumption`,
  `PolicyAssumption`, `AssertionAssumption`, `MovingAssumption`: the types of the
  data, in particular that slugs are ordered as numbers are and which principals
  have a row;
- `RowAssumption`: snapshots and assertions are rows of different tables, and a
  field of a snapshot is never stored as a measurement;
- `NoneAssumption`, `NullAssumption`: the absent value is none of the present ones;
- of the inputs of `Rules`, what their types and keys say and nothing of their
  size: `RecordsAssumption` (a record has its sections, what it holds are cells,
  its images are a list), `TextsAssumption` and `ProblemsAssumption` (texts are
  sequences of characters), `StoredAssumption` (a stored condition satisfies the
  checks of its column in migration 008), `TablesAssumption` (a catalog is finite
  and the code is its key), `SourcesAssumption` (settings are numbers under known
  names; an origin spelled as a browser spells it can be a header),
  `CursorsAssumption`, `ClientTokensAssumption`, and `RepositoriesAssumption` (a
  file name is that of one file, versions are numbers, an installer is a sequence of
  lines; nothing about its form).

TLC evaluates all of these on the instances of the runs. Two theorems have a
hypothesis of their own. `CursorsBound` asks that the cursor of the longest slug is
no longer than what the service accepts, `TokenLength(MaxSlugLength) <=
MaxCursorBytes`: the schema does not bound slugs, and without the hypothesis the
property fails (section 4). `SilentLossIsNamed` asks that the absent value is no record
(`NoneIsNoRecord`), as `None` of an `Option` is not; it speaks of all records of
three shapes, which are no set that TLC could enumerate.

Of the behaviour: `KeepsLock`, `FreshSnapshot` and `InOrder`, each for the
theorems named above and no others (section 3). No theorem assumes fairness.

### What is only model-checked

- The liveness properties `LockIsReleased`, `CommandEnds`, `PermitReturns` and
  `ShutdownEnds`: fairness is out of the prover's reach.

No safety property of a passing run is left to the model checker alone.

### What the proofs changed

`ScanIsComplete` could not be proved as it stood: its history began anew when a
client changed the family in the middle of a scan, and so demanded rows of a
family that was asked for and left again. The history now follows the filter the
pages have in common, and the instance has the third model that is needed to see
the difference. `CountsStated`, `Worth` and `DecisionsStand` are strengthenings that
failed attempts asked for; each was checked by TLC before it was proved.

`Execute`, one line of the installer, was a CASE whose guards could hold together:
TLC takes the first that does, but the language leaves open which, and the proof
could not tell what a failed session does with a comment. Its cases now exclude
each other. `StoredAssumption` came from a condition that no row can have, which
made the property about conditions false for arbitrary rows: the vocabulary of the
service must agree with the check of the column, and both are now written down.
`CursorsBound` could be proved for short slugs only, and is stated so. `WellFormed`
is what remained of the installer after everything the policy check looks at had
been used; what can be proved without it, the order of the migrations, is stated
without it. Texts, directives and sessions are written with `InOrder`, `Picked` and
a recursive function in place of sorting, filtering and folding operators of the
library, which have no definition a proof could use.

## 6. Plan

Everything of section 1 that has a row in section 2 is modelled, and every safety
property is proved. What is left is to show that `Perimeter` implements a counter
of permits, and `Catalog` a catalog that promotes each artifact in one step: two
more abstract specifications in the manner of `ImportLedger` and `TokenBucket`.

## 7. Not modelled

- The SQL of the views and of the migrations: the models only tell which fields
  are served and which migrations are applied.
- Logging, the rendering of reports and problem documents, OpenAPI schemas: wording
  and layout, on which no property here depends. `validate`, `status` and the
  listings only read.
- `list_families` and the family reader: no route reaches them. `ApiJson` neither.
- How source texts are spelled (keywords of units, costs and classifications):
  the models tell which keyword a text has, not how it is found.
- Repository automation other than the migration policy (boundaries, dependency
  pins, snapshots), test support and archived crates: not part of the running
  system.
