------------------------------- MODULE Rules --------------------------------
(***************************************************************************)
(* The decisions of the program that keep no state: each action asks one   *)
(* of them about one input, and the properties relate the answer to what   *)
(* the rest of the program, the database or the client does with it.       *)
(***************************************************************************)
EXTENDS Normalization, Measurements, Settings, Contract, References, History

CONSTANTS BaseRecord, Changes, Changed(_, _),    \* a record, and changes to it
          Texts, Spellings, StoredMeasurements, Configurations, IngestConfigurations,
          Requests, Paths, RequestIds, Tables, Headers, ClientTokens, Families,
          Repositories

\* What the inputs are: an absent value is no other, a slug's length is no mark.
ASSUME CursorsAssumption ==
    /\ NotSlug \notin Nat
    /\ \A last \in 1..MaxSlugLength, family \in Families : NextCursor(last, family).payload # None
ASSUME ClientTokensAssumption == \A t \in ClientTokens : t.length \in Nat
ASSUME TextsAssumption == Texts \subseteq Seq(STRING) /\ Spellings \subseteq Seq(STRING)
ASSUME ProblemsAssumption == Paths \subseteq Seq(STRING) /\ RequestIds \subseteq Seq(STRING)

\* A condition that is stored satisfies the checks of its column.
ASSUME StoredAssumption ==
    \A row \in StoredMeasurements : /\ row.power \in StoredPowerSettings \union {None}
                                    /\ row.surface \in StoredSurfaceTypes \union {None}

\* The code is the key of its table.
ASSUME TablesAssumption ==
    \A rows \in Tables : /\ IsFiniteSet(rows) /\ \A r \in rows : r.code \in Int /\ r.sort \in Int /\ r.active \in BOOLEAN
                         /\ \A r, s \in rows : r.code = s.code => r = s

\* A source has settings it knows and a number for each; the spelling of an
\* origin that a browser would give can be the value of a header.
Source(given) == DOMAIN given \subseteq DOMAIN HttpDefaults /\ \A k \in DOMAIN given : given[k] \in Nat
Refusals == {"wildcard", "blank", "not a URL", "no host", "more than an origin", "not the browser's spelling",
             "cors_allowed_origins", "max_input_bytes", "lock_timeout_seconds", "statement_timeout_seconds",
             "max_connections", "host", "port", "max_request_body_bytes", "request_timeout_seconds",
             "max_concurrent_requests", "rate_limit_capacity", "rate_limit_refill_per_second", "rate_limit_max_buckets"}
ASSUME SourcesAssumption ==
    /\ None \notin Refusals
    /\ \A c \in Configurations :
        /\ Source(c.env) /\ Source(c.file) /\ Source(c.defaults)
        /\ \A i \in DOMAIN c.tiers : c.tiers[i] # None => c.tiers[i].capacity \in Nat /\ c.tiers[i].refill \in Nat
        /\ c.origins # <<None>> => /\ c.origins \in Seq({c.origins[i] : i \in DOMAIN c.origins})
                                   /\ \A i \in DOMAIN c.origins : c.origins[i].canonical => c.origins[i].header
    /\ \A g \in IngestConfigurations : g.max_connections \in Nat

\* A record has its sections; what they and the record hold are cells, and the
\* images are a list.
Sections == {"performance", "weights", "engine", "ownership_costs"}
Formed(raw) ==
    /\ \A f \in DOMAIN raw.top : raw.top[f] # None
    /\ Sections \subseteq DOMAIN raw.nested
    /\ \A s \in Sections : raw.nested[s].json = "object" =>
            \A f \in DOMAIN raw.nested[s].entries : raw.nested[s].entries[f] # None
    /\ raw.images.json = "array" => raw.images.items \in Seq({raw.images.items[i] : i \in DOMAIN raw.images.items})
ASSUME RecordsAssumption ==
    /\ None \notin Int /\ None \notin BOOLEAN /\ None \notin {"http", "relative", "IN_PRODUCTION", "DISCONTINUED"}
    /\ \A a, b \in Changes : Formed(Changed(Changed(BaseRecord, a), b))

\* A name is that of one file.
ASSUME RepositoriesAssumption ==
    /\ None \notin Seq(Int)
    /\ \A r \in Repositories :
        /\ IsFiniteSet(r.files) /\ \A m \in r.files : m.version \in Nat \union {None} /\ m.description \in Int
        /\ \A m, n \in r.files : VersionOf(m) = VersionOf(n) /\ m.description = n.description => m = n
        /\ Len(r.installer) \in Nat /\ DOMAIN r.installer = 1..Len(r.installer)

VARIABLES asked, told
vars == <<asked, told>>

Init == asked = [kind |-> "nothing"] /\ told = None

Ask(question, answer) == asked' = question /\ told' = answer

Normalize(raw) == Ask([kind |-> "record", raw |-> raw], NormalizeRecord(raw))

Parse(text) == Ask([kind |-> "number", text |-> text], ParseNumeric(text))

Spell(text) == Ask([kind |-> "spelling", text |-> text], [slug |-> Slug(text), code |-> LookupCode(text)])

\* A row of the metrics, on its way to the wire.
OnTheWire(row) ==
    LET m == NewMeasurement(row.raw, row.canonical, row.publication, row.conditions)
    IN  [power |-> ConditionCode(PowerSettings, row.power), surface |-> ConditionCode(SurfaceTypes, row.surface),
         response |-> IF "refused" \in DOMAIN m THEN {} ELSE MeasurementResponse(m)]

Publish(row) == Ask([kind |-> "measurement", row |-> row], OnTheWire(row))

Started(c) ==
    LET h == Effective(c.env, c.file, c.defaults, HttpDefaults)
    IN  [effective |-> h, boot |-> Boot(h, CommaSeparated(c.origins), c.tiers, c.database, c.url),
         quotas |-> {QuotaFor(h, c.tiers, code) : code \in {None, 1, 2}}]

Start(c) == Ask([kind |-> "settings", given |-> c], Started(c))

StartImport(g) == Ask([kind |-> "ingest", given |-> g], [import |-> LoadIngest(g), validate |-> LoadArtifact(g)])

Call(route, r) == Ask([kind |-> "request", route |-> route, request |-> r], Answered(route, r))

Refuse(path, ids) ==
    Ask([kind |-> "problem", path |-> path, ids |-> ids],
        [instance |-> BoundedInstance(path), id |-> RequestId(ids), answer |-> Unmatched])

\* The header of a client that holds a body.
Tagged(header, body) ==
    [i \in DOMAIN header |->
        IF header[i] = "held" THEN Validator(FALSE, body) ELSE IF header[i] = "weak" THEN Validator(TRUE, body)
        ELSE IF header[i] = "*" THEN Wildcard ELSE Validator(FALSE, None)]

\* A catalog is read, its table may change, and it is read again with a header
\* that has the tag of the first answer somewhere.
Revalidate(name, rows, later, header) ==
    LET first == ReadCatalog(name, rows, <<>>)
    IN  Ask([kind |-> "catalog", name |-> name, rows |-> later, header |-> header, held |-> first],
            ReadCatalog(name, later, Tagged(header, first.body)))

\* A cursor of this service is brought back, for the same or for other filters.
Resume(last, issued, family, sort) ==
    Ask([kind |-> "cursor", last |-> last, issued |-> issued, family |-> family, sort |-> sort],
        After(NextCursor(last, issued), family, sort))

\* A token a client has from elsewhere.
Forge(token, family, sort) ==
    Ask([kind |-> "token", token |-> token, family |-> family, sort |-> sort], After(token, family, sort))

CheckMigrations(r) == Ask([kind |-> "history", repository |-> r], CheckHistory(r))

Return == asked.kind # "nothing" /\ asked' = [kind |-> "nothing"] /\ told' = None

Next ==
    \/ /\ asked.kind = "nothing"
       /\ \/ \E a, b \in Changes : Normalize(Changed(Changed(BaseRecord, a), b))
          \/ \E text \in Texts : Parse(text)
          \/ \E text \in Spellings : Spell(text)
          \/ \E row \in StoredMeasurements : Publish(row)
          \/ \E c \in Configurations : Start(c)
          \/ \E g \in IngestConfigurations : StartImport(g)
          \/ \E route \in Routes, r \in Requests : Call(route, r)
          \/ \E path \in Paths, ids \in RequestIds : Refuse(path, ids)
          \/ \E name \in DOMAIN CatalogShapes \union {"other"}, rows, later \in Tables, header \in Headers :
                Revalidate(name, rows, later, header)
          \/ \E last \in 1..MaxSlugLength, issued, family \in Families, sort \in {SlugAscending, "other"} :
                Resume(last, issued, family, sort)
          \/ \E token \in ClientTokens, family \in Families, sort \in {SlugAscending, "other"} : Forge(token, family, sort)
          \/ \E r \in Repositories : CheckMigrations(r)
    \/ Return

Spec == Init /\ [][Next]_vars

-----------------------------------------------------------------------------
(* What a record says: its values that are neither null nor a sentinel.    *)
Says(c) == c.json \in Scalars \union {"composite"}

EngineNumberOf == [horsepower |-> "horsepower", thrust |-> "thrust",
                   overhaul_ht |-> "tbo_hours", years_before_overhaul |-> "tbo_years"]
EngineTexts == {"manufacturer", "model"}
EngineKept(kept, f) ==
    f \in EngineTexts \/ (f \in DOMAIN EngineNumberOf /\ kept.numbers[EngineNumberOf[f]] # None)

\* promote_variant, promote_document and promote_market: the fields of a record
\* that are written for a new variant. The listing count goes with the price.
FieldWritten(raw, kept, f) ==
    \/ f \in {"source_link", "description"}
    \/ f = "papi_price_estimate" /\ kept.numbers.price # None
    \/ f = "for_sale_count" /\ kept.numbers.price # None /\ kept.numbers.for_sale # None
    \/ f = "page_url" /\ kept.url # None
    \/ f = "start_year" /\ kept.start = raw.top[f].num
    \/ f = "end_year" /\ kept.end = raw.top[f].num
    \/ f = "in_production" /\ kept.status # None

\* promote_engine, promote_market and promote_measurements: the same for the
\* entries of a section. An engine is one with a model.
EntryWritten(kept, s, f) ==
    CASE s = "engine" -> kept.model /\ EngineKept(kept, f)
      [] s = "ownership_costs" -> \E c \in kept.costs : c.field = <<s, f>> /\ c.code # None /\ c.number # None
      [] OTHER -> \E m \in kept.measures : m.field = <<s, f>> /\ Promoted(m)

(* What an import drops in silence. The values that are only staged: the   *)
(* title, a listing count without a price, and what is said of an engine   *)
(* without a model. And the entries that are not even read: those of an    *)
(* engine by other names; of the performance figures of the engines, only  *)
(* how many engines they count.                                            *)
FieldOnlyStaged(kept, f) ==
    f = "title" \/ (f = "for_sale_count" /\ kept.numbers.for_sale # None /\ kept.numbers.price = None)
EntryOnlyStaged(kept, s, f) == s = "engine" /\ f # "model" /\ EngineKept(kept, f) /\ ~kept.model
Unread(s, f) ==
    \/ s = "engine" /\ f \notin EngineTexts \union DOMAIN EngineNumberOf
    \/ s = "performance" /\ f \in {"horsepower", "thrust"}

\* Every value a source record states is written to the catalog, is the subject
\* of an issue that becomes a curation flag, or is one of those the import is
\* known to drop in silence; an array or an object that is read is always an
\* issue, and as soon as one image is kept one leads (normalize_record and the
\* helpers it calls, against what promote_variant to promote_market write).
SilentLossIsKnown ==
    asked.kind = "record" /\ asked.raw.object =>
        LET raw == asked.raw
            kept == told.kept
            reported(path) == \E i \in told.issues : i[2] = path
            entries(s) == raw.nested[s].entries
            items == raw.images.items
        IN  /\ \A f \in DOMAIN raw.top : Says(raw.top[f]) =>
                    \/ reported(<<f>>)
                    \/ raw.top[f].json # "composite" /\ (FieldWritten(raw, kept, f) \/ FieldOnlyStaged(kept, f))
            /\ \A s \in Sections : raw.nested[s].json = "object" =>
                    \A f \in DOMAIN entries(s) : Says(entries(s)[f]) =>
                        \/ reported(<<s, f>>) \/ Unread(s, f)
                        \/ entries(s)[f].json # "composite" /\ (EntryWritten(kept, s, f) \/ EntryOnlyStaged(kept, s, f))
            /\ \A s \in Sections : raw.nested[s].json \notin {"absent", "null", "object"} => reported(<<s>>)
            /\ raw.images.json = "array" =>
                    \A i \in DOMAIN items : \/ reported(<<"images", i - 1>>)
                                            \/ \E m \in kept.images : m.field = <<"images", i - 1>> /\ m.url # None
            /\ kept.images # {} <=> kept.lead # None

\* Whatever units a record gives its fields in, the canonical values that are
\* stored for one metric are in one unit, so that readers may compare them, and
\* a unit that cannot express its metric stores none (unit_fits_metric and the
\* CASE of promote_measurements: pounds per hour are not gallons per hour).
MeasurementsAreComparable ==
    asked.kind = "record" /\ asked.raw.object =>
        LET stored == {m \in told.kept.measures : Promoted(m)}
        IN  \A m, n \in stored :
                /\ UnitDimension[m.unit] \in MetricDimensions[m.metric]
                /\ m.metric = n.metric => Cardinality({Canonicalised(m), Canonicalised(n)} \ {None}) <= 1

\* A record that preflight reports clean is one the import can write: what
\* normalization keeps without an issue satisfies the checks of the tables.
CleanRecordIsInsertable ==
    asked.kind = "record" /\ asked.raw.object /\ told.issues = {} => Insertable(told.kept)

\* What an import stores, the service reads back: a number parse_numeric keeps
\* is one PostgreSQL casts and prints in a form DecimalString accepts and the
\* document describes, unless it has too many digits; a slug or a code of the
\* database is one of the domain types and no other text is; a condition keeps
\* its code; and a published value has its unit beside it, or neither of the two
\* values has one (parse_numeric, DecimalString, Slug, Measurement::new, split).
StoredValuesReadBack ==
    /\ asked.kind = "number" /\ told # None =>
            /\ Casts(told) # {}
            /\ \A cast \in Casts(told) :
                    /\ DecimalString(Rendered(cast)) \in {"ok", "TooManyDigits"}
                    /\ DecimalString(Rendered(cast)) = "ok" => PublishedDecimal(Rendered(cast))
    /\ asked.kind = "spelling" => told = [slug |-> SlugText(asked.text), code |-> LookupText(asked.text)]
    /\ asked.kind = "measurement" => told.power = asked.row.power /\ told.surface = asked.row.surface
    /\ asked.kind = "measurement" /\ told.response # {} =>
            LET members == {m[1] : m \in told.response}
            IN  /\ \A name \in {"raw", "canonical"} : UnitMember[name] \in members => name \in members
                /\ {"raw", "canonical"} \intersect members # {}
                /\ {"raw", "canonical"} \subseteq members => ("raw_unit" \in members <=> "canonical_unit" \in members)

\* A configuration the loaders accept starts a server: it never panics in a
\* constructor, the errors the composition root calls unreachable are, what the
\* environment says is what is used, every tier's quota admits and refills, and
\* an import has the second connection its audit needs (structs.rs, main.rs).
AcceptedSettingsServe ==
    /\ asked.kind = "settings" =>
            /\ told.boot \in {"serves", "refused", "error"}
            /\ \A k \in DOMAIN asked.given.env : told.effective[k] = asked.given.env[k]
            /\ told.boot = "serves" => /\ \A q \in told.quotas : q.capacity >= 1 /\ q.refill >= 1
                                       /\ \A i \in DOMAIN asked.given.origins :
                                            asked.given.origins[i] = None \/ asked.given.origins[i].canonical
    /\ asked.kind = "ingest" /\ told.import = None => asked.given.max_connections >= 2 /\ told.validate = None

\* Every answer to a documented operation is one the document publishes for it
\* (or the internal error, which it publishes for none), with the headers that
\* the document promises; only a secured operation refuses a caller; and a
\* problem reflects a bounded path that is no other authority's and carries one
\* usable request id (Policed, publish_route_policies, PerimeterResponses).
AnswersArePublished ==
    /\ asked.kind = "request" /\ asked.request.method = "documented" =>
            /\ told.status \in Published(asked.route) \union {500}
            /\ PublishedHeaders(asked.route, told.status) \subseteq told.headers
            /\ told.status \in {401, 403, 429} => Secured(asked.route)
    /\ asked.kind = "problem" =>
            /\ Len(told.instance) <= MaxInstance
            /\ Len(told.instance) > 1 => told.instance[2] # "/"
            /\ told.id = "generated" \/ asked.ids = <<told.id>>

\* A client that is told 304 for its tag holds every active row of the catalog
\* as it is now, in its order, and one that is sent a body is sent all of them:
\* a catalog past its ceiling is refused, never cut (entries, entity_tag and
\* if_none_match_matches).
NotModifiedIsCurrent ==
    asked.kind = "catalog" /\ told.status \in {200, 304} =>
        LET body == IF told.status = 304 THEN asked.held.body ELSE told.body
        IN  \/ told.status = 304 /\ \E i \in DOMAIN asked.header : asked.header[i] = "*"
            \/ body = Ordered(asked.name, asked.rows)

\* A cursor of this service resumes exactly after its row under the filters and
\* the sort it was issued for, and under no others; a token of another version,
\* of another payload or of a value that is no slug resumes nowhere (encode,
\* decode and list_models).
CursorsAreBound ==
    /\ asked.kind = "cursor" =>
            told = IF asked.issued = asked.family /\ asked.sort = SlugAscending THEN asked.last ELSE None
    /\ asked.kind = "token" /\ told # None =>
            /\ asked.token.version = CursorVersion /\ asked.token.json /\ asked.token.length <= MaxCursorBytes
            /\ told = asked.token.payload.position.last_value /\ told # NotSlug
            /\ asked.token.payload.position.sort = asked.sort
            /\ asked.token.payload.filter = FilterFingerprint(asked.family)

\* What the policy check of the migrations guarantees, on an empty database and
\* on one of an earlier release, of a session that ends anywhere. Whatever the
\* guards of an accepted installer are, migrations are applied in the order of
\* their versions. If it has the form of install.sql, the installer that runs
\* next ends without an error, with every migration applied once and in order
\* and a history that validates, except after a session that left a migration
\* without its record: then it stops with an error and changes neither schema
\* nor history. Only a session that ends between a migration and its record, or
\* in a migration that is not one transaction, leaves that (check, install.sql).
AcceptedHistoryInstalls ==
    asked.kind = "history" /\ told = {} =>
        LET r == asked.repository
            migrations == ReadMigrations(r.files)
            names == [i \in DOMAIN migrations |-> Name(migrations[i])]
            release(k) == Database(SubSeq(names, 1, k), {VersionOf(migrations[i]) : i \in 1..k},
                                   UNION {migrations[i].seeds : i \in 1..k})
            wellFormed == WellFormed(r)
            between(n) == \E i \in 1..(n - 1) : /\ r.installer[i].kind = "ir" /\ ~r.installer[i].comment
                                                /\ \A j \in (i + 1)..(n - 1) : r.installer[j].comment
        IN  \A k \in 0..Len(names), n \in 1..(Len(r.installer) + 1) :
                LET left == CutOff(r, release(k), n)
                    next == Install(r, left)
                IN  /\ \A i, j \in DOMAIN left.schema : i < j => left.schema[i][1] < left.schema[j][1]
                    /\ wellFormed =>
                        /\ FullyRecorded(left) => ~next.failed /\ next.schema = names /\ Validates(r, next)
                        /\ ~FullyRecorded(left) =>
                            /\ between(n) \/ Divisible(r, n)
                            /\ next.failed /\ next.schema = left.schema /\ next.ledger = left.ledger
=============================================================================
