----------------------------- MODULE Promotion ------------------------------
(***************************************************************************)
(* What an import writes to the catalog: stage_and_promote, statement by   *)
(* statement, for the imports that run at the same time. The tables are    *)
(* rows by their unique key. An import sees the committed rows and its     *)
(* own; an upsert waits while another import has the row, and so the rows  *)
(* an import has written are its locks until it ends (READ COMMITTED).     *)
(* Surrogate ids stand for the unique keys they are looked up by, and the  *)
(* digest in a disambiguated slug for the ingest key it is taken of.       *)
(***************************************************************************)
EXTENDS Integers, Sequences, FiniteSets

CONSTANTS
    Import,      \* imports; each promotes one batch, and is then over
    Batch,       \* the sequences of prepared records an import may have
    Day,         \* the dates an import may start on (CURRENT_DATE)
    CostItem,    \* the keys of the operating costs, and those without a code
    Extra,
    Slugify,     \* aircraft_ref.slugify, on the names and pairs of names used
    Upper,       \* upper, on the names of manufacturers; initcap changes no upper
    Null

Records == UNION {{b[i] : i \in DOMAIN b} : b \in Batch}
Key == {r.key : r \in Records}
Maker == {r.maker : r \in Records}
Engine == {r.engine : r \in Records} \ {Null}

FamilySlug(r) == Slugify[r.maker]
ModelSlug(r) == Slugify[<<r.maker, r.name>>]

(* A prepared record: its ingest key, its names, its production range, its *)
(* engine and their number, its price, operating costs and measurements.   *)
(* The range of a record is in order (normalize_record).                   *)
ASSUME RecordAssumption ==
    \A r \in Records : r.start # Null /\ r.end # Null => r.start <= r.end

(* An artifact without records is refused before its import (preflight).   *)
ASSUME BatchAssumption == \A b \in Batch : b \in Seq(Records) /\ b # <<>>

Row == ({"organization", "family"} \X {Slugify[m] : m \in Maker})
       \union ({"model"} \X {ModelSlug(r) : r \in Records})
       \union ({"variant"} \X Key)
       \union ({"valuation", "costs"} \X (Key \X Day))
       \union ({"engine"} \X Engine)
       \union ({"powerplant"} \X (Key \X Engine))
       \union {<<"source", "scraped">>}

(* What the rows of a variant, its engines and its costs hold.             *)
Link == [org : {Slugify[m] : m \in Maker}, primary : BOOLEAN]
Year == {r.start : r \in Records} \union {r.end : r \in Records}
EngineNumber == {r.engines : r \in Records} \union {Null}
VariantRow == [slug : {ModelSlug(r) : r \in Records} \X (Key \union {Null}), start : Year, end : Year,
               engines : EngineNumber, links : SUBSET Link, flagged : BOOLEAN]
PowerplantRow == [count : EngineNumber]
Amount == (UNION {{r.costs[i] : i \in DOMAIN r.costs} : r \in Records}) \union {Null}
CostsRow == [CostItem -> Amount]

ASSUME NullAssumption ==
    /\ Null \notin Key /\ Null \notin VariantRow /\ Null \notin PowerplantRow
    /\ Null \notin CostsRow

VARIABLES
    db,         \* the committed rows; Null where there is none
    mine,       \* mine[t]: the rows the import has written, not yet committed
    batch,      \* batch[t]: the records of the import
    done,       \* done[t]: how many of them are promoted
    at,         \* at[t]: the statement the import is at
    org,        \* org[t]: the organization found for the record at hand
    evidence,   \* the committed source_assertions
    added,      \* added[t]: those of the import
    day         \* day[t]: the date the import started on

vars == <<db, mine, batch, done, at, org, evidence, added, day>>

Init ==
    /\ db = [row \in Row |-> Null]
    /\ mine = [t \in Import |-> <<>>]
    /\ batch = [t \in Import |-> <<>>] /\ done = [t \in Import |-> 0]
    /\ at = [t \in Import |-> "idle"]
    /\ org = [t \in Import |-> Null]
    /\ evidence = {} /\ added = [t \in Import |-> {}]
    /\ day = [t \in Import |-> Null]

-----------------------------------------------------------------------------
(* Rows.                                                                   *)

Seen(t, row) == IF row \in DOMAIN mine[t] THEN mine[t][row] ELSE db[row]

\* Fault: an upsert that changes nothing (DO NOTHING) leaves no lock.
Busy_identityUnlocked(t, row) ==
    row[1] \notin {"organization", "family", "model"}
    /\ \E u \in Import \ {t} : row \in DOMAIN mine[u]

\* Another import has the row.
Busy(t, row) == \E u \in Import \ {t} : row \in DOMAIN mine[u]

\* INSERT ... ON CONFLICT(row's key) DO UPDATE: waits for the row, and has it.
Upsert(t, row, value) ==
    /\ ~Busy(t, row)
    /\ mine' = [mine EXCEPT ![t] =
          [other \in {row} \union DOMAIN mine[t] |-> IF other = row THEN value ELSE mine[t][other]]]

Coalesce(a, b) == IF a # Null THEN a ELSE b

Goes(t, s) == at' = [at EXCEPT ![t] = s]

Current(t) == batch[t][done[t] + 1]

-----------------------------------------------------------------------------
(* promote_identity.                                                       *)

\* An import starts a record: stage inserts the staged row.
Stage(t) ==
    /\ at[t] = "idle"
    /\ \E b \in Batch : batch' = [batch EXCEPT ![t] = b]
    /\ \E d \in Day : day' = [day EXCEPT ![t] = d]
    /\ Goes(t, "organization")
    /\ UNCHANGED <<db, mine, done, org, evidence, added>>

\* The organization with the name among its aliases or, but for its case, for
\* its own, any one of them; or else the one with its slug, which gets the alias.
PromoteOrganization(t) ==
    /\ at[t] = "organization"
    /\ LET maker == Current(t).maker
           known == {row \in Row : /\ row[1] = "organization" /\ Seen(t, row) # Null
                                   /\ \/ maker \in Seen(t, row).aliases
                                      \/ Upper[maker] = Seen(t, row).name}
           own   == <<"organization", Slugify[maker]>>
           old   == Seen(t, own)
       IN  \/ /\ \E row \in known : org' = [org EXCEPT ![t] = row[2]]
              /\ UNCHANGED mine
           \/ /\ known = {}
              /\ org' = [org EXCEPT ![t] = own[2]]
              /\ Upsert(t, own, IF old = Null THEN [name |-> Upper[maker], aliases |-> {maker}]
                                ELSE [old EXCEPT !.aliases = @ \union {maker}])
    /\ Goes(t, "family")
    /\ UNCHANGED <<db, batch, done, evidence, added, day>>

\* The family of the manufacturer, which follows its organization.
PromoteFamily(t) ==
    /\ at[t] = "family"
    /\ Upsert(t, <<"family", FamilySlug(Current(t))>>, org[t])
    /\ Goes(t, "model")
    /\ UNCHANGED <<db, batch, done, org, evidence, added, day>>

\* The model, which moves to the family of the record.
PromoteModel(t) ==
    /\ at[t] = "model"
    /\ Upsert(t, <<"model", ModelSlug(Current(t))>>, FamilySlug(Current(t)))
    /\ Goes(t, "variant")
    /\ UNCHANGED <<db, batch, done, org, evidence, added, day>>

-----------------------------------------------------------------------------
(* promote_variant.                                                        *)

Variants(t) == {row \in Row : row[1] = "variant" /\ Seen(t, row) # Null}

\* The slug of a new variant: the digest of its key is appended when a variant
\* of another key has the slug.
SlugFor(t, r) ==
    IF \E row \in Variants(t) : row[2] # r.key /\ Seen(t, row).slug = <<ModelSlug(r), Null>>
    THEN <<ModelSlug(r), r.key>> ELSE <<ModelSlug(r), Null>>

\* Fault: each column of the production range is merged by itself.
MergedRange_byColumn(old, r) == [start |-> Coalesce(r.start, old.start), end |-> Coalesce(r.end, old.end)]

\* A record with a start replaces the range, one without leaves it.
MergedRange(old, r) ==
    IF r.start # Null THEN [start |-> r.start, end |-> r.end]
    ELSE [start |-> old.start, end |-> old.end]

\* link_primary_manufacturer: unless there is a primary link, the one to the
\* organization is made, or made primary.
Linked(links, o) ==
    IF \E l \in links : l.primary THEN links
    ELSE {l \in links : l.org # o} \union {[org |-> o, primary |-> TRUE]}

\* The variant of the ingest key: a new row, or what the record says over what
\* is stored (the first engine count stays); then its manufacturer, and the
\* flag of a disambiguated slug unless one is open.
PromoteVariant(t) ==
    /\ at[t] = "variant"
    /\ LET r == Current(t)
           row == <<"variant", r.key>>
           old == Seen(t, row)
           slug == IF old = Null THEN SlugFor(t, r) ELSE old.slug
           range == IF old = Null THEN [start |-> r.start, end |-> r.end] ELSE MergedRange(old, r)
       IN  Upsert(t, row,
             [slug |-> slug, start |-> range.start, end |-> range.end,
              engines |-> IF old = Null THEN r.engines ELSE Coalesce(old.engines, r.engines),
              links |-> Linked(IF old = Null THEN {} ELSE old.links, org[t]),
              flagged |-> slug # <<ModelSlug(r), Null>> \/ (old # Null /\ old.flagged)])
    /\ Goes(t, "document")
    /\ UNCHANGED <<db, batch, done, org, evidence, added, day>>

-----------------------------------------------------------------------------
(* promote_document, promote_engine and promote_market.                    *)

Says(t, r, fields) == {[import |-> t, key |-> r.key, field |-> f] : f \in fields}

\* The source row of the parser, the same for every import, then the document,
\* with the assertion of the name and of each measurement.
PromoteDocument(t) ==
    /\ at[t] = "document"
    /\ Upsert(t, <<"source", "scraped">>, TRUE)
    /\ added' = [added EXCEPT ![t] = @ \union Says(t, Current(t), {"name"} \union Current(t).metrics)]
    /\ Goes(t, "engine")
    /\ UNCHANGED <<db, batch, done, org, evidence, day>>

\* The engine, by its slug; a record without an engine model has none.
PromoteEngine(t) ==
    /\ at[t] = "engine"
    /\ LET e == Current(t).engine
       IN  IF e = Null THEN UNCHANGED mine ELSE Upsert(t, <<"engine", e>>, TRUE)
    /\ Goes(t, IF Current(t).engine = Null THEN "market" ELSE "powerplant")
    /\ UNCHANGED <<db, batch, done, org, evidence, added, day>>

\* A stated count replaces the stored one; one that is not stated leaves it.
EngineCount(old, r) == IF old = Null THEN r.engines ELSE Coalesce(r.engines, old.count)

PromotePowerplant(t) ==
    /\ at[t] = "powerplant"
    /\ LET r == Current(t)
           row == <<"powerplant", <<r.key, r.engine>>>>
       IN  Upsert(t, row, [count |-> EngineCount(Seen(t, row), r)])
    /\ Goes(t, "market")
    /\ UNCHANGED <<db, batch, done, org, evidence, added, day>>

\* Fault: what a later document of the day says replaces what is stored.
Stands_latest(old, new) == new

\* What is stored stands: a curator may have accepted it.
Stands(old, new) == Coalesce(old, new)

\* The valuation of the day, inserted or found; its price is asserted.
PromoteValuation(t) ==
    /\ at[t] = "market"
    /\ LET r == Current(t)
           row == <<"valuation", <<r.key, day[t]>>>>
       IN  IF r.price = Null THEN UNCHANGED <<mine, added>>
           ELSE /\ Upsert(t, row, Stands(Seen(t, row), r.price))
                /\ added' = [added EXCEPT ![t] = @ \union Says(t, r, {"price"})]
    /\ Goes(t, "costs")
    /\ UNCHANGED <<db, batch, done, org, evidence, day>>

\* The cost snapshot of the day: a total and a line item stand, an item that
\* has no code is an extra attribute, and replaces the one of its key. Every
\* item is asserted. Then the next record, or the end of the batch.
PromoteCosts(t) ==
    /\ at[t] = "costs"
    /\ LET r == Current(t)
           row == <<"costs", <<r.key, day[t]>>>>
           old(i) == IF Seen(t, row) = Null THEN Null ELSE Seen(t, row)[i]
           said(i) == i \in DOMAIN r.costs
       IN  IF DOMAIN r.costs = {} THEN UNCHANGED <<mine, added>>
           ELSE /\ Upsert(t, row, [i \in CostItem |->
                     IF ~said(i) THEN old(i)
                     ELSE IF i \in Extra THEN r.costs[i] ELSE Stands(old(i), r.costs[i])])
                /\ added' = [added EXCEPT ![t] = @ \union Says(t, r, DOMAIN r.costs)]
    /\ done' = [done EXCEPT ![t] = @ + 1] /\ org' = [org EXCEPT ![t] = Null]
    /\ Goes(t, IF done[t] + 1 < Len(batch[t]) THEN "organization" ELSE "commit")
    /\ UNCHANGED <<db, batch, evidence, day>>

-----------------------------------------------------------------------------
(* The end of an import, and the rest of the world.                        *)

Over(t) ==
    /\ batch' = [batch EXCEPT ![t] = <<>>] /\ done' = [done EXCEPT ![t] = 0]
    /\ org' = [org EXCEPT ![t] = Null] /\ day' = [day EXCEPT ![t] = Null]

Commit(t) ==
    /\ at[t] = "commit"
    /\ db' = [row \in Row |-> Seen(t, row)]
    /\ mine' = [mine EXCEPT ![t] = <<>>]
    /\ evidence' = evidence \union added[t] /\ added' = [added EXCEPT ![t] = {}]
    /\ Goes(t, "committed") /\ Over(t)

\* A statement fails: the database, a lock timeout, or the victim of a
\* deadlock. Nothing of the import stays.
Abort(t) ==
    /\ at[t] \notin {"idle", "committed", "aborted"}
    /\ mine' = [mine EXCEPT ![t] = <<>>] /\ added' = [added EXCEPT ![t] = {}]
    /\ Goes(t, "aborted") /\ Over(t)
    /\ UNCHANGED <<db, evidence>>

\* A curator takes the primary role from a manufacturer of a variant nobody
\* is importing.
Demote(k) ==
    /\ db[<<"variant", k>>] # Null /\ \A t \in Import : <<"variant", k>> \notin DOMAIN mine[t]
    /\ \E l \in db[<<"variant", k>>].links : l.primary
    /\ db' = [db EXCEPT ![<<"variant", k>>].links = {[m EXCEPT !.primary = FALSE] : m \in @}]
    /\ UNCHANGED <<mine, batch, done, at, org, evidence, added, day>>

Statement(t) ==
    \/ PromoteOrganization(t) \/ PromoteFamily(t) \/ PromoteModel(t) \/ PromoteVariant(t)
    \/ PromoteDocument(t) \/ PromoteEngine(t) \/ PromotePowerplant(t) \/ PromoteValuation(t)
    \/ PromoteCosts(t) \/ Commit(t)
=============================================================================
