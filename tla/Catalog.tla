------------------------------ MODULE Catalog -------------------------------
(***************************************************************************)
(* The catalog as it is read while imports write it: GET /v1/models, page  *)
(* by page, each page a statement of its own on the committed rows, with   *)
(* the cursor a client carries from one to the next; composed with the     *)
(* imports of module Promotion.                                            *)
(***************************************************************************)
EXTENDS Promotion

CONSTANTS
    Client,
    Limit     \* PageLimit: rows of a page

ASSUME LimitAssumption == Limit \in Nat \ {0}

(* Slugs are ordered; their numbers stand for them.                        *)
ASSUME SlugAssumption == Null \notin Int /\ \A r \in Records : ModelSlug(r) \in Int

VARIABLES
    walk,     \* walk[c]: the scan of a client: its filter, cursor and pages
    lasting   \* history: the models that matched at every instant of the scan

catalogVars == <<vars, walk, lasting>>

Models == {row[2] : row \in {m \in Row : m[1] = "model"}}
Families == {row[2] : row \in {m \in Row : m[1] = "family"}}

\* The WHERE of LIST: a family, if one is asked for.
Matches(rows, filter) ==
    {m \in Models : rows[<<"model", m>>] # Null /\ (filter = Null \/ rows[<<"model", m>>] = filter)}

NoCursor == [after |-> Null, filter |-> Null]

Filter == Families \union {Null}

CatalogTypeOK ==
    /\ walk \in [Client -> [at : {"idle", "resolve", "page", "done", "refused"}, filter : Filter,
                            cursor : [after : Models \union {Null}, filter : Filter],
                            pages : Seq(SUBSET Models)]]
    /\ lasting \in [Client -> SUBSET Models]

CatalogInit ==
    /\ Init
    /\ walk = [c \in Client |-> [at |-> "idle", filter |-> Null, cursor |-> NoCursor, pages |-> <<>>]]
    /\ lasting = [c \in Client |-> {}]

-----------------------------------------------------------------------------
(* list_models.                                                            *)

\* A client asks for the first page, of one family or of all.
Ask(c) ==
    /\ walk[c].at = "idle"
    /\ \E f \in Families \union {Null} :
           /\ walk' = [walk EXCEPT ![c].at = "resolve", ![c].filter = f]
           /\ lasting' = [lasting EXCEPT ![c] = Matches(db, f)]
    /\ UNCHANGED vars

\* The family is resolved (404 when there is none), then the cursor is decoded
\* and bound to the filter it was issued for (400).
Resolve(c) ==
    /\ walk[c].at = "resolve"
    /\ LET f == walk[c].filter
           refused == \/ f # Null /\ db[<<"family", f>>] = Null
                      \/ walk[c].cursor.after # Null /\ walk[c].cursor.filter # f
       IN  walk' = [walk EXCEPT ![c].at = IF refused THEN "refused" ELSE "page"]
    /\ UNCHANGED <<vars, lasting>>

\* The first n of a set of rows in the order of their slugs.
First(n, rows) == {m \in rows : Cardinality({k \in rows : k < m}) < n}
LastOf(rows) == CHOOSE m \in rows : \A k \in rows : k <= m

\* LIST: the rows past the cursor, one more than the page.
Past(c) ==
    {m \in Matches(db, walk[c].filter) : walk[c].cursor.after = Null \/ walk[c].cursor.after < m}
Overfetched(c) == First(Limit + 1, Past(c))

\* Fault: the key of the row past the page.
Resume_lookahead(rows) == IF Cardinality(rows) > Limit THEN LastOf(rows) ELSE Null

\* from_overfetched: the key of the last row kept, when there is one more.
Resume(rows) == IF Cardinality(rows) > Limit THEN LastOf(First(Limit, rows)) ELSE Null

\* A page, with its cursor, which the client sends with its next request; the
\* last page has none. A read that fails is a 503, and is asked for again.
Page(c) ==
    /\ walk[c].at = "page"
    /\ \/ LET rows == Overfetched(c)
              next == Resume(rows)
          IN  walk' = [walk EXCEPT
                 ![c].at = IF next = Null THEN "done" ELSE "resolve",
                 ![c].pages = Append(@, First(Limit, rows)),
                 ![c].cursor = [after |-> next, filter |-> walk[c].filter]]
       \/ walk' = [walk EXCEPT ![c].at = "resolve"]
    /\ UNCHANGED <<vars, lasting>>

\* A client changes the family in the middle of its scan, and may change it back.
Refilter(c) ==
    /\ walk[c].at = "resolve" /\ walk[c].cursor.after # Null
    /\ \E f \in Families \union {Null} :
           /\ f # walk[c].filter
           /\ walk' = [walk EXCEPT ![c].filter = f]
    /\ UNCHANGED <<vars, lasting>>

-----------------------------------------------------------------------------
Scanning(c) == walk[c].at \in {"resolve", "page"}

\* The filter the pages of a scan have in common.
Scanned(c) == IF walk[c].cursor.after = Null THEN walk[c].filter ELSE walk[c].cursor.filter

\* What an import does to the rows, the scans under way notice.
Notice ==
    /\ lasting' = [c \in Client |-> IF Scanning(c) THEN lasting[c] \intersect Matches(db', Scanned(c))
                                    ELSE lasting[c]]
    /\ UNCHANGED walk

Write ==
    /\ \/ \E t \in Import : Stage(t) \/ Statement(t) \/ Abort(t)
       \/ \E k \in Key : Demote(k)
    /\ Notice

Read == \E c \in Client : Ask(c) \/ Resolve(c) \/ Page(c) \/ Refilter(c)

CatalogSpec == CatalogInit /\ [][Write \/ Read]_catalogVars

-----------------------------------------------------------------------------
(* Properties.                                                             *)

\* Two variants never get one slug, committed or about to be: the slug is
\* looked for among the rows the import can see, and the rows it cannot see
\* are of imports it has waited for, at the family or at the model.
VariantSlugsUnique ==
    \A t \in Import : \A k \in Key, row \in Variants(t) :
        /\ row[2] # k /\ db[<<"variant", k>>] # Null
               => db[<<"variant", k>>].slug # Seen(t, row).slug
        /\ \A u \in Import \ {t} : <<"variant", k>> \in DOMAIN mine[u] /\ row[2] # k
               => mine[u][<<"variant", k>>].slug # Seen(t, row).slug

\* What imports promote one after the other fits together. A production range
\* stays in order, so that chk_variant_production_years never aborts an import
\* whose own records are in order; a variant promoted has one primary
\* manufacturer, although a curator may have taken the role from the one it
\* had; and an import about to commit has asserted every price it read, also
\* of a second document of the day, and leaves each powerplant the count of
\* the last record to state one, or the stored count when none does.
PromotedIsConsistent ==
    \A t \in Import :
        /\ \A row \in Variants(t) :
              LET v == Seen(t, row) IN v.start # Null /\ v.end # Null => v.start <= v.end
        /\ \A row \in DOMAIN mine[t] :
              row[1] = "variant" => Cardinality({l \in mine[t][row].links : l.primary}) = 1
        /\ at[t] = "commit" =>
              /\ \A i \in DOMAIN batch[t] : batch[t][i].price # Null =>
                    [import |-> t, key |-> batch[t][i].key, field |-> "price"] \in added[t]
              /\ \A row \in {p \in DOMAIN mine[t] : p[1] = "powerplant"} :
                    LET stated == {i \in DOMAIN batch[t] :
                                      /\ row[2] = <<batch[t][i].key, batch[t][i].engine>>
                                      /\ batch[t][i].engines # Null}
                    IN  \/ /\ stated = {}
                           /\ mine[t][row].count = IF db[row] = Null THEN Null ELSE db[row].count
                        \/ \E i \in stated : /\ \A j \in stated : j <= i
                                             /\ mine[t][row].count = batch[t][i].engines

\* What is stored of a market value, a total or a line item stands for the
\* day: a later document never republishes what a curator has accepted.
MarketStands ==
    [][\A row \in Row :
          /\ row[1] = "valuation" /\ db[row] # Null => db'[row] = db[row]
          /\ row[1] = "costs" /\ db[row] # Null =>
                 \A i \in CostItem \ Extra : db[row][i] # Null => db'[row][i] = db[row][i]]_catalogVars

Listed(c) == UNION {walk[c].pages[i] : i \in DOMAIN walk[c].pages}

\* A scan that ends has every model that matched from its first request to
\* its last, once, in order: imports between two pages make it miss nothing,
\* nor does a client that asks for another family on the way.
ScanIsComplete ==
    \A c \in Client : walk[c].at = "done" =>
        /\ lasting[c] \subseteq Listed(c)
        /\ \A i, j \in DOMAIN walk[c].pages : i < j =>
              \A m \in walk[c].pages[i], n \in walk[c].pages[j] : m < n

-----------------------------------------------------------------------------
(* The inductive invariants behind the properties.                         *)

Shape ==
    /\ db = [row \in Row |-> db[row]]
    /\ mine = [t \in Import |-> mine[t]]
    /\ \A t \in Import : DOMAIN mine[t] \subseteq Row

\* No two imports have a row.
RowsExclusive ==
    \A t \in Import : \A u \in Import \ {t} : DOMAIN mine[t] \intersect DOMAIN mine[u] = {}

\* What a row may hold by itself.
Sound(row, v) ==
    /\ row[1] = "variant" =>
          /\ v \in VariantRow
          /\ v.slug[2] \in {Null, row[2]}
          /\ v.start # Null /\ v.end # Null => v.start <= v.end
    /\ row[1] = "powerplant" => v \in PowerplantRow
    /\ row[1] = "costs" => v \in CostsRow

Primaries(v) == {l \in v.links : l.primary}

\* What an import writes keeps what is committed.
Standing(row, v) ==
    db[row] # Null =>
        /\ row[1] = "variant" => v.slug = db[row].slug
        /\ row[1] = "valuation" => v = db[row]
        /\ row[1] = "costs" => \A i \in CostItem \ Extra : db[row][i] # Null => v[i] = db[row][i]

\* Whoever gives a new variant the slug of its model has the model.
Guarded(t, row, v) ==
    row[1] = "variant" /\ db[row] = Null /\ v.slug[2] = Null => <<"model", v.slug[1]>> \in DOMAIN mine[t]

\* No other variant has the slug, committed or about to be.
Apart(row, v) ==
    row[1] = "variant" =>
        \A other \in Row \ {row} : other[1] = "variant" =>
            /\ db[other] # Null => db[other].slug # v.slug
            /\ \A t \in Import : other \in DOMAIN mine[t] => mine[t][other].slug # v.slug

Committed(row, v) ==
    /\ Sound(row, v) /\ Apart(row, v)
    /\ row[1] = "variant" => \A l, m \in Primaries(v) : l = m

Written(t, row, v) ==
    /\ Sound(row, v) /\ Apart(row, v) /\ Standing(row, v) /\ Guarded(t, row, v)
    /\ row[1] = "variant" => \E l \in Link : Primaries(v) = {l}

RowInv ==
    /\ Shape /\ RowsExclusive
    /\ \A row \in Row : db[row] # Null => Committed(row, db[row])
    /\ \A t \in Import : \A row \in DOMAIN mine[t] : Written(t, row, mine[t][row])

Statements == {"organization", "family", "model", "variant", "document", "engine", "powerplant",
               "market", "costs"}

\* How many records have their prices asserted, and their engines promoted.
Priced(t) == done[t] + IF at[t] = "costs" THEN 1 ELSE 0
Engined(t) == done[t] + IF at[t] \in {"market", "costs"} THEN 1 ELSE 0

\* The count of the last of n records to state one, or the one committed.
CountOf(t, row, n) ==
    LET stated == {i \in DOMAIN batch[t] : /\ i <= n
                                           /\ row[2] = <<batch[t][i].key, batch[t][i].engine>>
                                           /\ batch[t][i].engines # Null}
    IN  \/ /\ stated = {}
           /\ mine[t][row].count = IF db[row] = Null THEN Null ELSE db[row].count
        \/ \E i \in stated : /\ \A j \in stated : j <= i
                             /\ mine[t][row].count = batch[t][i].engines

CountsStated(t, n) ==
    /\ \A row \in DOMAIN mine[t] : row[1] = "powerplant" => CountOf(t, row, n)
    /\ \A i \in DOMAIN batch[t] : i <= n /\ batch[t][i].engine # Null =>
          <<"powerplant", <<batch[t][i].key, batch[t][i].engine>>>> \in DOMAIN mine[t]

PricesAsserted(t, n) ==
    \A i \in DOMAIN batch[t] : i <= n /\ batch[t][i].price # Null =>
        [import |-> t, key |-> batch[t][i].key, field |-> "price"] \in added[t]

Progress(t) ==
    /\ at[t] \in Statements \union {"commit"} => batch[t] \in Batch
    /\ at[t] \in Statements => done[t] < Len(batch[t])
    /\ at[t] = "commit" => done[t] = Len(batch[t])
    /\ at[t] \in {"idle", "committed", "aborted"} => mine[t] = <<>> /\ done[t] = 0
    /\ at[t] \in {"family", "model", "variant"} => org[t] \in {Slugify[m] : m \in Maker}
    /\ at[t] = "powerplant" => Current(t).engine # Null
    /\ at[t] = "variant" => <<"model", ModelSlug(Current(t))>> \in DOMAIN mine[t]
    /\ PricesAsserted(t, Priced(t)) /\ CountsStated(t, Engined(t))

ControlTypeOK ==
    /\ at \in [Import -> Statements \union {"idle", "commit", "committed", "aborted"}]
    /\ batch \in [Import -> Batch \union {<<>>}] /\ done \in [Import -> Nat]
    /\ org = [t \in Import |-> org[t]] /\ added = [t \in Import |-> added[t]]
    /\ day \in [Import -> Day \union {Null}]
    /\ \A t \in Import : at[t] \in Statements => day[t] \in Day

ControlInv == ControlTypeOK /\ \A t \in Import : Progress(t)

\* Only so many models are there at a time.
FiniteInv ==
    /\ IsFiniteSet({row \in Row : db[row] # Null})
    /\ \A t \in Import : IsFiniteSet(DOMAIN mine[t])

\* The rows that lasted are listed up to the cursor, the others are to come.
Scan(c) ==
    /\ walk[c].at = "idle" => walk[c].cursor = NoCursor /\ walk[c].pages = <<>>
    /\ Scanning(c) =>
          /\ lasting[c] \subseteq Matches(db, Scanned(c))
          /\ walk[c].cursor.after # Null =>
                /\ walk[c].cursor.after \in Int
                /\ \A m \in lasting[c] : m <= walk[c].cursor.after => m \in Listed(c)
                /\ \A m \in Listed(c) : m <= walk[c].cursor.after
          /\ walk[c].cursor.after = Null => walk[c].pages = <<>>
    /\ walk[c].at = "page" => Scanned(c) = walk[c].filter
    /\ walk[c].at = "done" => lasting[c] \subseteq Listed(c)
    /\ \A i, j \in DOMAIN walk[c].pages : i < j =>
          \A m \in walk[c].pages[i], n \in walk[c].pages[j] : m < n

ScanInv == CatalogTypeOK /\ \A c \in Client : Scan(c)
=============================================================================
