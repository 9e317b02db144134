----------------------------- MODULE References -----------------------------
(***************************************************************************)
(* Reference catalogs and the two tokens a client brings back: the entity  *)
(* tag of a catalog (If-None-Match) and the cursor of a page of models.    *)
(*                                                                         *)
(* A row is its code, its place, whether it is active and whether it is    *)
(* described. A text that is a slug is its length; NotSlug is one that is  *)
(* not. SHA-256 is injective on what is compared here.                     *)
(***************************************************************************)
EXTENDS Arms

CONSTANTS MaxCatalogRows, MaxValidators,
          MaxCursorBytes,
          MaxSlugLength,    \* the longest slug of a model: the schema has no bound
          NotSlug

ASSUME ReferencesAssumption == /\ {MaxCatalogRows, MaxValidators, MaxCursorBytes} \subseteq Nat \ {0}
                               /\ MaxSlugLength \in Nat

-----------------------------------------------------------------------------
(* Catalogs: the shapes of their tables, each with the slugs that have it.  *)

CatalogShapes ==
    [plain |-> {"is_active", "sort_order", "description"}, unit_categories |-> {"sort_order", "description"},
     measurement_units |-> {"is_active", "sort_order"}, currencies |-> {"is_active"}]

\* TryFrom: a name of the allowlist, or no catalog.
TryCatalog(name) == IF name \in DOMAIN CatalogShapes THEN name ELSE None

Active(catalog, rows) == {r \in rows : "is_active" \in CatalogShapes[catalog] => r.active}

\* The ORDER BY: it ends in the primary key.
Before(catalog, r, s) ==
    IF "sort_order" \in CatalogShapes[catalog] /\ r.sort # s.sort THEN r.sort < s.sort ELSE r.code < s.code

CatalogEntry(catalog, row) ==
    [code |-> row.code, described |-> "description" \in CatalogShapes[catalog] /\ row.described]

Ordered(catalog, rows) ==
    LET precedes(r, s) == Before(catalog, r, s)
        sorted == InOrder(Active(catalog, rows), precedes)
    IN  [i \in DOMAIN sorted |-> CatalogEntry(catalog, sorted[i])]

\* Fault: the ceiling is the limit of the statement.
Entries_truncated(catalog, rows) ==
    LET all == Ordered(catalog, rows)
    IN  SubSeq(all, 1, IF Len(all) > MaxCatalogRows THEN MaxCatalogRows ELSE Len(all))

\* One row past the ceiling is read, and a catalog that has it is not served.
Entries(catalog, rows) ==
    LET all == Ordered(catalog, rows)
        fetched == SubSeq(all, 1, IF Len(all) > MaxCatalogRows + 1 THEN MaxCatalogRows + 1 ELSE Len(all))
    IN  IF Len(fetched) > MaxCatalogRows THEN None ELSE fetched

-----------------------------------------------------------------------------
(* Conditional reads. A validator is the wildcard, or a tag, weak or strong; *)
(* the tag of nothing is one that no catalog has.                           *)

EntityTag(body) == <<"sha256", body>>
Wildcard == [weak |-> FALSE, tag |-> <<"*">>]
Validator(weak, body) == [weak |-> weak, tag |-> EntityTag(body)]

\* The first validators of the header, compared weakly.
IfNoneMatchMatches(header, etag) ==
    \E i \in DOMAIN header : i <= MaxValidators /\ (header[i] = Wildcard \/ header[i].tag = etag)

\* The handler, for a name, the rows of its table and the header.
ReadCatalog(name, rows, header) ==
    LET catalog == TryCatalog(name)
        body == IF catalog = None THEN None ELSE Entries(catalog, rows)
    IN  IF catalog = None THEN [status |-> 404, body |-> None]
        ELSE IF body = None THEN [status |-> 500, body |-> None]
        ELSE IF IfNoneMatchMatches(header, EntityTag(body)) THEN [status |-> 304, body |-> None]
        ELSE [status |-> 200, body |-> body]

-----------------------------------------------------------------------------
(* Cursors.                                                                *)

CursorVersion == 1
SlugAscending == "slug_asc"

CursorPosition(sort, last) == [sort |-> sort, last_value |-> last, tiebreaker |-> last]
FilterFingerprint(family) == <<"sha256", family>>

\* A token: the length of its text, whether that is base64url of a JSON object,
\* the version that has, and whether it is the payload of version 1.
Token(length, json, version, payload) ==
    [length |-> length, json |-> json, version |-> version, payload |-> payload]

\* A payload is 139 bytes around two copies of the slug; base64 makes four
\* characters of three bytes and has no padding.
TokenLength(slug) == (4 * (139 + 2 * slug) + 2) \div 3

Encode(position, filters) ==
    Token(TokenLength(position.last_value), TRUE, CursorVersion, [position |-> position, filter |-> filters])

\* The length, the text, the version, the payload and the filters, in this order.
Decode(token, filters) ==
    FirstOf(<<<<token.length > MaxCursorBytes \/ ~token.json, "Malformed">>,
              <<token.version # CursorVersion, "UnsupportedVersion">>, <<token.payload = None, "Malformed">>,
              <<token.payload # None /\ token.payload.filter # filters, "FilterMismatch">>, <<TRUE, "ok">>>>)

\* Fault: the sort a cursor was issued for is not compared.
After_anySort(token, family, sort) ==
    IF Decode(token, FilterFingerprint(family)) # "ok" \/ token.payload.position.last_value = NotSlug
    THEN None ELSE token.payload.position.last_value

\* Where list_models resumes, or None: the answer is a 400.
After(token, family, sort) ==
    IF \/ Decode(token, FilterFingerprint(family)) # "ok"
       \/ token.payload.position.sort # sort \/ token.payload.position.last_value = NotSlug
    THEN None ELSE token.payload.position.last_value

\* The cursor of a page whose last row has a slug.
NextCursor(last, family) == Encode(CursorPosition(SlugAscending, last), FilterFingerprint(family))
=============================================================================
