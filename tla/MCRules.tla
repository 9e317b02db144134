------------------------------- MODULE MCRules ------------------------------
(***************************************************************************)
(* The inputs of the rules: a well-formed one with at most two changes.    *)
(***************************************************************************)
EXTENDS Rules

-----------------------------------------------------------------------------
Number(n) == Cell("number", n, FALSE, None)
Quantity(n, unit) == Cell("string", n, FALSE, unit)
Word(unit) == Cell("string", None, FALSE, unit)
Odd == {Cell("null", None, FALSE, None), Cell("sentinel", None, FALSE, None), Cell("composite", None, FALSE, None),
        Cell("bool", None, FALSE, None), Word(None), Cell("string", 5, TRUE, None), Quantity(5, "parsec")}
Numbers == {Number(n) : n \in {-1, 0, 1}}
Years == {Number(n) : n \in {0, 1799, 1800, 1899, 1950, 2000, 2101, 2201, 40000}}
Measured == Odd \union {Number(-1), Number(7)}
            \union {Quantity(7, u) : u \in {"GPH", "PPH", "LBS", "GAL", "KTS", "KCAS", "FT"}} \union {Quantity(-7, "GPH")}

MCBaseRecord ==
    [object |-> TRUE, manufacturer |-> TRUE, aircraft |-> TRUE, range |-> None,
     top |-> [title |-> Word(None), description |-> Word(None), papi_price_estimate |-> Number(9),
              for_sale_count |-> Number(2), page_url |-> Word(None)],
     url |-> "http", prose |-> [words |-> {"retractable", "piston"}, seats |-> 4, plus |-> 1],
     nested |->
        [performance |-> [json |-> "object", entries |-> [fuel_burn |-> Quantity(9, "GPH"), horsepower |-> Number(180)]],
         weights |-> [json |-> "object", entries |-> [empty_weight |-> Quantity(9, "LBS")]],
         engine |-> [json |-> "object", entries |-> [model |-> Word(None), horsepower |-> Number(180)]],
         ownership_costs |-> [json |-> "object", entries |-> ({"fuel"} :> Number(3))]],
     images |-> [json |-> "array", items |-> <<[object |-> TRUE, href |-> "http", size |-> "WxH"]>>]]

With(entries, key, c) == (key :> c) @@ entries

\* A change is a place and what it holds.
MCChanges ==
    {<<"top", f, c>> : f \in {"start_year", "end_year"}, c \in Odd \union Years}
    \union {<<"top", f, c>> : f \in {"papi_price_estimate", "for_sale_count", "in_production", "title", "colour"},
                              c \in Odd \union Numbers}
    \union {<<"top", "in_production", Word("YES")>>, <<"top", "description", Cell("composite", None, FALSE, None)>>}
    \union {<<"performance", f, c>> : f \in {"fuel_burn", "fuel_burn_75", "ceiling", "colour"}, c \in Measured}
    \union {<<"performance", f, c>> : f \in {"horsepower", "thrust"},
                                      c \in Odd \union {Quantity(n, "x") : n \in {0, 2, 40000}}}
    \union {<<"weights", "fuel_capacity", c>> : c \in Measured}
    \union {<<"engine", f, c>> : f \in {"horsepower", "overhaul_ht"}, c \in Odd \union Numbers}
    \union {<<"engine", f, c>> : f \in {"manufacturer", "model", "colour"}, c \in {Word(None)} \union {d \in Odd : d.json \in {"sentinel", "composite"}}}
    \union {<<"ownership_costs", key, c>> : key \in {{"engine", "reserve"}, {"total", "fixed"}, {"colour"}, {"overhaul"}},
                                            c \in Odd \union Numbers}
    \union {<<"json", s, j>> : s \in Sections, j \in {"absent", "null", "scalar"}}
    \union {<<"range", from, to>> : from \in {1899, 1950, 40000}, to \in {1950, 2000, None}}
    \union {<<"images", shape, href>> : shape \in {"array", "absent", "scalar"}, href \in {"http", "relative", "ftp", None}}
    \union {<<"url", "page_url", u>> : u \in {"relative", "ftp"}}
    \union {<<"record", f, FALSE>> : f \in {"object", "manufacturer", "aircraft"}}
    \union {<<"prose", "seats", n>> : n \in {-1, None}}

MCChanged(raw, ch) ==
    CASE ch[1] = "top" -> [raw EXCEPT !.top = With(@, ch[2], ch[3])]
      [] ch[1] \in Sections -> [raw EXCEPT !.nested[ch[1]].entries = With(@, ch[2], ch[3])]
      [] ch[1] = "json" -> [raw EXCEPT !.nested[ch[2]] = [json |-> ch[3], entries |-> <<>>]]
      [] ch[1] = "range" -> [raw EXCEPT !.range = [from |-> Number(ch[2]), to |-> Number(ch[3]), present |-> ch[3] = None]]
      [] ch[1] = "images" ->
            [raw EXCEPT !.images = [json |-> ch[2], items |-> <<[object |-> ch[2] # "scalar", href |-> None, size |-> None],
                                                                [object |-> TRUE, href |-> ch[3], size |-> "blurred"],
                                                                [object |-> FALSE, href |-> None, size |-> None]>>]]
      [] ch[1] = "record" -> [raw EXCEPT ![ch[2]] = FALSE]
      [] ch[1] = "url" -> [raw EXCEPT !.url = ch[3]]
      [] ch[1] = "prose" -> [raw EXCEPT !.prose.seats = ch[3]]

-----------------------------------------------------------------------------
Characters == {"0", ".", "-", ",", "$", "a"}
MCTexts == UNION {[1..n -> Characters] : n \in 0..5}

MCSpellings == UNION {[1..n -> {"a", "0", "-", "A", "_"}] : n \in 0..4}
Values == {None} \union {[number |-> n, unit |-> u] : n \in {1, 2}, u \in {None, "FT", "KNOTS"}}
MCStoredMeasurements ==
    {[raw |-> r, canonical |-> c, publication |-> p, power |-> code, surface |-> surface,
      conditions |-> {code, surface} \ {None}] :
        r, c \in Values, p \in {None, "Published", "Candidate"}, code \in {None} \union StoredPowerSettings,
        surface \in {None} \union StoredSurfaceTypes}

-----------------------------------------------------------------------------
Origin(text, url, host, extra, canonical) ==
    [text |-> text, url |-> url, host |-> host, extra |-> extra, canonical |-> canonical, header |-> canonical \/ text = "*"]
Origins == {Origin("*", FALSE, FALSE, FALSE, FALSE), Origin("", FALSE, FALSE, FALSE, FALSE),
            Origin("x", FALSE, FALSE, FALSE, FALSE), Origin("x", TRUE, FALSE, FALSE, FALSE),
            Origin("x", TRUE, TRUE, TRUE, FALSE), Origin("x", TRUE, TRUE, FALSE, FALSE), Origin("x", TRUE, TRUE, FALSE, TRUE)}
Layers(keys) == {<<>>} \union UNION {{k :> n : n \in {0, 1, MaxPermits, MaxPermits + 1}} : k \in keys}
Tier(code, capacity, refill) == [code |-> code, capacity |-> capacity, refill |-> refill]
Tiers == {<<>>, <<None>>, <<Tier(1, 5, 1)>>, <<Tier(1, 0, 1)>>, <<Tier(1, 5, 1), Tier(1, 6, 1)>>, <<Tier(1, 5, 1), Tier(2, 6, 0)>>,
          <<Tier(None, 5, 1)>>}
Url(parses, postgres, host, path) == [parses |-> parses, postgres |-> postgres, host |-> host, path |-> path]
Server(env, file, defaults, origins, tiers, database, url) ==
    [env |-> env, file |-> file, defaults |-> defaults, origins |-> origins, tiers |-> tiers, database |-> database, url |-> url]
Local == Url(TRUE, TRUE, TRUE, TRUE)
Limited == {"host", "port", "max_request_body_bytes", "request_timeout_seconds", "max_concurrent_requests",
            "rate_limit_capacity", "rate_limit_refill_per_second", "rate_limit_max_buckets"}
MCConfigurations ==
    {Server(env, file, <<>>, <<None>>, <<>>, DatabaseDefaults, Local) : env, file \in Layers(Limited)}
    \union {Server(env, <<>>, defaults, <<o, p>>, tiers, DatabaseDefaults, Local) :
                env, defaults \in Layers({"max_concurrent_requests"}), o, p \in Origins, tiers \in Tiers}
    \union {Server(<<>>, <<>>, <<>>, <<None>>, <<>>, [DatabaseDefaults EXCEPT ![k] = n], url) :
                k \in DOMAIN DatabaseDefaults, n \in {0, 30, 31},
                url \in {None, Local, Url(FALSE, FALSE, FALSE, FALSE), Url(TRUE, FALSE, TRUE, TRUE),
                         Url(TRUE, TRUE, FALSE, FALSE), Url(TRUE, TRUE, FALSE, TRUE)}}
MCIngestConfigurations == {[IngestDefaults EXCEPT ![k] = n] : k \in DOMAIN IngestDefaults, n \in 0..3}

-----------------------------------------------------------------------------
BaseRequest == [perimeter |-> "inside", method |-> "documented", credential |-> "ok", admission |-> "admitted", scope |-> TRUE,
                draining |-> FALSE, named |-> TRUE, match |-> FALSE, query |-> "ok", family |-> "ok", read |-> "ok"]
Reads == {"ok", "none", "Database", "Invariant"}
Differences ==
    [perimeter |-> {"saturated", "cancelled", "late", "too large", "unreadable"}, method |-> {"other"},
     credential |-> {"rejected", "Database", "Invariant"}, admission |-> {"refused", "saturated"}, scope |-> {FALSE},
     draining |-> {TRUE}, named |-> {FALSE}, match |-> {TRUE}, query |-> {"rejected", "not a slug", "bad cursor"},
     family |-> Reads, read |-> Reads]
Differ(requests) == requests \union UNION {UNION {{[r EXCEPT ![k] = v] : v \in Differences[k]} : k \in DOMAIN Differences} : r \in requests}
MCRequests == Differ(Differ({BaseRequest}))
MCPaths == UNION {[1..n -> {"/", "f", "g", "%"}] : n \in 0..4}
MCRequestIds == {<<>>} \union {<<a>> : a \in {"usable", "blank", "long", "control"}} \union {<<"usable", "usable">>}

-----------------------------------------------------------------------------
Row(code, sort, active) == [code |-> code, sort |-> sort, active |-> active, described |-> code = 1]
MCTables == {{Row(code, IF code = first THEN 1 ELSE 2, active) : code \in codes} :
                codes \in SUBSET (1..3), first \in 1..3, active \in BOOLEAN}
            \union {{Row(1, 1, FALSE), Row(2, 1, TRUE)}, {Row(1, 1, FALSE), Row(2, 1, TRUE), Row(3, 2, TRUE)}}
MCHeaders == {<<>>, <<"held">>, <<"weak">>, <<"*">>, <<"other", "held">>, <<"other", "other", "held">>, <<"other", "other", "*">>}

MCClientTokens ==
    {Token(length, json, version, payload) :
        length \in {0, MaxCursorBytes, MaxCursorBytes + 1}, json \in BOOLEAN, version \in {0, 1, 2},
        payload \in {None} \union {[position |-> CursorPosition(sort, last), filter |-> FilterFingerprint(family)] :
                                    sort \in {SlugAscending, "other"}, last \in {1, NotSlug}, family \in Families}}

-----------------------------------------------------------------------------
Migration(version, description, seeds) ==
    [version |-> version, description |-> description, lowercase |-> TRUE, begins |-> TRUE, commits |-> TRUE,
     whole |-> TRUE, seeds |-> seeds, sha256 |-> 1]
Line(kind, of) == [kind |-> kind, of |-> of, comment |-> FALSE]
Lines(m) == <<Line("if", m.version), Line("ir", Name(m)), Line("insert", m.version), Line("endif", None)>>
\* A repository that ships some migrations and mentions each wherever it should.
Repository(migrations) ==
    [files |-> {migrations[i] : i \in DOMAIN migrations},
     needs |-> [units |-> {Name(migrations[1])}, scopes |-> {Name(migrations[2])}],
     lock |-> [schema |-> 1, entries |-> [i \in DOMAIN migrations |-> [file |-> Name(migrations[i]), sha256 |-> 1]]],
     installer |-> Lines(migrations[1]) \o <<Line("seed", "units")>> \o Lines(migrations[2]) \o Lines(migrations[3])
                   \o <<Line("seed", "scopes")>>,
     companions |-> {migrations[i].version : i \in DOMAIN migrations},
     declared |-> [i \in DOMAIN migrations |-> migrations[i].version],
     excluded |-> {Name(migrations[i]) : i \in {j \in DOMAIN migrations : migrations[j].version <= 16}}]
Shipped == <<Migration(16, 1, {}), Migration(17, 1, {"units"}), Migration(18, 1, {})>>
Bases == {Repository(Shipped), Repository([Shipped EXCEPT ![3] = Migration(17, 2, {})]),
          Repository([Shipped EXCEPT ![1] = Shipped[2], ![2] = Shipped[1]])}

Without(s, i) == SubSeq(s, 1, i - 1) \o SubSeq(s, i + 1, Len(s))
Exchanged(s, i, j) == [s EXCEPT ![i] = s[j], ![j] = s[i]]
Versioned(s, at, v) == [i \in DOMAIN s |-> IF i \in at THEN [s[i] EXCEPT !.of = v] ELSE s[i]]
\* Blocks and seeds that are not as they should be.
Misshapen(r) ==
    {r} \union {[r EXCEPT !.installer = Without(@, i)] : i \in {1, 5, 6, 9, 10, 13}}
    \union {[r EXCEPT !.installer = Exchanged(@, i, j)] : i \in {4, 5, 6}, j \in {6, 9}}
    \union UNION {{[r EXCEPT !.installer[i].of = v] : i \in at} \union {[r EXCEPT !.installer = Versioned(@, at, v)]} :
                at \in {{i \in 6..8 : r.installer[i].kind \in {"if", "insert"}}}, v \in {16, 19}}
    \union {[r EXCEPT !.files = (@ \ {m}) \union {[m EXCEPT !.whole = FALSE]}] : m \in r.files}
Oversights(r) ==
    {[r EXCEPT !.installer = Without(@, i)] : i \in {2, 3, 7, 8, 11, 12} \intersect DOMAIN r.installer}
    \union {[r EXCEPT !.installer = SubSeq(@, 1, i) \o SubSeq(@, i, Len(@))] : i \in {7, 8}}
    \union {[r EXCEPT !.installer[i].comment = TRUE] : i \in {7, 8}}
    \union {[r EXCEPT !.installer = Exchanged(@, i, j)] : i \in {2, 7, 8}, j \in {7, 11}}
    \union {[r EXCEPT !.lock.schema = 2], [r EXCEPT !.lock.entries = <<>>],
             [r EXCEPT !.lock.entries = Append(@, [file |-> <<19, 1>>, sha256 |-> 1])],
             [r EXCEPT !.lock.entries = Append(@, [file |-> <<16, 1>>, sha256 |-> 2])],
             [r EXCEPT !.lock.entries = Append(@, [file |-> <<17, 1>>, sha256 |-> Malformed])]}
    \union (UNION {{[r EXCEPT !.files = (@ \ {m}) \union {changed}] :
                    changed \in {[m EXCEPT !.sha256 = 2], [m EXCEPT !.lowercase = FALSE], [m EXCEPT !.version = None, !.description = 10 * VersionOf(m) + @],
                                [m EXCEPT !.begins = FALSE], [m EXCEPT !.commits = FALSE]}} : m \in r.files})
    \union {[r EXCEPT !.files = @ \union {Migration(19, 1, {})}], [r EXCEPT !.files = {m \in @ : m.version # 18}],
             [r EXCEPT !.companions = {18}], [r EXCEPT !.companions = {17, 18}], [r EXCEPT !.declared = None],
             [r EXCEPT !.declared = <<16, 17>>], [r EXCEPT !.declared = <<17, 16, 18>>],
             [r EXCEPT !.excluded = {}], [r EXCEPT !.excluded = @ \union {<<17, 1>>}], r}
MCRepositories == UNION {UNION {Oversights(r) : r \in Oversights(base)} \union UNION {Misshapen(r) : r \in Misshapen(base)} : base \in Bases}
=============================================================================
