------------------------------ MODULE Settings ------------------------------
(***************************************************************************)
(* How a process is configured: the four sources of a setting, what each   *)
(* loader refuses (aircraft_config), and what the composition root builds  *)
(* from what they accept (apps/server): the pool, the perimeter's limits   *)
(* and the rate-limit policy. A setting is a number, an origin or a URL as *)
(* the checks tell them apart.                                             *)
(***************************************************************************)
EXTENDS Arms

CONSTANTS MaxPermits,       \* the most permits a semaphore can be built with
          MaxStatementMs    \* the longest statement timeout PostgreSQL takes

ASSUME SettingsAssumption == MaxPermits \in Nat \ {0} /\ MaxStatementMs \in Nat \ {0}

-----------------------------------------------------------------------------
(* Sources, highest first: the environment, config.json5, defaults.json5,  *)
(* the built-in defaults.                                                  *)

Sources(env, file, defaults, builtin) == <<env, file, defaults, builtin>>

Effective(env, file, defaults, builtin) ==
    LET from == Sources(env, file, defaults, builtin)
        at(k) == FirstOf([i \in 1..4 |-> <<k \in DOMAIN from[i], i>>])
    IN  [k \in DOMAIN builtin |-> from[at(k)][k]]

HttpDefaults ==
    [host |-> 1, port |-> 8080, grace |-> 30, max_request_body_bytes |-> 1048576,
     request_timeout_seconds |-> 30, max_concurrent_requests |-> 256, rate_limit_capacity |-> 60,
     rate_limit_refill_per_second |-> 10, rate_limit_max_buckets |-> 10000]
DatabaseDefaults == [max_connections |-> 10, acquire_timeout_seconds |-> 5, statement_timeout_seconds |-> 30]
IngestDefaults == [max_input_bytes |-> 512 * 1024 * 1024, lock_timeout_seconds |-> 5,
                   statement_timeout_seconds |-> 1800, max_connections |-> 5]

\* A list is split at its commas and keeps its interior blanks.
CommaSeparated(entries) == IF entries = <<None>> THEN <<>> ELSE entries

-----------------------------------------------------------------------------
(* What the loaders refuse: None, or the setting that is named.            *)

\* An origin as it is written: the wildcard, blank or a text, and whether that
\* parses, names a host, has more than a scheme, a host and a port, is spelled
\* as a browser spells it, and can be the value of a header.
ValidateOrigin(o) ==
    FirstOf(<<<<o.text = "*", "wildcard">>, <<o.text = "", "blank">>, <<~o.url, "not a URL">>, <<~o.host, "no host">>,
              <<o.extra, "more than an origin">>, <<~o.canonical, "not the browser's spelling">>>>)

Zero(settings, key) == <<settings[key] = 0, key>>

\* Fault: the concurrency has no ceiling.
PerimeterArms_unbounded(h) ==
    <<Zero(h, "max_request_body_bytes"), Zero(h, "request_timeout_seconds"), Zero(h, "max_concurrent_requests"),
      Zero(h, "rate_limit_capacity"), Zero(h, "rate_limit_refill_per_second"), Zero(h, "rate_limit_max_buckets")>>

PerimeterArms(h) ==
    <<Zero(h, "max_request_body_bytes"), Zero(h, "request_timeout_seconds"), Zero(h, "max_concurrent_requests"),
      Zero(h, "rate_limit_capacity"), Zero(h, "rate_limit_refill_per_second"), Zero(h, "rate_limit_max_buckets"),
      <<h.max_concurrent_requests > MaxPermits, "max_concurrent_requests">>>>

LoadHttp(h, origins) ==
    FirstOf(<<Zero(h, "host"), Zero(h, "port")>> \o PerimeterArms(h)
            \o [i \in DOMAIN origins |-> <<ValidateOrigin(origins[i]) # None, "cors_allowed_origins">>])

\* A database URL: blank, or whether it parses, its scheme, its host and path.
LoadDatabase(d, url) ==
    FirstOf(<<<<url = None, "url">>, <<url # None /\ ~url.parses, "url">>, <<url # None /\ ~url.postgres, "url">>,
              <<url # None /\ ~url.host /\ ~url.path, "url">>,
              Zero(d, "max_connections"), Zero(d, "acquire_timeout_seconds"), Zero(d, "statement_timeout_seconds")>>)

\* An import holds one connection and audits on another.
LoadIngest(g) ==
    FirstOf(<<Zero(g, "max_input_bytes"), Zero(g, "lock_timeout_seconds"), Zero(g, "statement_timeout_seconds"),
              <<g.max_connections < 2, "max_connections">>>>)
LoadArtifact(g) == FirstOf(<<Zero(g, "max_input_bytes")>>)

-----------------------------------------------------------------------------
(* What the server builds: ok, an error that names the setting, or a panic. *)

\* Every connection of the pool sets its statement timeout, in milliseconds.
Connect(d) == IF d.statement_timeout_seconds * 1000 > MaxStatementMs THEN "error" ELSE "ok"

\* AllowOrigin::list panics on the wildcard; an origin becomes a header value.
NewLimits(origins) ==
    IF \E i \in DOMAIN origins : origins[i].text = "*" \/ ~origins[i].header THEN "error" ELSE "ok"

\* Semaphore::new panics above its ceiling.
Permits(h) == IF h.max_concurrent_requests > MaxPermits THEN "panic" ELSE "ok"

NewQuota(capacity, refill) == IF capacity = 0 \/ refill = 0 THEN "error" ELSE "ok"

\* A tier is CODE:capacity:refill, or not that; a code is named once.
NewPolicy(maxBuckets, tiers) ==
    LET refused(i) == \/ tiers[i] = None \/ NewQuota(tiers[i].capacity, tiers[i].refill) # "ok"
                      \/ tiers[i].code = None
                      \/ \E j \in 1..(i - 1) : tiers[j] # None /\ tiers[j].code = tiers[i].code
    IN  IF maxBuckets = 0 \/ \E i \in DOMAIN tiers : refused(i) THEN "error" ELSE "ok"

\* The quota of a tier's code, named or not.
QuotaFor(h, tiers, code) ==
    LET named == {i \in DOMAIN tiers : tiers[i] # None /\ tiers[i].code = code}
    IN  IF named = {} THEN [capacity |-> h.rate_limit_capacity, refill |-> h.rate_limit_refill_per_second]
        ELSE [capacity |-> tiers[CHOOSE i \in named : TRUE].capacity,
              refill |-> tiers[CHOOSE i \in named : TRUE].refill]

\* main, up to the listener: what is built, in the order it is built.
Boot(h, origins, tiers, d, url) ==
    FirstOf(<<<<LoadHttp(h, origins) # None, "refused">>, <<LoadDatabase(d, url) # None, "refused">>,
              <<Connect(d) # "ok", "error">>, <<NewLimits(origins) # "ok", "unreachable error">>,
              <<NewQuota(h.rate_limit_capacity, h.rate_limit_refill_per_second) # "ok", "unreachable error">>,
              <<NewPolicy(h.rate_limit_max_buckets, tiers) # "ok", "error">>,
              <<Permits(h) # "ok", "panic">>, <<TRUE, "serves">>>>)
=============================================================================
