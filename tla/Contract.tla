------------------------------ MODULE Contract ------------------------------
(***************************************************************************)
(* The HTTP contract of aircraft_api: what the service answers to a        *)
(* request, and what the OpenAPI document it generates says it may answer. *)
(*                                                                         *)
(* A request is what each layer and handler finds when it looks at it: the *)
(* method and the path, how the perimeter, the credential, the limiter and *)
(* the reads treat it. An answer is a kind, its status and its headers.    *)
(***************************************************************************)
EXTENDS Arms

CONSTANT MaxInstance        \* the longest path a problem reflects

ASSUME InstanceAssumption == MaxInstance \in Nat \ {0}

-----------------------------------------------------------------------------
(* Problems.                                                               *)

ProblemContract ==
    [MalformedInput |-> <<"malformed-input", 400>>, ValidationFailed |-> <<"validation-failed", 400>>,
     AuthenticationRequired |-> <<"authentication-required", 401>>,
     InsufficientScope |-> <<"insufficient-scope", 403>>, NotFound |-> <<"not-found", 404>>,
     MethodNotAllowed |-> <<"method-not-allowed", 405>>, Conflict |-> <<"conflict", 409>>,
     PayloadTooLarge |-> <<"payload-too-large", 413>>, RateLimited |-> <<"rate-limit-exceeded", 429>>,
     DatabaseUnavailable |-> <<"database-unavailable", 503>>, ShuttingDown |-> <<"shutting-down", 503>>,
     ShutdownCancelled |-> <<"shutting-down", 503>>, Overloaded |-> <<"overloaded", 503>>,
     Internal |-> <<"internal-error", 500>>, DeadlineExceeded |-> <<"deadline-exceeded", 504>>]
Problems == DOMAIN ProblemContract

\* A path is a sequence of slashes, hexadecimal digits, other letters, percent
\* and control characters; a URI has no control character.
ValidPercentEncoding(path) ==
    \A i \in DOMAIN path :
        path[i] = "%" => i + 2 <= Len(path) /\ path[i + 1] = "f" /\ path[i + 2] = "f"

\* The path a problem may reflect.
BoundedInstance(path) ==
    LET seen == SubSeq(path, 1, IF Len(path) > MaxInstance + 1 THEN MaxInstance + 1 ELSE Len(path))
    IN  FirstOf(<<<<Len(seen) > MaxInstance, <<"request-path-too-long">>>>,
                  <<\/ \E i \in DOMAIN seen : seen[i] = "ctl"
                    \/ seen = <<>> \/ (seen # <<>> /\ seen[1] # "/")
                    \/ Len(seen) > 1 /\ seen[1] = "/" /\ seen[2] = "/"
                    \/ ~ValidPercentEncoding(seen), <<"invalid-request-path">>>>,
                  <<TRUE, seen>>>>)

\* The headers a problem adds to the document's own.
ProblemHeaders ==
    [k \in Problems |->
        {"Content-Type", "X-Request-Id"}
        \union (IF k = "AuthenticationRequired" THEN {"WWW-Authenticate"} ELSE {})
        \union (IF k = "RateLimited" THEN {"Retry-After"} ELSE {})
        \union (IF k = "MethodNotAllowed" THEN {"Allow"} ELSE {})]

\* The request id of the answer: the caller's when it sent exactly one and that
\* is usable, else a new one. An id is whether it is 1 to 128 visible characters.
RequestId(ids) == IF Len(ids) = 1 /\ ids[1] = "usable" THEN ids[1] ELSE "generated"

Answer(kind, status, headers) == [kind |-> kind, status |-> status, headers |-> headers]
Problem(kind) == Answer(kind, ProblemContract[kind][2], ProblemHeaders[kind])
Success(status, headers) == Answer("success", status, headers \union {"X-Request-Id"})

\* What the extractor of a query makes of a rejection.
QueryRejection == Problem("ValidationFailed")

\* A failed read: an outage, or an answer that breaks a rule of this service.
ReadFailure(error) == Problem(IF error = "Database" THEN "DatabaseUnavailable" ELSE "Internal")

-----------------------------------------------------------------------------
(* Routes, and the policy each is registered under.                        *)

RouteTable ==
    [health |-> "Public", ready |-> "Public", version |-> "Public",
     catalog |-> "CatalogRead", list_models |-> "CatalogRead", model |-> "CatalogRead"]
Routes == DOMAIN RouteTable

\* The handlers. A read is "ok", "none" or its error.
Health == Success(200, {})
Version == Success(200, {})

Ready(r) ==
    IF r.draining THEN Problem("ShuttingDown")
    ELSE IF r.read = "ok" THEN Success(200, {}) ELSE Problem("DatabaseUnavailable")

Catalog(r) ==
    FirstOf(<<<<~r.named, Problem("NotFound")>>, <<r.read \notin {"ok", "none"}, ReadFailure(r.read)>>,
              <<r.match, Success(304, {"ETag", "Cache-Control"})>>,
              <<TRUE, Success(200, {"ETag", "Cache-Control"})>>>>)

ListModels(r) ==
    FirstOf(<<<<r.query = "rejected", QueryRejection>>, <<r.query = "not a slug", Problem("ValidationFailed")>>,
              <<r.family = "none", Problem("NotFound")>>, <<r.family # "ok", ReadFailure(r.family)>>,
              <<r.query = "bad cursor", Problem("ValidationFailed")>>,
              <<r.read \notin {"ok", "none"}, ReadFailure(r.read)>>, <<TRUE, Success(200, {})>>>>)

Model(r) ==
    FirstOf(<<<<~r.named \/ r.read = "none", Problem("NotFound")>>,
              <<r.read # "ok", ReadFailure(r.read)>>, <<TRUE, Success(200, {})>>>>)

Handled(route, r) ==
    CASE route = "health" -> Health [] route = "version" -> Version [] route = "ready" -> Ready(r)
      [] route = "catalog" -> Catalog(r) [] route = "list_models" -> ListModels(r) [] route = "model" -> Model(r)

\* Policed: the credential, then the limiter, then the scope, then the handler.
Policed(route, r) ==
    IF RouteTable[route] = "Public" THEN Handled(route, r)
    ELSE FirstOf(<<<<r.credential = "rejected", Problem("AuthenticationRequired")>>,
                   <<r.credential # "ok", ReadFailure(r.credential)>>,
                   <<r.admission = "refused", Problem("RateLimited")>>,
                   <<r.admission = "saturated", Problem("Overloaded")>>,
                   <<~r.scope, Problem("InsufficientScope")>>, <<TRUE, Handled(route, r)>>>>)

\* The perimeter, outermost first, around the router and its fallbacks.
Answered(route, r) ==
    FirstOf(<<<<r.perimeter = "saturated", Problem("Overloaded")>>,
              <<r.perimeter = "cancelled", Problem("ShutdownCancelled")>>,
              <<r.perimeter = "late", Problem("DeadlineExceeded")>>,
              <<r.perimeter = "too large", Problem("PayloadTooLarge")>>,
              <<r.perimeter = "unreadable", Problem("MalformedInput")>>,
              <<r.method = "other", Problem("MethodNotAllowed")>>,
              <<TRUE, Policed(route, r)>>>>)
Unmatched == Problem("NotFound")

-----------------------------------------------------------------------------
(* The document: the statuses of an operation, and the headers of each.    *)

PerimeterResponses == {400, 413, 503, 504}

\* What each handler's own declaration lists.
DeclaredHealth == {200}
DeclaredVersion == {200}
DeclaredReady == {200, 503}
DeclaredCatalog == {200, 304, 404, 503}
DeclaredListModels == {200, 400, 404, 503}
DeclaredModel == {200, 404, 503}
Declared ==
    [health |-> DeclaredHealth, version |-> DeclaredVersion, ready |-> DeclaredReady,
     catalog |-> DeclaredCatalog, list_models |-> DeclaredListModels, model |-> DeclaredModel]

\* Fault: the limiter's answer is left to each declaration.
PolicyResponses_undeclared(policy) == IF policy = "Public" THEN {} ELSE {401, 403}

PolicyResponses(policy) == IF policy = "Public" THEN {} ELSE {401, 403, 429}

Published(route) == Declared[route] \union PerimeterResponses \union PolicyResponses(RouteTable[route])

\* The headers the document promises with a status.
PublishedHeaders(route, status) ==
    {"X-Request-Id"} \union (IF status = 401 THEN {"WWW-Authenticate"} ELSE {})
                     \union (IF status = 429 THEN {"Retry-After"} ELSE {})
                     \union (IF route = "catalog" /\ status \in {200, 304} THEN {"ETag", "Cache-Control"} ELSE {})
Secured(route) == RouteTable[route] # "Public"
=============================================================================
