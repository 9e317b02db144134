---------------------------- MODULE Rules_proofs ----------------------------
(***************************************************************************)
(* What is proved of the decisions that keep no state: for every input the *)
(* program can be given, not only for a good one and what is changed of    *)
(* it. The state remembers one question and its answer (Decided), and      *)
(* each property is then a fact about the operators that decide.           *)
(***************************************************************************)
EXTENDS Rules, FiniteSetTheorems, SequenceTheorems, TLAPS

-----------------------------------------------------------------------------
(* Numbers, and the first arm that applies.                                *)

Below(S, n) == {k \in S : k < n}

(* A finite set of integers that is not empty has a least member: the sets *)
(* of what is below each of its members are well founded.                  *)
LEMMA LeastOfFinite ==
  ASSUME NEW S \in SUBSET Int, IsFiniteSet(S), S # {}
  PROVE  \E m \in S : \A k \in S : m <= k
<1> DEFINE T == {Below(S, m) : m \in S}
           R == StrictSubsetOrdering(S)
           F == FiniteSubsetsOf(S)
<1>1. IsWellFoundedOn(R, F)
  BY FS_StrictSubsetOrderingWellFounded
<1>2. \A m \in S : Below(S, m) \in SUBSET S
  BY DEF Below
<1>3. T \subseteq F /\ T # {}
  <2>1. \A m \in S : Below(S, m) \in F
    BY <1>2, FS_Subset DEF FiniteSubsetsOf
  <2> QED
    BY <2>1
<1>4. \E x \in T : \A y \in T : ~ (<<y, x>> \in R)
  <2> HIDE DEF T, R, F
  <2> QED
    BY <1>1, <1>3, WFMin
<1>5. PICK m \in S : \A k \in S : ~ (<<Below(S, k), Below(S, m)>> \in R)
  BY <1>4
<1>6. ASSUME NEW k \in S, k < m PROVE FALSE
  <2>1. k \in Int /\ m \in Int
    OBVIOUS
  <2>2. ASSUME NEW j \in S, j < k PROVE j < m
    <3>1. j \in Int
      OBVIOUS
    <3> QED
      BY <3>1, <2>1, <2>2, <1>6
  <2>3. k \in Below(S, m) /\ k \notin Below(S, k)
    BY <1>6, <2>1 DEF Below
  <2>4. Below(S, k) \subseteq Below(S, m) /\ Below(S, k) # Below(S, m)
    BY <2>2, <2>3 DEF Below
  <2>5. <<Below(S, k), Below(S, m)>> \in R
    BY <1>2, <2>4 DEF StrictSubsetOrdering
  <2> QED
    BY <1>5, <2>5
<1>7. \A k \in S : k \in Int /\ m \in Int
  OBVIOUS
<1> QED
  BY <1>6, <1>7

(* A set of naturals has one whether it is finite or not.                  *)
LEMMA LeastNat ==
  ASSUME NEW S \in SUBSET Nat, S # {}
  PROVE  \E m \in S : \A k \in S : m <= k
<1>1. PICK n \in S : TRUE
  OBVIOUS
<1> DEFINE V == {m \in S : m <= n}
<1>2. n \in Nat /\ V \in SUBSET Int /\ n \in V /\ V \in SUBSET (0..n)
  <2>1. n \in Nat /\ \A m \in S : m \in Nat
    OBVIOUS
  <2>2. \A m \in V : m \in Int /\ m \in 0..n
    BY <2>1
  <2>3. n \in V
    BY <2>1
  <2> HIDE DEF V
  <2> QED
    BY <2>1, <2>2, <2>3
<1>3. IsFiniteSet(V)
  <2>1. IsFiniteSet(0..n)
    BY <1>2, FS_Interval
  <2> QED
    BY <1>2, <2>1, FS_Subset
<1>4. PICK m \in V : \A k \in V : m <= k
  <2> HIDE DEF V
  <2> QED
    BY <1>2, <1>3, LeastOfFinite
<1>5. ASSUME NEW k \in S PROVE m <= k
  <2>1. k \in Nat /\ m \in Nat /\ m <= n
    BY <1>2
  <2>2. CASE k <= n
    BY <2>2, <1>4
  <2>3. CASE n < k
    BY <2>1, <2>3
  <2> QED
    BY <1>2, <2>1, <2>2, <2>3
<1> QED
  BY <1>5

(* FirstOf is the result of the arm that no earlier one stands before.     *)
LEMMA FirstHit ==
  ASSUME NEW arms, NEW n \in Nat, DOMAIN arms = 1..n, NEW k \in 1..n, arms[k][1],
         \A j \in 1..n : j < k => ~arms[j][1]
  PROVE  FirstOf(arms) = arms[k][2]
<1> DEFINE hits == {i \in DOMAIN arms : arms[i][1]}
<1>1. k \in hits /\ \A j \in hits : k <= j
  OBVIOUS
<1>2. \A i \in hits : (\A j \in hits : i <= j) => i = k
  BY <1>1
<1>3. (CHOOSE i \in hits : \A j \in hits : i <= j) = k
  BY <1>1, <1>2
<1> QED
  BY <1>1, <1>3 DEF FirstOf

(* It is None when there is no such arm.                                   *)
LEMMA NoHit ==
  ASSUME NEW arms, \A i \in DOMAIN arms : ~arms[i][1]
  PROVE  FirstOf(arms) = None
  BY DEF FirstOf

(* When an arm applies, a first one does.                                  *)
LEMMA SomeHit ==
  ASSUME NEW arms, NEW n \in Nat, DOMAIN arms = 1..n, NEW h \in 1..n, arms[h][1]
  PROVE  \E k \in 1..n : /\ arms[k][1] /\ \A j \in 1..n : j < k => ~arms[j][1]
                         /\ FirstOf(arms) = arms[k][2]
<1> DEFINE hits == {i \in 1..n : arms[i][1]}
<1>1. hits \in SUBSET Nat /\ hits # {}
  OBVIOUS
<1>2. PICK k \in hits : \A j \in hits : k <= j
  <2> HIDE DEF hits
  <2> QED
    BY <1>1, LeastNat
<1>3. k \in 1..n /\ arms[k][1] /\ \A j \in 1..n : j < k => ~arms[j][1]
  BY <1>2
<1> QED
  BY <1>3, FirstHit

-----------------------------------------------------------------------------
(* The question that was asked and the answer that was told: the state has *)
(* no other meaning.                                                       *)

RecordDecided ==
    asked.kind = "record" => /\ \E a, b \in Changes : asked.raw = Changed(Changed(BaseRecord, a), b)
                             /\ told = NormalizeRecord(asked.raw)
NumberDecided == asked.kind = "number" => asked.text \in Texts /\ told = ParseNumeric(asked.text)
SpellingDecided ==
    asked.kind = "spelling" => /\ asked.text \in Spellings
                               /\ told = [slug |-> Slug(asked.text), code |-> LookupCode(asked.text)]
MeasurementDecided == asked.kind = "measurement" => asked.row \in StoredMeasurements /\ told = OnTheWire(asked.row)
SettingsDecided == asked.kind = "settings" => asked.given \in Configurations /\ told = Started(asked.given)
IngestDecided ==
    asked.kind = "ingest" => /\ asked.given \in IngestConfigurations
                             /\ told = [import |-> LoadIngest(asked.given), validate |-> LoadArtifact(asked.given)]
RequestDecided ==
    asked.kind = "request" => /\ asked.route \in Routes /\ asked.request \in Requests
                              /\ told = Answered(asked.route, asked.request)
ProblemDecided ==
    asked.kind = "problem" => /\ asked.path \in Paths /\ asked.ids \in RequestIds
                              /\ told = [instance |-> BoundedInstance(asked.path), id |-> RequestId(asked.ids),
                                         answer |-> Unmatched]
CatalogDecided ==
    asked.kind = "catalog" => /\ asked.name \in DOMAIN CatalogShapes \union {"other"}
                              /\ asked.rows \in Tables /\ asked.header \in Headers
                              /\ \E rows \in Tables : asked.held = ReadCatalog(asked.name, rows, <<>>)
                              /\ told = ReadCatalog(asked.name, asked.rows, Tagged(asked.header, asked.held.body))
CursorDecided ==
    asked.kind = "cursor" => /\ asked.last \in 1..MaxSlugLength /\ asked.issued \in Families /\ asked.family \in Families
                             /\ told = After(NextCursor(asked.last, asked.issued), asked.family, asked.sort)
TokenDecided ==
    asked.kind = "token" => asked.token \in ClientTokens /\ told = After(asked.token, asked.family, asked.sort)
HistoryDecided == asked.kind = "history" => asked.repository \in Repositories /\ told = CheckHistory(asked.repository)

\* The inductive invariant: an answer is the one of its question.
Decided == /\ RecordDecided /\ NumberDecided /\ SpellingDecided /\ MeasurementDecided /\ SettingsDecided
           /\ IngestDecided /\ RequestDecided /\ ProblemDecided /\ CatalogDecided /\ CursorDecided /\ TokenDecided
           /\ HistoryDecided

(* Whatever is asked, the answer is the one of its question.               *)
LEMMA SpecDecided == Spec => []Decided
<1> USE DEF Decided, RecordDecided, NumberDecided, SpellingDecided, MeasurementDecided, SettingsDecided,
             IngestDecided, RequestDecided, ProblemDecided, CatalogDecided, CursorDecided, TokenDecided, HistoryDecided
<1>1. Init => Decided
  BY DEF Init
<1>2. Decided /\ [Next]_vars => Decided'
  <2> SUFFICES ASSUME Decided, [Next]_vars PROVE Decided'
    OBVIOUS
  <2>1. ASSUME NEW a \in Changes, NEW b \in Changes, Normalize(Changed(Changed(BaseRecord, a), b))
        PROVE  Decided'
    BY <2>1 DEF Normalize, Ask
  <2>2. ASSUME NEW text \in Texts, Parse(text)
        PROVE  Decided'
    BY <2>2 DEF Parse, Ask
  <2>3. ASSUME NEW text \in Spellings, Spell(text)
        PROVE  Decided'
    BY <2>3 DEF Spell, Ask
  <2>4. ASSUME NEW row \in StoredMeasurements, Publish(row)
        PROVE  Decided'
    BY <2>4 DEF Publish, Ask
  <2>5. ASSUME NEW c \in Configurations, Start(c)
        PROVE  Decided'
    BY <2>5 DEF Start, Ask
  <2>6. ASSUME NEW g \in IngestConfigurations, StartImport(g)
        PROVE  Decided'
    BY <2>6 DEF StartImport, Ask
  <2>7. ASSUME NEW route \in Routes, NEW r \in Requests, Call(route, r)
        PROVE  Decided'
    BY <2>7 DEF Call, Ask
  <2>8. ASSUME NEW path \in Paths, NEW ids \in RequestIds, Refuse(path, ids)
        PROVE  Decided'
    BY <2>8 DEF Refuse, Ask
  <2>9. ASSUME NEW name \in DOMAIN CatalogShapes \union {"other"}, NEW rows \in Tables, NEW later \in Tables,
               NEW header \in Headers, Revalidate(name, rows, later, header)
        PROVE  Decided'
    BY <2>9 DEF Revalidate, Ask
  <2>10. ASSUME NEW last \in 1..MaxSlugLength, NEW issued \in Families, NEW family \in Families, NEW sort,
               Resume(last, issued, family, sort)
        PROVE  Decided'
    BY <2>10 DEF Resume, Ask
  <2>11. ASSUME NEW token \in ClientTokens, NEW family, NEW sort, Forge(token, family, sort)
        PROVE  Decided'
    BY <2>11 DEF Forge, Ask
  <2>12. ASSUME NEW r \in Repositories, CheckMigrations(r)
        PROVE  Decided'
    BY <2>12 DEF CheckMigrations, Ask
  <2>13. CASE Return
    BY <2>13 DEF Return
  <2>14. CASE UNCHANGED vars
    BY <2>14 DEF vars
  <2> QED
    BY <2>1, <2>2, <2>3, <2>4, <2>5, <2>6, <2>7, <2>8, <2>9, <2>10, <2>11, <2>12, <2>13, <2>14 DEF Next
<1> HIDE DEF Decided
<1> QED
  BY <1>1, <1>2, PTL DEF Spec

-----------------------------------------------------------------------------
(* Cursors.                                                                *)

\* The arms of decode.
DecodeArms(token, filters) ==
    <<<<token.length > MaxCursorBytes \/ ~token.json, "Malformed">>,
      <<token.version # CursorVersion, "UnsupportedVersion">>, <<token.payload = None, "Malformed">>,
      <<token.payload # None /\ token.payload.filter # filters, "FilterMismatch">>, <<TRUE, "ok">>>>

(* decode accepts a token that no check of it refuses, and no other.       *)
LEMMA DecodeOk ==
  ASSUME NEW token, NEW filters
  PROVE  Decode(token, filters) = "ok"
         <=> /\ ~(token.length > MaxCursorBytes \/ ~token.json) /\ token.version = CursorVersion
             /\ token.payload # None /\ token.payload.filter = filters
<1> DEFINE a == DecodeArms(token, filters)
<1>1. DOMAIN a = 1..5 /\ 5 \in Nat /\ 5 \in 1..5
  BY DEF DecodeArms
<1>h1. a[1][1] <=> (token.length > MaxCursorBytes \/ ~token.json)
  BY DEF DecodeArms
<1>h2. a[2][1] <=> token.version # CursorVersion
  BY DEF DecodeArms
<1>h3. a[3][1] <=> token.payload = None
  BY DEF DecodeArms
<1>h4. a[4][1] <=> (token.payload # None /\ token.payload.filter # filters)
  BY DEF DecodeArms
<1>h5. a[5][1]
  BY DEF DecodeArms
<1>2. a[1][2] = "Malformed" /\ a[2][2] = "UnsupportedVersion" /\ a[3][2] = "Malformed" /\ a[4][2] = "FilterMismatch" /\ a[5][2] = "ok"
  BY DEF DecodeArms
<1>3. Decode(token, filters) = FirstOf(a)
  BY DEF Decode, DecodeArms
<1>4. PICK k \in 1..5 : a[k][1] /\ (\A j \in 1..5 : j < k => ~a[j][1]) /\ FirstOf(a) = a[k][2]
  <2> HIDE DEF a
  <2> QED
    BY <1>1, <1>h5, SomeHit
<1> HIDE DEF a
<1>5. k = 1 \/ k = 2 \/ k = 3 \/ k = 4 \/ k = 5
  OBVIOUS
<1> QED
  BY <1>h1, <1>h2, <1>h3, <1>h4, <1>2, <1>3, <1>4, <1>5

(* A cursor of the service resumes at its row for its own filters and sort *)
(* and for no others, and a token from elsewhere that resumes has the      *)
(* version, the sort and the filters it is used with: CursorsAreBound, for *)
(* a service whose slugs are short enough for its own cursors.             *)
THEOREM CursorsBound ==
  ASSUME TokenLength(MaxSlugLength) <= MaxCursorBytes
  PROVE  Spec => []CursorsAreBound
<1>1. Decided => CursorsAreBound
  <2> SUFFICES ASSUME Decided PROVE CursorsAreBound
    OBVIOUS
  <2>1. ASSUME asked.kind = "cursor"
        PROVE  told = IF asked.issued = asked.family /\ asked.sort = SlugAscending THEN asked.last ELSE None
    <3> DEFINE last == asked.last
               cursor == NextCursor(asked.last, asked.issued)
    <3>1. last \in 1..MaxSlugLength /\ asked.issued \in Families /\ told = After(cursor, asked.family, asked.sort)
      BY <2>1 DEF Decided, CursorDecided
    <3>2. cursor.payload # None /\ last # NotSlug
      BY <3>1, CursorsAssumption
    <3>3. TokenLength(last) <= MaxCursorBytes /\ TokenLength(last) \in Nat
      BY <3>1, ReferencesAssumption DEF TokenLength
    <3>4. /\ cursor.length = TokenLength(last) /\ cursor.json = TRUE /\ cursor.version = CursorVersion
          /\ cursor.payload.filter = FilterFingerprint(asked.issued)
          /\ cursor.payload.position.sort = SlugAscending /\ cursor.payload.position.last_value = last
      BY DEF NextCursor, Encode, Token, CursorPosition
    <3>5. FilterFingerprint(asked.issued) = FilterFingerprint(asked.family) <=> asked.issued = asked.family
      BY DEF FilterFingerprint
    <3>6. ~(cursor.length > MaxCursorBytes)
      BY <3>3, <3>4, ReferencesAssumption
    <3> HIDE DEF last, cursor
    <3>7. Decode(cursor, FilterFingerprint(asked.family)) = "ok" <=> asked.issued = asked.family
      BY <3>2, <3>4, <3>5, <3>6, DecodeOk
    <3> QED
      BY <3>1, <3>2, <3>4, <3>7 DEF After, last
  <2>2. ASSUME asked.kind = "token", told # None
        PROVE  /\ asked.token.version = CursorVersion /\ asked.token.json /\ asked.token.length <= MaxCursorBytes
               /\ told = asked.token.payload.position.last_value /\ told # NotSlug
               /\ asked.token.payload.position.sort = asked.sort
               /\ asked.token.payload.filter = FilterFingerprint(asked.family)
    <3>1. asked.token \in ClientTokens /\ told = After(asked.token, asked.family, asked.sort)
      BY <2>2 DEF Decided, TokenDecided
    <3>2. /\ Decode(asked.token, FilterFingerprint(asked.family)) = "ok"
          /\ asked.token.payload.position.sort = asked.sort
          /\ told = asked.token.payload.position.last_value /\ told # NotSlug
      BY <2>2, <3>1 DEF After
    <3>3. /\ ~(asked.token.length > MaxCursorBytes \/ ~asked.token.json) /\ asked.token.version = CursorVersion
          /\ asked.token.payload.filter = FilterFingerprint(asked.family)
      BY <3>2, DecodeOk
    <3>4. asked.token.length \in Nat /\ MaxCursorBytes \in Nat
      BY <3>1, ClientTokensAssumption, ReferencesAssumption
    <3>5. asked.token.length <= MaxCursorBytes
      BY <3>3, <3>4
    <3> QED
      BY <3>2, <3>3, <3>5
  <2> QED
    BY <2>1, <2>2 DEF CursorsAreBound
<1> QED
  BY <1>1, SpecDecided, PTL

-----------------------------------------------------------------------------
(* Answers.                                                                *)

\* What the document asks of an answer to an operation.
Fits(route, answer) ==
    /\ answer.status \in Published(route) \union {500}
    /\ PublishedHeaders(route, answer.status) \subseteq answer.headers
    /\ answer.status \in {401, 403, 429} => Secured(route)

(* A problem of the perimeter or of a read is published for every route.   *)
LEMMA ProblemFits ==
  ASSUME NEW route \in Routes,
         NEW kind \in {"Overloaded", "ShutdownCancelled", "DeadlineExceeded", "PayloadTooLarge", "MalformedInput",
                       "ValidationFailed", "DatabaseUnavailable", "ShuttingDown", "Internal"}
  PROVE  Fits(route, Problem(kind))
<1>1. kind \in Problems /\ Problem(kind).status \in {400, 413, 500, 503, 504}
  BY DEF Problem, Answer, ProblemContract, Problems
<1>2. "X-Request-Id" \in Problem(kind).headers
  BY <1>1 DEF Problem, Answer, ProblemHeaders
<1>3. PublishedHeaders(route, Problem(kind).status) = {"X-Request-Id"}
  BY <1>1 DEF PublishedHeaders
<1>4. Problem(kind).status \in Published(route) \union {500}
  BY <1>1 DEF Published, PerimeterResponses
<1> QED
  BY <1>1, <1>2, <1>3, <1>4 DEF Fits

(* A failed read is such a problem.                                        *)
LEMMA ReadFailureFits ==
  ASSUME NEW route \in Routes, NEW error
  PROVE  Fits(route, ReadFailure(error))
  BY ProblemFits DEF ReadFailure

(* What the policy of a secured route refuses is published for it.         *)
LEMMA RefusalFits ==
  ASSUME NEW route \in Routes, Secured(route),
         NEW kind \in {"AuthenticationRequired", "RateLimited", "InsufficientScope"}
  PROVE  Fits(route, Problem(kind))
<1>1. Problem(kind).status \in Published(route)
  BY DEF Problem, Answer, ProblemContract, Published, PolicyResponses, Secured
<1>2. PublishedHeaders(route, Problem(kind).status) \subseteq Problem(kind).headers
  BY DEF Problem, Answer, ProblemContract, Problems, ProblemHeaders, PublishedHeaders
<1> QED
  BY <1>1, <1>2 DEF Fits

(* What a handler of a catalog or of models does not find is published.    *)
LEMMA NotFoundFits ==
  ASSUME NEW route \in {"catalog", "list_models", "model"}
  PROVE  Fits(route, Problem("NotFound"))
<1>1. Problem("NotFound").status = 404 /\ "X-Request-Id" \in Problem("NotFound").headers
  BY DEF Problem, Answer, ProblemContract, Problems, ProblemHeaders
<1>2. 404 \in Published(route)
  BY DEF Published, Declared, DeclaredCatalog, DeclaredListModels, DeclaredModel
<1>3. PublishedHeaders(route, 404) = {"X-Request-Id"}
  BY DEF PublishedHeaders
<1> QED
  BY <1>1, <1>2, <1>3 DEF Fits

(* So is what each handler gives: a catalog with its validators.           *)
LEMMA SuccessFits ==
  ASSUME NEW route \in Routes
  PROVE  /\ route # "catalog" => Fits(route, Success(200, {}))
         /\ route = "catalog" => \A status \in {200, 304} : Fits(route, Success(status, {"ETag", "Cache-Control"}))
<1>1. ASSUME route # "catalog" PROVE Fits(route, Success(200, {}))
  <2>1. 200 \in Published(route)
    BY DEF Published, Declared, DeclaredHealth, DeclaredVersion, DeclaredReady, DeclaredListModels, DeclaredModel,
           DeclaredCatalog, Routes, RouteTable
  <2>2. PublishedHeaders(route, 200) = {"X-Request-Id"}
    BY <1>1 DEF PublishedHeaders
  <2> QED
    BY <2>1, <2>2 DEF Fits, Success, Answer
<1>2. ASSUME route = "catalog", NEW status \in {200, 304} PROVE Fits(route, Success(status, {"ETag", "Cache-Control"}))
  <2>1. status \in Published(route)
    BY <1>2 DEF Published, Declared, DeclaredCatalog
  <2>2. PublishedHeaders(route, status) = {"X-Request-Id", "ETag", "Cache-Control"}
    BY <1>2 DEF PublishedHeaders
  <2> QED
    BY <2>1, <2>2 DEF Fits, Success, Answer
<1> QED
  BY <1>1, <1>2

(* The handler of the reference catalogs.                                  *)
LEMMA CatalogFits ==
  ASSUME NEW r
  PROVE  Fits("catalog", Catalog(r))
<1> DEFINE a == <<<<~r.named, Problem("NotFound")>>, <<r.read \notin {"ok", "none"}, ReadFailure(r.read)>>,
                  <<r.match, Success(304, {"ETag", "Cache-Control"})>>,
                  <<TRUE, Success(200, {"ETag", "Cache-Control"})>>>>
<1>1. DOMAIN a = 1..4 /\ 4 \in Nat /\ 4 \in 1..4 /\ a[4][1]
  OBVIOUS
<1>2. /\ a[1][2] = Problem("NotFound") /\ a[2][2] = ReadFailure(r.read)
      /\ a[3][2] = Success(304, {"ETag", "Cache-Control"}) /\ a[4][2] = Success(200, {"ETag", "Cache-Control"})
  OBVIOUS
<1>3. Catalog(r) = FirstOf(a)
  BY DEF Catalog
<1> HIDE DEF a
<1>4. PICK k \in 1..4 : FirstOf(a) = a[k][2]
  BY <1>1, SomeHit
<1>5. k = 1 \/ k = 2 \/ k = 3 \/ k = 4
  OBVIOUS
<1>6. "catalog" \in Routes
  BY DEF Routes, RouteTable
<1> QED
  BY <1>2, <1>3, <1>4, <1>5, <1>6, NotFoundFits, ReadFailureFits, SuccessFits

(* The handler of the list of models.                                      *)
LEMMA ListModelsFits ==
  ASSUME NEW r
  PROVE  Fits("list_models", ListModels(r))
<1> DEFINE a == <<<<r.query = "rejected", QueryRejection>>, <<r.query = "not a slug", Problem("ValidationFailed")>>,
                  <<r.family = "none", Problem("NotFound")>>, <<r.family # "ok", ReadFailure(r.family)>>,
                  <<r.query = "bad cursor", Problem("ValidationFailed")>>,
                  <<r.read \notin {"ok", "none"}, ReadFailure(r.read)>>, <<TRUE, Success(200, {})>>>>
<1>1. DOMAIN a = 1..7 /\ 7 \in Nat /\ 7 \in 1..7 /\ a[7][1]
  OBVIOUS
<1>2. /\ a[1][2] = Problem("ValidationFailed") /\ a[2][2] = Problem("ValidationFailed")
      /\ a[3][2] = Problem("NotFound") /\ a[4][2] = ReadFailure(r.family) /\ a[5][2] = Problem("ValidationFailed")
      /\ a[6][2] = ReadFailure(r.read) /\ a[7][2] = Success(200, {})
  BY DEF QueryRejection
<1>3. ListModels(r) = FirstOf(a)
  BY DEF ListModels
<1> HIDE DEF a
<1>4. PICK k \in 1..7 : FirstOf(a) = a[k][2]
  BY <1>1, SomeHit
<1>5. k = 1 \/ k = 2 \/ k = 3 \/ k = 4 \/ k = 5 \/ k = 6 \/ k = 7
  OBVIOUS
<1>6. "list_models" \in Routes
  BY DEF Routes, RouteTable
<1> QED
  BY <1>2, <1>3, <1>4, <1>5, <1>6, NotFoundFits, ReadFailureFits, SuccessFits, ProblemFits

(* The handler of one model.                                               *)
LEMMA ModelFits ==
  ASSUME NEW r
  PROVE  Fits("model", Model(r))
<1> DEFINE a == <<<<~r.named \/ r.read = "none", Problem("NotFound")>>,
                  <<r.read # "ok", ReadFailure(r.read)>>, <<TRUE, Success(200, {})>>>>
<1>1. DOMAIN a = 1..3 /\ 3 \in Nat /\ 3 \in 1..3 /\ a[3][1]
  OBVIOUS
<1>2. a[1][2] = Problem("NotFound") /\ a[2][2] = ReadFailure(r.read) /\ a[3][2] = Success(200, {})
  OBVIOUS
<1>3. Model(r) = FirstOf(a)
  BY DEF Model
<1> HIDE DEF a
<1>4. PICK k \in 1..3 : FirstOf(a) = a[k][2]
  BY <1>1, SomeHit
<1>5. k = 1 \/ k = 2 \/ k = 3
  OBVIOUS
<1>6. "model" \in Routes
  BY DEF Routes, RouteTable
<1> QED
  BY <1>2, <1>3, <1>4, <1>5, <1>6, NotFoundFits, ReadFailureFits, SuccessFits

(* Every handler.                                                          *)
LEMMA HandledFits ==
  ASSUME NEW route \in Routes, NEW r
  PROVE  Fits(route, Handled(route, r))
<1>1. route \in {"health", "version", "ready", "catalog", "list_models", "model"}
  BY DEF Routes, RouteTable
<1>2. CASE route \in {"health", "version"}
  BY <1>2, SuccessFits DEF Handled, Health, Version
<1>3. CASE route = "ready"
  BY <1>3, SuccessFits, ProblemFits DEF Handled, Ready
<1>4. CASE route = "catalog"
  BY <1>4, CatalogFits DEF Handled
<1>5. CASE route = "list_models"
  BY <1>5, ListModelsFits DEF Handled
<1>6. CASE route = "model"
  BY <1>6, ModelFits DEF Handled
<1> QED
  BY <1>1, <1>2, <1>3, <1>4, <1>5, <1>6

(* And what the policy of its route makes of it.                           *)
LEMMA PolicedFits ==
  ASSUME NEW route \in Routes, NEW r
  PROVE  Fits(route, Policed(route, r))
<1>1. CASE RouteTable[route] = "Public"
  BY <1>1, HandledFits DEF Policed
<1>2. CASE RouteTable[route] # "Public"
  <2> DEFINE a == <<<<r.credential = "rejected", Problem("AuthenticationRequired")>>,
                   <<r.credential # "ok", ReadFailure(r.credential)>>,
                   <<r.admission = "refused", Problem("RateLimited")>>,
                   <<r.admission = "saturated", Problem("Overloaded")>>,
                   <<~r.scope, Problem("InsufficientScope")>>, <<TRUE, Handled(route, r)>>>>
  <2>1. DOMAIN a = 1..6 /\ 6 \in Nat /\ 6 \in 1..6 /\ a[6][1]
    OBVIOUS
  <2>2. /\ a[1][2] = Problem("AuthenticationRequired") /\ a[2][2] = ReadFailure(r.credential)
        /\ a[3][2] = Problem("RateLimited") /\ a[4][2] = Problem("Overloaded")
        /\ a[5][2] = Problem("InsufficientScope") /\ a[6][2] = Handled(route, r)
    OBVIOUS
  <2>3. Policed(route, r) = FirstOf(a)
    BY <1>2 DEF Policed
  <2> HIDE DEF a
  <2>4. PICK k \in 1..6 : FirstOf(a) = a[k][2]
    BY <2>1, SomeHit
  <2>5. k = 1 \/ k = 2 \/ k = 3 \/ k = 4 \/ k = 5 \/ k = 6
    OBVIOUS
  <2>6. Secured(route)
    BY <1>2 DEF Secured
  <2> QED
    BY <2>2, <2>3, <2>4, <2>5, <2>6, RefusalFits, ReadFailureFits, ProblemFits, HandledFits
<1> QED
  BY <1>1, <1>2

(* And the perimeter around them, for a method the document has.           *)
LEMMA AnsweredFits ==
  ASSUME NEW route \in Routes, NEW r, r.method # "other"
  PROVE  Fits(route, Answered(route, r))
<1> DEFINE a == <<<<r.perimeter = "saturated", Problem("Overloaded")>>,
              <<r.perimeter = "cancelled", Problem("ShutdownCancelled")>>,
              <<r.perimeter = "late", Problem("DeadlineExceeded")>>,
              <<r.perimeter = "too large", Problem("PayloadTooLarge")>>,
              <<r.perimeter = "unreadable", Problem("MalformedInput")>>,
              <<r.method = "other", Problem("MethodNotAllowed")>>,
              <<TRUE, Policed(route, r)>>>>
<1>1. DOMAIN a = 1..7 /\ 7 \in Nat /\ 7 \in 1..7 /\ a[7][1]
  OBVIOUS
<1>2. ~a[6][1]
  OBVIOUS
<1>3. /\ a[1][2] = Problem("Overloaded") /\ a[2][2] = Problem("ShutdownCancelled")
      /\ a[3][2] = Problem("DeadlineExceeded") /\ a[4][2] = Problem("PayloadTooLarge")
      /\ a[5][2] = Problem("MalformedInput") /\ a[7][2] = Policed(route, r)
  OBVIOUS
<1>4. Answered(route, r) = FirstOf(a)
  BY DEF Answered
<1> HIDE DEF a
<1>5. PICK k \in 1..7 : a[k][1] /\ FirstOf(a) = a[k][2]
  BY <1>1, SomeHit
<1>6. k = 1 \/ k = 2 \/ k = 3 \/ k = 4 \/ k = 5 \/ k = 7
  BY <1>2, <1>5
<1> QED
  BY <1>3, <1>4, <1>5, <1>6, ProblemFits, PolicedFits

(* The path a problem reflects is short, and no other authority's.         *)
LEMMA InstanceBounded ==
  ASSUME NEW path \in Seq(STRING)
  PROVE  /\ Len(BoundedInstance(path)) <= MaxInstance
         /\ Len(BoundedInstance(path)) > 1 => BoundedInstance(path)[2] # "/"
<1> DEFINE n == IF Len(path) > MaxInstance + 1 THEN MaxInstance + 1 ELSE Len(path)
           seen == SubSeq(path, 1, n)
           refused == \/ \E i \in DOMAIN seen : seen[i] = "ctl"
                      \/ seen = <<>> \/ (seen # <<>> /\ seen[1] # "/")
                      \/ Len(seen) > 1 /\ seen[1] = "/" /\ seen[2] = "/"
                      \/ ~ValidPercentEncoding(seen)
           a == <<<<Len(seen) > MaxInstance, <<"request-path-too-long">>>>,
                  <<refused, <<"invalid-request-path">>>>, <<TRUE, seen>>>>
<1>1. MaxInstance \in Nat \ {0}
  BY InstanceAssumption
<1>2. Len(seen) \in Nat
  BY <1>1
<1>3. BoundedInstance(path) = FirstOf(a)
  BY DEF BoundedInstance
<1>4. ~refused => seen # <<>> /\ seen[1] = "/" /\ ~(Len(seen) > 1 /\ seen[2] = "/")
  OBVIOUS
<1> HIDE DEF seen, refused
<1>5. DOMAIN a = 1..3 /\ 3 \in Nat /\ 3 \in 1..3 /\ a[3][1]
  OBVIOUS
<1>6. (a[1][1] <=> Len(seen) > MaxInstance) /\ (a[2][1] <=> refused)
  OBVIOUS
<1>7. a[1][2] = <<"request-path-too-long">> /\ a[2][2] = <<"invalid-request-path">> /\ a[3][2] = seen
  OBVIOUS
<1> HIDE DEF a
<1>8. PICK k \in 1..3 : a[k][1] /\ (\A j \in 1..3 : j < k => ~a[j][1]) /\ FirstOf(a) = a[k][2]
  BY <1>5, SomeHit
<1>9. CASE k = 1 \/ k = 2
  <2>1. PICK word : BoundedInstance(path) = <<word>>
    BY <1>3, <1>7, <1>8, <1>9
  <2> QED
    BY <1>1, <2>1
<1>10. CASE k = 3
  <2>1. BoundedInstance(path) = seen /\ ~(Len(seen) > MaxInstance) /\ ~refused
    BY <1>3, <1>6, <1>7, <1>8, <1>10
  <2> QED
    BY <1>1, <1>2, <1>4, <2>1
<1> QED
  BY <1>9, <1>10

(* Every answer to a documented operation is one the document publishes    *)
(* for it, and a problem reflects what it may: AnswersArePublished.        *)
THEOREM AnswersPublished == Spec => []AnswersArePublished
<1>1. Decided => AnswersArePublished
  <2> SUFFICES ASSUME Decided PROVE AnswersArePublished
    OBVIOUS
  <2>1. ASSUME asked.kind = "request", asked.request.method = "documented" PROVE Fits(asked.route, told)
    BY <2>1, AnsweredFits DEF Decided, RequestDecided
  <2>2. ASSUME asked.kind = "problem"
        PROVE  /\ Len(told.instance) <= MaxInstance /\ (Len(told.instance) > 1 => told.instance[2] # "/")
               /\ told.id = "generated" \/ asked.ids = <<told.id>>
    <3>1. /\ asked.path \in Seq(STRING) /\ asked.ids \in Seq(STRING)
          /\ told.instance = BoundedInstance(asked.path) /\ told.id = RequestId(asked.ids)
      BY <2>2, ProblemsAssumption DEF Decided, ProblemDecided
    <3>2. RequestId(asked.ids) = "generated" \/ asked.ids = <<RequestId(asked.ids)>>
      BY <3>1 DEF RequestId
    <3> QED
      BY <3>1, <3>2, InstanceBounded
  <2> QED
    BY <2>1, <2>2 DEF AnswersArePublished, Fits
<1> QED
  BY <1>1, SpecDecided, PTL

-----------------------------------------------------------------------------
(* Catalogs.                                                               *)

(* A catalog that is served is served whole, and one that is not is past   *)
(* its ceiling.                                                            *)
LEMMA EntriesWhole ==
  ASSUME NEW catalog, NEW rows, IsFiniteSet(rows), Entries(catalog, rows) # None
  PROVE  Entries(catalog, rows) = Ordered(catalog, rows)
<1> DEFINE all == Ordered(catalog, rows)
           N == Cardinality(Active(catalog, rows))
           n == IF Len(all) > MaxCatalogRows + 1 THEN MaxCatalogRows + 1 ELSE Len(all)
           S == {all[i] : i \in 1..N}
<1>1. N \in Nat
  <2>1. Active(catalog, rows) \in SUBSET rows
    BY DEF Active
  <2> QED
    BY <2>1, FS_Subset, FS_CardinalityType
<1>2. all = [i \in 1..N |-> all[i]]
  BY DEF Ordered, InOrder
<1>3. Entries(catalog, rows) = IF Len(SubSeq(all, 1, n)) > MaxCatalogRows THEN None ELSE SubSeq(all, 1, n)
  BY DEF Entries
<1> HIDE DEF all, N
<1>4. all \in Seq(S) /\ Len(all) = N
  BY <1>1, <1>2
<1> HIDE DEF S
<1>5. MaxCatalogRows \in Nat
  BY ReferencesAssumption
<1>6. Len(SubSeq(all, 1, n)) = n /\ n \in Nat
  BY <1>1, <1>4, <1>5
<1>7. n = Len(all)
  BY <1>1, <1>3, <1>4, <1>5, <1>6
<1>8. SubSeq(all, 1, Len(all)) = all
  BY <1>4
<1> QED
  BY <1>3, <1>7, <1>8 DEF all

(* The tag of a body is not the wildcard's.                                *)
LEMMA TagNotWildcard ==
  ASSUME NEW b
  PROVE  EntityTag(b) # Wildcard.tag
<1>1. EntityTag(b) # <<"*">>
  BY DEF EntityTag
<1> QED
  BY <1>1 DEF Wildcard

(* Equal tags are of equal bodies.                                         *)
LEMMA TagsTell ==
  ASSUME NEW b, NEW c, EntityTag(b) = EntityTag(c)
  PROVE  b = c
  BY DEF EntityTag

(* A client that is told 304 holds the catalog as it is, and one that is   *)
(* sent a body is sent all of it: NotModifiedIsCurrent.                    *)
THEOREM NotModifiedCurrent == Spec => []NotModifiedIsCurrent
<1>1. Decided => NotModifiedIsCurrent
  <2> SUFFICES ASSUME Decided, asked.kind = "catalog", told.status \in {200, 304},
                      ~(told.status = 304 /\ \E i \in DOMAIN asked.header : asked.header[i] = "*")
               PROVE  (IF told.status = 304 THEN asked.held.body ELSE told.body) = Ordered(asked.name, asked.rows)
    BY DEF NotModifiedIsCurrent
  <2> DEFINE name == asked.name
             rows == asked.rows
             header == Tagged(asked.header, asked.held.body)
             catalog == TryCatalog(name)
             body == Entries(name, rows)
  <2>1. rows \in Tables /\ told = ReadCatalog(name, rows, header)
    BY DEF Decided, CatalogDecided
  <2>2. catalog # None /\ catalog = name
    <3>1. catalog # None
      BY <2>1 DEF ReadCatalog
    <3> QED
      BY <3>1 DEF TryCatalog
  <2>3. told = IF body = None THEN [status |-> 500, body |-> None]
               ELSE IF IfNoneMatchMatches(header, EntityTag(body)) THEN [status |-> 304, body |-> None]
               ELSE [status |-> 200, body |-> body]
    BY <2>1, <2>2 DEF ReadCatalog
  <2> HIDE DEF body, header, catalog
  <2>4. body # None
    BY <2>3
  <2>5. body = Ordered(name, rows)
    BY <2>1, <2>4, EntriesWhole, TablesAssumption DEF body
  <2>6. CASE told.status = 200
    BY <2>3, <2>4, <2>5, <2>6
  <2>7. CASE told.status = 304
    <3>1. IfNoneMatchMatches(header, EntityTag(body))
      BY <2>3, <2>4, <2>7
    <3>2. PICK i \in DOMAIN header : header[i] = Wildcard \/ header[i].tag = EntityTag(body)
      BY <3>1 DEF IfNoneMatchMatches
    <3>3. i \in DOMAIN asked.header /\ asked.header[i] # "*"
      BY <2>7, <3>2 DEF header, Tagged
    <3>4. PICK b : /\ b = asked.held.body \/ b = None
                   /\ header[i] = Validator(TRUE, b) \/ header[i] = Validator(FALSE, b)
      BY <3>3, ZenonT(30) DEF header, Tagged
    <3>5. header[i].tag = EntityTag(b) /\ header[i] # Wildcard
      <4>1. header[i].tag = EntityTag(b)
        BY <3>4 DEF Validator
      <4> QED
        BY <4>1, TagNotWildcard
    <3>6. b = body
      BY <3>2, <3>5, TagsTell
    <3>7. asked.held.body = body
      BY <2>4, <3>4, <3>6
    <3> QED
      BY <2>5, <2>7, <3>7
  <2> QED
    BY <2>6, <2>7
<1> QED
  BY <1>1, SpecDecided, PTL

(* In a finite set with a strict total order, given by what comes before   *)
(* each of its members, every place has its member.                        *)
LEMMA Ranked ==
  ASSUME NEW S, IsFiniteSet(S), NEW P \in [S -> SUBSET S],
         \A x \in S : x \notin P[x],
         \A x, y \in S : y \in P[x] => P[y] \subseteq P[x],
         \A x, y \in S : x # y => x \in P[y] \/ y \in P[x]
  PROVE  /\ Cardinality(S) \in Nat
         /\ \A x \in S : Cardinality(P[x]) \in Nat /\ Cardinality(P[x]) + 1 \in 1..Cardinality(S)
         /\ \A x, y \in S : y \in P[x] => Cardinality(P[y]) < Cardinality(P[x])
         /\ \A n \in 1..Cardinality(S) : \E x \in S : Cardinality(P[x]) = n - 1
<1> DEFINE N == Cardinality(S)
           T == 0..(N - 1)
           rank == [x \in S |-> Cardinality(P[x])]
<1>1. N \in Nat
  BY FS_CardinalityType
<1>2. \A x \in S : P[x] \in SUBSET S /\ IsFiniteSet(P[x]) /\ Cardinality(P[x]) \in Nat
  BY FS_Subset, FS_CardinalityType
<1>3. ASSUME NEW x \in S PROVE Cardinality(P[x]) \in T
  <2>1. P[x] # S
    OBVIOUS
  <2>2. Cardinality(P[x]) <= N /\ Cardinality(P[x]) # N
    BY <1>2, <2>1, FS_Subset
  <2> QED
    BY <1>1, <1>2, <2>2
<1>4. ASSUME NEW x \in S, NEW y \in S, y \in P[x] PROVE Cardinality(P[y]) < Cardinality(P[x])
  <2>1. P[y] \in SUBSET P[x] /\ P[y] # P[x]
    BY <1>4
  <2>2. Cardinality(P[y]) <= Cardinality(P[x]) /\ Cardinality(P[y]) # Cardinality(P[x])
    BY <1>2, <2>1, FS_Subset
  <2> QED
    BY <1>2, <2>2
<1>5. \A x, y \in S : Cardinality(P[x]) = Cardinality(P[y]) => x = y
  <2> SUFFICES ASSUME NEW x \in S, NEW y \in S, Cardinality(P[x]) = Cardinality(P[y]), x # y PROVE FALSE
    OBVIOUS
  <2>1. Cardinality(P[x]) < Cardinality(P[y]) \/ Cardinality(P[y]) < Cardinality(P[x])
    BY <1>4
  <2> QED
    BY <1>2, <2>1
<1>6. rank \in Injection(S, T)
  <2>1. rank \in [S -> T]
    BY <1>3
  <2>2. \A x, y \in S : rank[x] = rank[y] => x = y
    BY <1>5
  <2> QED
    BY <2>1, <2>2 DEF Injection, IsInjective
<1>7. IsFiniteSet(T) /\ Cardinality(T) = N
  <2>1. 0 \in Int /\ N - 1 \in Int /\ N - 1 - 0 + 1 = N /\ (N = 0 \/ 0 <= N - 1)
    BY <1>1
  <2> QED
    BY <1>1, <2>1, FS_Interval, SMTT(30)
<1>8. rank \in Surjection(S, T)
  <2> HIDE DEF T, rank
  <2> QED
    BY <1>6, <1>7, FS_Injection
<1>9. ASSUME NEW n \in 1..N PROVE \E x \in S : Cardinality(P[x]) = n - 1
  <2>1. n - 1 \in T
    BY <1>1
  <2> QED
    BY <1>8, <2>1 DEF Surjection
<1>10. ASSUME NEW x \in S PROVE Cardinality(P[x]) \in Nat /\ Cardinality(P[x]) + 1 \in 1..N
  BY <1>1, <1>2, <1>3
<1> QED
  BY <1>1, <1>4, <1>9, <1>10

(* The ORDER BY of a catalog is a strict total order of its rows.          *)
LEMMA BeforeOrders ==
  ASSUME NEW catalog, NEW rows \in Tables, NEW x \in rows, NEW y \in rows, NEW z \in rows
  PROVE  /\ ~Before(catalog, x, x)
         /\ Before(catalog, x, y) /\ Before(catalog, y, z) => Before(catalog, x, z)
         /\ x # y => Before(catalog, x, y) \/ Before(catalog, y, x)
<1>1. /\ x.code \in Int /\ x.sort \in Int /\ y.code \in Int /\ y.sort \in Int /\ z.code \in Int /\ z.sort \in Int
      /\ x.code = y.code => x = y
  BY TablesAssumption
<1> QED
  BY <1>1 DEF Before

(* What is served of a catalog is every active row once and in the order   *)
(* of the statement, which ends in the key: no two reads of one table      *)
(* differ (entries).                                                       *)
THEOREM CatalogIsWhole ==
  ASSUME NEW catalog, NEW rows \in Tables
  PROVE  LET active == Active(catalog, rows)
             places == 1..Cardinality(active)
         IN  \E f \in [places -> active] :
                /\ \A r \in active : \E i \in places : f[i] = r
                /\ \A i, j \in places : i < j => Before(catalog, f[i], f[j])
                /\ Ordered(catalog, rows) = [i \in places |-> CatalogEntry(catalog, f[i])]
<1> DEFINE A == Active(catalog, rows)
           N == Cardinality(A)
           P == [x \in A |-> {y \in A : Before(catalog, y, x)}]
           at(n) == CHOOSE x \in A : Cardinality({y \in A : Before(catalog, y, x)}) = n - 1
           f == [n \in 1..N |-> at(n)]
<1>1. A \in SUBSET rows /\ IsFiniteSet(A)
  <2>1. A \in SUBSET rows
    BY DEF Active
  <2> QED
    BY <2>1, FS_Subset, TablesAssumption
<1>2. Ordered(catalog, rows) = [i \in 1..N |-> CatalogEntry(catalog, f[i])]
  BY DEF Ordered, InOrder
<1> HIDE DEF A
<1>3. P \in [A -> SUBSET A] /\ \A x \in A : P[x] = {y \in A : Before(catalog, y, x)}
  OBVIOUS
<1>4. /\ \A x \in A : x \notin P[x]
      /\ \A x, y \in A : y \in P[x] => P[y] \subseteq P[x]
      /\ \A x, y \in A : x # y => x \in P[y] \/ y \in P[x]
  BY <1>1, BeforeOrders
<1>5. \A n \in 1..N : at(n) = CHOOSE x \in A : Cardinality(P[x]) = n - 1
  BY <1>3
<1> HIDE DEF at
<1>6. f = [n \in 1..N |-> f[n]] /\ \A n \in 1..N : f[n] = at(n)
  OBVIOUS
<1> HIDE DEF P, f
<1>7. /\ N \in Nat /\ \A x \in A : Cardinality(P[x]) \in Nat /\ Cardinality(P[x]) + 1 \in 1..N
      /\ \A x, y \in A : y \in P[x] => Cardinality(P[y]) < Cardinality(P[x])
      /\ \A n \in 1..N : \E x \in A : Cardinality(P[x]) = n - 1
  BY <1>1, <1>3, <1>4, Ranked
<1>8. \A n \in 1..N : f[n] \in A /\ Cardinality(P[f[n]]) = n - 1
  BY <1>5, <1>6, <1>7
<1>9. ASSUME NEW x \in A, NEW y \in A, Cardinality(P[x]) = Cardinality(P[y]), x # y PROVE FALSE
  <2>1. Cardinality(P[x]) \in Nat /\ Cardinality(P[y]) \in Nat
    BY <1>7
  <2>2. Cardinality(P[x]) < Cardinality(P[y]) \/ Cardinality(P[y]) < Cardinality(P[x])
    BY <1>4, <1>7, <1>9
  <2> QED
    BY <1>9, <2>1, <2>2
<1>10. ASSUME NEW r \in A PROVE \E i \in 1..N : f[i] = r
  <2> DEFINE i == Cardinality(P[r]) + 1
  <2>1. i \in 1..N /\ Cardinality(P[r]) = i - 1
    BY <1>7
  <2> HIDE DEF i
  <2>2. f[i] = r
    BY <1>8, <1>9, <2>1
  <2> QED
    BY <2>1, <2>2
<1>11. ASSUME NEW i \in 1..N, NEW j \in 1..N, i < j PROVE Before(catalog, f[i], f[j])
  <2>1. f[i] # f[j] /\ ~(Cardinality(P[f[j]]) < Cardinality(P[f[i]]))
    BY <1>7, <1>8, <1>11
  <2>2. f[i] \in P[f[j]]
    BY <1>4, <1>7, <1>8, <2>1
  <2> QED
    BY <1>3, <1>8, <2>2
<1>12. f \in [1..N -> A]
  BY <1>6, <1>8
<1> QED
  BY <1>2, <1>10, <1>11, <1>12 DEF A

-----------------------------------------------------------------------------
(* Settings.                                                               *)

(* When nothing is found although every arm has a result, no arm applies.  *)
LEMMA NoneApplies ==
  ASSUME NEW arms, NEW n \in Nat, DOMAIN arms = 1..n, \A k \in 1..n : arms[k][2] # None, FirstOf(arms) = None
  PROVE  \A k \in 1..n : ~arms[k][1]
  BY SomeHit

(* The highest source that has a setting is the one that counts.           *)
LEMMA EffectiveSource ==
  ASSUME NEW env, NEW file, NEW defaults, NEW builtin, NEW k \in DOMAIN builtin
  PROVE  LET h == Effective(env, file, defaults, builtin)
         IN  /\ k \in DOMAIN env => h[k] = env[k]
             /\ \E given \in {env, file, defaults, builtin} : k \in DOMAIN given /\ h[k] = given[k]
<1> DEFINE from == <<env, file, defaults, builtin>>
           a == [i \in 1..4 |-> <<k \in DOMAIN from[i], i>>]
<1>1. Effective(env, file, defaults, builtin)[k] = from[FirstOf(a)][k]
  BY DEF Effective, Sources
<1>2. \A i \in 1..4 : a[i][2] = i /\ (a[i][1] <=> k \in DOMAIN from[i])
  OBVIOUS
<1>3. from[1] = env /\ from[2] = file /\ from[3] = defaults /\ from[4] = builtin
  OBVIOUS
<1>4. DOMAIN a = 1..4 /\ 4 \in Nat /\ 4 \in 1..4 /\ 1 \in 1..4
  OBVIOUS
<1> HIDE DEF a, from
<1>5. PICK n \in 1..4 : a[n][1] /\ (\A j \in 1..4 : j < n => ~a[j][1]) /\ FirstOf(a) = a[n][2]
  BY <1>2, <1>3, <1>4, SomeHit
<1>6. FirstOf(a) = n /\ k \in DOMAIN from[n]
  BY <1>2, <1>5
<1>7. k \in DOMAIN env => n = 1
  BY <1>2, <1>3, <1>4, <1>5
<1>8. n = 1 \/ n = 2 \/ n = 3 \/ n = 4
  OBVIOUS
<1> QED
  BY <1>1, <1>3, <1>6, <1>7, <1>8

(* Every setting of a server has a number.                                 *)
LEMMA EffectiveNat ==
  ASSUME NEW c \in Configurations, NEW k \in DOMAIN HttpDefaults
  PROVE  Effective(c.env, c.file, c.defaults, HttpDefaults)[k] \in Nat
<1>1. \E given \in {c.env, c.file, c.defaults, HttpDefaults} :
        k \in DOMAIN given /\ Effective(c.env, c.file, c.defaults, HttpDefaults)[k] = given[k]
  BY EffectiveSource
<1>2. HttpDefaults[k] \in Nat
  BY DEF HttpDefaults
<1> QED
  BY <1>1, <1>2, SourcesAssumption DEF Source

(* An origin the loader does not refuse is spelled as a browser spells it. *)
LEMMA OriginAccepted ==
  ASSUME NEW o, ValidateOrigin(o) = None
  PROVE  o.text # "*" /\ o.canonical
<1> DEFINE a == <<<<o.text = "*", "wildcard">>, <<o.text = "", "blank">>, <<~o.url, "not a URL">>, <<~o.host, "no host">>,
                  <<o.extra, "more than an origin">>, <<~o.canonical, "not the browser's spelling">>>>
<1>1. DOMAIN a = 1..6 /\ 6 \in Nat
  OBVIOUS
<1>2. \A k \in 1..6 : a[k][2] \in Refusals
  <2>1. /\ a[1][2] \in Refusals /\ a[2][2] \in Refusals /\ a[3][2] \in Refusals
        /\ a[4][2] \in Refusals /\ a[5][2] \in Refusals /\ a[6][2] \in Refusals
    BY DEF Refusals
  <2> HIDE DEF a
  <2>2. \A k \in 1..6 : k = 1 \/ k = 2 \/ k = 3 \/ k = 4 \/ k = 5 \/ k = 6
    OBVIOUS
  <2> QED
    BY <2>1, <2>2
<1>3. (a[1][1] <=> o.text = "*") /\ (a[6][1] <=> ~o.canonical)
  OBVIOUS
<1>4. ValidateOrigin(o) = FirstOf(a)
  BY DEF ValidateOrigin
<1> HIDE DEF a
<1>5. \A k \in 1..6 : ~a[k][1]
  BY <1>1, <1>2, <1>4, NoneApplies, SourcesAssumption
<1>6. 1 \in 1..6 /\ 6 \in 1..6
  OBVIOUS
<1> QED
  BY <1>3, <1>5, <1>6

(* An arm that refuses a zero.                                             *)
LEMMA ZeroArm ==
  ASSUME NEW h, NEW k \in Refusals
  PROVE  Zero(h, k)[2] # None /\ (Zero(h, k)[1] <=> h[k] = 0)
  BY SourcesAssumption DEF Zero

(* In two lists of arms one after the other, none applies when nothing is  *)
(* found.                                                                  *)
LEMMA NoneOfBoth ==
  ASSUME NEW S, NEW p \in Seq(S), NEW q \in Seq(S), FirstOf(p \o q) = None,
         \A i \in 1..Len(p) : p[i][2] # None, \A i \in 1..Len(q) : q[i][2] # None
  PROVE  (\A i \in 1..Len(p) : ~p[i][1]) /\ (\A i \in 1..Len(q) : ~q[i][1])
<1> DEFINE a == p \o q
           m == Len(p)
           n == Len(q)
<1>1. m \in Nat /\ n \in Nat /\ m + n \in Nat
  OBVIOUS
<1>2. a \in Seq(S) /\ Len(a) = m + n /\ \A i \in 1..(m + n) : a[i] = IF i <= m THEN p[i] ELSE q[i - m]
  BY ConcatProperties
<1> HIDE DEF a
<1>3. DOMAIN a = 1..(m + n)
  BY <1>1, <1>2
<1>4. ASSUME NEW i \in 1..(m + n) PROVE a[i][2] # None
  <2>1. CASE i <= m
    BY <1>1, <1>2, <2>1
  <2>2. CASE ~(i <= m)
    <3>1. i - m \in 1..n /\ a[i] = q[i - m]
      BY <1>1, <1>2, <2>2
    <3> QED
      BY <3>1
  <2> QED
    BY <2>1, <2>2
<1>5. \A i \in 1..(m + n) : ~a[i][1]
  BY <1>1, <1>3, <1>4, NoneApplies DEF a
<1>6. ASSUME NEW i \in 1..m PROVE ~p[i][1]
  <2>1. i \in 1..(m + n) /\ a[i] = p[i]
    BY <1>1, <1>2
  <2> QED
    BY <1>5, <2>1
<1>7. ASSUME NEW i \in 1..n PROVE ~q[i][1]
  <2>1. i + m \in 1..(m + n) /\ ~(i + m <= m) /\ (i + m) - m = i
    BY <1>1
  <2>2. a[i + m] = q[i]
    BY <1>2, <2>1
  <2> QED
    BY <1>5, <2>1, <2>2
<1> QED
  BY <1>6, <1>7

(* The arms of the settings of the perimeter, by their setting.            *)
LEMMA PerimeterArmsOf ==
  ASSUME NEW h
  PROVE  LET q == <<Zero(h, "host"), Zero(h, "port")>> \o PerimeterArms(h)
         IN  /\ \E S : q \in Seq(S)
             /\ Len(q) = 9 /\ \A i \in 1..9 : q[i][2] # None
             /\ (q[5][1] <=> h["max_concurrent_requests"] = 0) /\ (q[6][1] <=> h["rate_limit_capacity"] = 0)
             /\ (q[7][1] <=> h["rate_limit_refill_per_second"] = 0) /\ (q[8][1] <=> h["rate_limit_max_buckets"] = 0)
             /\ (q[9][1] <=> h["max_concurrent_requests"] > MaxPermits)
<1> DEFINE above == <<h["max_concurrent_requests"] > MaxPermits, "max_concurrent_requests">>
           q == <<Zero(h, "host"), Zero(h, "port")>> \o PerimeterArms(h)
<1>1. above[2] # None /\ (above[1] <=> h["max_concurrent_requests"] > MaxPermits)
  BY SourcesAssumption DEF Refusals
<1> DEFINE p == <<Zero(h, "host"), Zero(h, "port")>>
           r == <<Zero(h, "max_request_body_bytes"), Zero(h, "request_timeout_seconds"), Zero(h, "max_concurrent_requests"),
                  Zero(h, "rate_limit_capacity"), Zero(h, "rate_limit_refill_per_second"),
                  Zero(h, "rate_limit_max_buckets"), above>>
           S == {p[i] : i \in 1..2} \union {r[i] : i \in 1..7}
<1>2. q = p \o r
  BY DEF PerimeterArms
<1> HIDE DEF above, q
<1>3. /\ \E T : q \in Seq(T)
      /\ Len(q) = 9
      /\ q[1] = Zero(h, "host") /\ q[2] = Zero(h, "port") /\ q[3] = Zero(h, "max_request_body_bytes")
      /\ q[4] = Zero(h, "request_timeout_seconds") /\ q[5] = Zero(h, "max_concurrent_requests")
      /\ q[6] = Zero(h, "rate_limit_capacity") /\ q[7] = Zero(h, "rate_limit_refill_per_second")
      /\ q[8] = Zero(h, "rate_limit_max_buckets") /\ q[9] = above
  <2>1. p = [i \in 1..2 |-> p[i]] /\ r = [i \in 1..7 |-> r[i]]
    OBVIOUS
  <2>2. p[1] = Zero(h, "host") /\ p[2] = Zero(h, "port")
    OBVIOUS
  <2>3. /\ r[1] = Zero(h, "max_request_body_bytes") /\ r[2] = Zero(h, "request_timeout_seconds")
        /\ r[3] = Zero(h, "max_concurrent_requests") /\ r[4] = Zero(h, "rate_limit_capacity")
        /\ r[5] = Zero(h, "rate_limit_refill_per_second") /\ r[6] = Zero(h, "rate_limit_max_buckets") /\ r[7] = above
    OBVIOUS
  <2>4. Len(p) = 2 /\ Len(r) = 7
    OBVIOUS
  <2> HIDE DEF p, r
  <2>5. (\A i \in 1..2 : p[i] \in S) /\ (\A i \in 1..7 : r[i] \in S)
    OBVIOUS
  <2> HIDE DEF S
  <2>6. p \in Seq(S) /\ r \in Seq(S)
    BY <2>1, <2>5
  <2>7. /\ q \in Seq(S) /\ Len(q) = Len(p) + Len(r)
        /\ \A i \in 1..(Len(p) + Len(r)) : q[i] = IF i <= Len(p) THEN p[i] ELSE r[i - Len(p)]
    BY <1>2, <2>6, ConcatProperties
  <2>8. Len(q) = 9 /\ \A i \in 1..9 : q[i] = IF i <= 2 THEN p[i] ELSE r[i - 2]
    BY <2>4, <2>7
  <2>9. /\ q[1] = p[1] /\ q[2] = p[2] /\ q[3] = r[1] /\ q[4] = r[2] /\ q[5] = r[3] /\ q[6] = r[4] /\ q[7] = r[5]
        /\ q[8] = r[6] /\ q[9] = r[7]
    BY <2>8
  <2> QED
    BY <2>2, <2>3, <2>7, <2>8, <2>9
<1>4. \A i \in 1..9 : i = 1 \/ i = 2 \/ i = 3 \/ i = 4 \/ i = 5 \/ i = 6 \/ i = 7 \/ i = 8 \/ i = 9
  OBVIOUS
<1>5. {"host", "port", "max_request_body_bytes", "request_timeout_seconds", "max_concurrent_requests", "rate_limit_capacity",
       "rate_limit_refill_per_second", "rate_limit_max_buckets"} \subseteq Refusals
  BY DEF Refusals
<1>6. \A k \in Refusals : Zero(h, k)[2] # None /\ (Zero(h, k)[1] <=> h[k] = 0)
  BY ZeroArm
<1>7. \A i \in 1..9 : q[i][2] # None
  BY <1>1, <1>3, <1>4, <1>5, <1>6
<1>8. /\ (q[5][1] <=> h["max_concurrent_requests"] = 0) /\ (q[6][1] <=> h["rate_limit_capacity"] = 0)
      /\ (q[7][1] <=> h["rate_limit_refill_per_second"] = 0) /\ (q[8][1] <=> h["rate_limit_max_buckets"] = 0)
  BY <1>3, <1>5, <1>6
<1> QED
  BY <1>1, <1>3, <1>7, <1>8 DEF q

(* What the loader of the HTTP settings lets through.                      *)
LEMMA HttpAccepted ==
  ASSUME NEW h, NEW T, NEW origins \in Seq(T), LoadHttp(h, origins) = None
  PROVE  /\ h["max_concurrent_requests"] # 0 /\ h["rate_limit_capacity"] # 0
         /\ h["rate_limit_refill_per_second"] # 0 /\ h["rate_limit_max_buckets"] # 0
         /\ ~(h["max_concurrent_requests"] > MaxPermits)
         /\ \A i \in DOMAIN origins : ValidateOrigin(origins[i]) = None
<1> DEFINE q == <<Zero(h, "host"), Zero(h, "port")>> \o PerimeterArms(h)
           n == Len(origins)
           o == [i \in DOMAIN origins |-> <<ValidateOrigin(origins[i]) # None, "cors_allowed_origins">>]
<1>1. FirstOf(q \o o) = None
  BY DEF LoadHttp
<1>2. n \in Nat /\ DOMAIN origins = 1..n /\ o = [i \in 1..n |-> o[i]] /\ Len(o) = n
  OBVIOUS
<1>3. \A i \in 1..n : o[i][2] # None /\ (o[i][1] <=> ValidateOrigin(origins[i]) # None)
  BY <1>2, SourcesAssumption DEF Refusals
<1>4. /\ \E S : q \in Seq(S)
      /\ Len(q) = 9 /\ \A i \in 1..9 : q[i][2] # None
      /\ (q[5][1] <=> h["max_concurrent_requests"] = 0) /\ (q[6][1] <=> h["rate_limit_capacity"] = 0)
      /\ (q[7][1] <=> h["rate_limit_refill_per_second"] = 0) /\ (q[8][1] <=> h["rate_limit_max_buckets"] = 0)
      /\ (q[9][1] <=> h["max_concurrent_requests"] > MaxPermits)
  BY PerimeterArmsOf
<1> HIDE DEF q, o, n
<1>5. PICK S : q \in Seq(S)
  BY <1>4
<1> DEFINE U == S \union {o[i] : i \in 1..n}
<1>6. q \in Seq(U) /\ o \in Seq(U)
  <2>1. \A i \in 1..9 : q[i] \in U
    <3>1. Len(q) = 9
      BY <1>4
    <3>2. \A i \in 1..Len(q) : q[i] \in S
      BY <1>5
    <3> QED
      BY <3>1, <3>2
  <2>2. \A i \in 1..n : o[i] \in U
    OBVIOUS
  <2>3. q = [i \in 1..9 |-> q[i]]
    BY <1>4, <1>5
  <2> HIDE DEF U
  <2>4. q \in Seq(U)
    BY <2>1, <2>3
  <2>5. o \in Seq(U)
    BY <1>2, <2>2
  <2> QED
    BY <2>4, <2>5
<1> HIDE DEF U
<1>7. (\A i \in 1..9 : ~q[i][1]) /\ (\A i \in 1..n : ~o[i][1])
  <2>1. (\A i \in 1..Len(q) : q[i][2] # None) /\ (\A i \in 1..Len(o) : o[i][2] # None)
    BY <1>2, <1>3, <1>4
  <2>2. (\A i \in 1..Len(q) : ~q[i][1]) /\ (\A i \in 1..Len(o) : ~o[i][1])
    BY <1>1, <1>6, <2>1, NoneOfBoth
  <2> QED
    BY <1>2, <1>4, <2>2
<1>8. ~q[5][1] /\ ~q[6][1] /\ ~q[7][1] /\ ~q[8][1] /\ ~q[9][1]
  BY <1>7
<1>9. \A i \in DOMAIN origins : ValidateOrigin(origins[i]) = None
  BY <1>2, <1>3, <1>7
<1> QED
  BY <1>4, <1>8, <1>9

(* A configuration with the origins of a list.                             *)
LEMMA OriginsListed ==
  ASSUME NEW c \in Configurations
  PROVE  \E T : CommaSeparated(c.origins) \in Seq(T)
<1>1. CASE c.origins = <<None>>
  <2>1. CommaSeparated(c.origins) \in Seq({})
    BY <1>1 DEF CommaSeparated
  <2> QED
    BY <2>1
<1>2. CASE c.origins # <<None>>
  BY <1>2, SourcesAssumption DEF CommaSeparated
<1> QED
  BY <1>1, <1>2

(* What is built of what the loader of the HTTP settings lets through: no  *)
(* error that the composition root calls unreachable, and no panic.        *)
LEMMA BuiltOfAccepted ==
  ASSUME NEW c \in Configurations, NEW h, NEW origins, h = Effective(c.env, c.file, c.defaults, HttpDefaults),
         origins = CommaSeparated(c.origins), LoadHttp(h, origins) = None
  PROVE  /\ NewLimits(origins) = "ok" /\ Permits(h) = "ok"
         /\ NewQuota(h["rate_limit_capacity"], h["rate_limit_refill_per_second"]) = "ok"
         /\ h["rate_limit_capacity"] >= 1 /\ h["rate_limit_refill_per_second"] >= 1
         /\ \A i \in DOMAIN c.origins : c.origins[i] = None \/ c.origins[i].canonical
<1>1. PICK T : origins \in Seq(T)
  BY OriginsListed
<1>2. /\ h["rate_limit_capacity"] # 0 /\ h["rate_limit_refill_per_second"] # 0
      /\ ~(h["max_concurrent_requests"] > MaxPermits)
      /\ \A i \in DOMAIN origins : ValidateOrigin(origins[i]) = None
  BY <1>1, HttpAccepted
<1>3. \A i \in DOMAIN origins : origins[i].text # "*" /\ origins[i].canonical
  BY <1>2, OriginAccepted
<1>4. \A i \in DOMAIN origins : origins[i].header
  <2>1. CASE c.origins = <<None>>
    BY <2>1 DEF CommaSeparated
  <2>2. CASE c.origins # <<None>>
    <3>1. origins = c.origins
      BY <2>2 DEF CommaSeparated
    <3>2. \A i \in DOMAIN c.origins : c.origins[i].canonical => c.origins[i].header
      BY <2>2, SourcesAssumption
    <3> QED
      BY <1>3, <3>1, <3>2
  <2> QED
    BY <2>1, <2>2
<1>5. NewLimits(origins) = "ok"
  BY <1>3, <1>4 DEF NewLimits
<1>6. Permits(h) = "ok"
  BY <1>2 DEF Permits
<1>7. NewQuota(h["rate_limit_capacity"], h["rate_limit_refill_per_second"]) = "ok"
  BY <1>2 DEF NewQuota
<1>8. h["rate_limit_capacity"] \in Nat /\ h["rate_limit_refill_per_second"] \in Nat
  <2>1. "rate_limit_capacity" \in DOMAIN HttpDefaults /\ "rate_limit_refill_per_second" \in DOMAIN HttpDefaults
    BY DEF HttpDefaults
  <2> QED
    BY <2>1, EffectiveNat
<1>9. \A i \in DOMAIN c.origins : c.origins[i] = None \/ c.origins[i].canonical
  <2>1. CASE c.origins = <<None>>
    BY <2>1
  <2>2. CASE c.origins # <<None>>
    BY <1>3, <2>2 DEF CommaSeparated
  <2> QED
    BY <2>1, <2>2
<1> QED
  BY <1>2, <1>5, <1>6, <1>7, <1>8, <1>9

(* Every tier of a policy that is built admits and refills.                *)
LEMMA QuotasServe ==
  ASSUME NEW c \in Configurations, NEW h, NEW buckets, NewPolicy(buckets, c.tiers) = "ok",
         h["rate_limit_capacity"] >= 1, h["rate_limit_refill_per_second"] >= 1, NEW code
  PROVE  QuotaFor(h, c.tiers, code).capacity >= 1 /\ QuotaFor(h, c.tiers, code).refill >= 1
<1> DEFINE named == {i \in DOMAIN c.tiers : c.tiers[i] # None /\ c.tiers[i].code = code}
           i == CHOOSE j \in named : TRUE
<1>1. CASE named = {}
  <2>1. QuotaFor(h, c.tiers, code) = [capacity |-> h["rate_limit_capacity"], refill |-> h["rate_limit_refill_per_second"]]
    BY <1>1 DEF QuotaFor
  <2> QED
    BY <2>1
<1>2. CASE named # {}
  <2>1. QuotaFor(h, c.tiers, code) = [capacity |-> c.tiers[i].capacity, refill |-> c.tiers[i].refill]
    BY <1>2 DEF QuotaFor
  <2>2. i \in named
    BY <1>2
  <2> HIDE DEF i
  <2>3. i \in DOMAIN c.tiers /\ c.tiers[i] # None
    BY <2>2
  <2>4. c.tiers[i].capacity \in Nat /\ c.tiers[i].refill \in Nat
    BY <2>3, SourcesAssumption
  <2>5. NewQuota(c.tiers[i].capacity, c.tiers[i].refill) = "ok"
    BY <2>3 DEF NewPolicy
  <2>6. c.tiers[i].capacity # 0 /\ c.tiers[i].refill # 0
    BY <2>5 DEF NewQuota
  <2> QED
    BY <2>1, <2>4, <2>6
<1> QED
  BY <1>1, <1>2

(* How a server starts.                                                    *)
LEMMA BootOutcome ==
  ASSUME NEW c \in Configurations, NEW h, NEW origins, h = Effective(c.env, c.file, c.defaults, HttpDefaults),
         origins = CommaSeparated(c.origins)
  PROVE  /\ Boot(h, origins, c.tiers, c.database, c.url) \in {"serves", "refused", "error"}
         /\ Boot(h, origins, c.tiers, c.database, c.url) = "serves" =>
                LoadHttp(h, origins) = None /\ NewPolicy(h.rate_limit_max_buckets, c.tiers) = "ok"
<1> DEFINE a == <<<<LoadHttp(h, origins) # None, "refused">>, <<LoadDatabase(c.database, c.url) # None, "refused">>,
              <<Connect(c.database) # "ok", "error">>, <<NewLimits(origins) # "ok", "unreachable error">>,
              <<NewQuota(h.rate_limit_capacity, h.rate_limit_refill_per_second) # "ok", "unreachable error">>,
              <<NewPolicy(h.rate_limit_max_buckets, c.tiers) # "ok", "error">>,
              <<Permits(h) # "ok", "panic">>, <<TRUE, "serves">>>>
<1>1. DOMAIN a = 1..8 /\ 8 \in Nat /\ 8 \in 1..8 /\ a[8][1]
  OBVIOUS
<1>2. (a[1][1] <=> LoadHttp(h, origins) # None) /\ (a[4][1] <=> NewLimits(origins) # "ok") /\ (a[7][1] <=> Permits(h) # "ok")
  OBVIOUS
<1>3. /\ (a[5][1] <=> NewQuota(h.rate_limit_capacity, h.rate_limit_refill_per_second) # "ok")
      /\ (a[6][1] <=> NewPolicy(h.rate_limit_max_buckets, c.tiers) # "ok")
  OBVIOUS
<1>4. /\ a[1][2] = "refused" /\ a[2][2] = "refused" /\ a[3][2] = "error" /\ a[4][2] = "unreachable error"
      /\ a[5][2] = "unreachable error" /\ a[6][2] = "error" /\ a[7][2] = "panic" /\ a[8][2] = "serves"
  OBVIOUS
<1>5. Boot(h, origins, c.tiers, c.database, c.url) = FirstOf(a)
  BY DEF Boot
<1> HIDE DEF a
<1>6. PICK k \in 1..8 : a[k][1] /\ (\A j \in 1..8 : j < k => ~a[j][1]) /\ FirstOf(a) = a[k][2]
  BY <1>1, SomeHit
<1>7. k = 1 \/ k = 2 \/ k = 3 \/ k = 4 \/ k = 5 \/ k = 6 \/ k = 7 \/ k = 8
  OBVIOUS
<1>8. k > 1 => LoadHttp(h, origins) = None
  BY <1>2, <1>6
<1>9. k # 4 /\ k # 5 /\ k # 7
  BY <1>2, <1>3, <1>6, <1>8, BuiltOfAccepted
<1>10. k = 8 => NewPolicy(h.rate_limit_max_buckets, c.tiers) = "ok"
  BY <1>3, <1>6
<1>11. CASE k = 8
  <2>1. FirstOf(a) = "serves"
    BY <1>4, <1>6, <1>11
  <2>2. LoadHttp(h, origins) = None
    BY <1>8, <1>11
  <2>3. NewPolicy(h.rate_limit_max_buckets, c.tiers) = "ok"
    BY <1>10, <1>11
  <2> QED
    BY <1>5, <2>1, <2>2, <2>3
<1>12. CASE k = 1 \/ k = 2 \/ k = 3 \/ k = 6
  <2>1. FirstOf(a) = "refused" \/ FirstOf(a) = "error"
    BY <1>4, <1>6, <1>12
  <2> QED
    BY <1>5, <2>1
<1> QED
  BY <1>7, <1>9, <1>11, <1>12

(* A configuration of an import that is accepted has a connection for its  *)
(* audit, and its artifact can be validated.                               *)
LEMMA IngestAccepted ==
  ASSUME NEW g \in IngestConfigurations, LoadIngest(g) = None
  PROVE  g.max_connections >= 2 /\ LoadArtifact(g) = None
<1> DEFINE few == <<g.max_connections < 2, "max_connections">>
           a == <<Zero(g, "max_input_bytes"), Zero(g, "lock_timeout_seconds"), Zero(g, "statement_timeout_seconds"), few>>
           b == <<Zero(g, "max_input_bytes")>>
<1>1. few[2] # None /\ (few[1] <=> g.max_connections < 2)
  BY SourcesAssumption DEF Refusals
<1>2. LoadIngest(g) = FirstOf(a) /\ LoadArtifact(g) = FirstOf(b)
  BY DEF LoadIngest, LoadArtifact
<1> HIDE DEF few
<1>3. /\ DOMAIN a = 1..4 /\ 4 \in Nat /\ a[4] = few
      /\ a[1] = Zero(g, "max_input_bytes") /\ a[2] = Zero(g, "lock_timeout_seconds")
      /\ a[3] = Zero(g, "statement_timeout_seconds")
  OBVIOUS
<1>4. DOMAIN b = {1} /\ b[1] = Zero(g, "max_input_bytes")
  OBVIOUS
<1> HIDE DEF a, b
<1>5. \A k \in Refusals : Zero(g, k)[2] # None
  BY ZeroArm
<1>6. {"max_input_bytes", "lock_timeout_seconds", "statement_timeout_seconds"} \subseteq Refusals
  BY DEF Refusals
<1>7. \A i \in 1..4 : i = 1 \/ i = 2 \/ i = 3 \/ i = 4
  OBVIOUS
<1>8. \A i \in 1..4 : a[i][2] # None
  BY <1>1, <1>3, <1>5, <1>6, <1>7
<1>9. \A i \in 1..4 : ~a[i][1]
  BY <1>2, <1>3, <1>8, NoneApplies
<1>10. ~Zero(g, "max_input_bytes")[1] /\ ~(g.max_connections < 2)
  BY <1>1, <1>3, <1>9
<1>11. FirstOf(b) = None
  BY <1>4, <1>10, NoHit
<1>12. g.max_connections \in Nat
  BY SourcesAssumption
<1>13. ~(g.max_connections < 2)
  BY <1>10
<1>14. g.max_connections >= 2
  BY <1>12, <1>13
<1> QED
  BY <1>2, <1>11, <1>14

(* A configuration that the loaders accept starts: AcceptedSettingsServe.  *)
THEOREM SettingsServe == Spec => []AcceptedSettingsServe
<1>1. Decided => AcceptedSettingsServe
  <2> SUFFICES ASSUME Decided PROVE AcceptedSettingsServe
    OBVIOUS
  <2>1. ASSUME asked.kind = "settings"
        PROVE  /\ told.boot \in {"serves", "refused", "error"}
               /\ \A k \in DOMAIN asked.given.env : told.effective[k] = asked.given.env[k]
               /\ told.boot = "serves" =>
                    /\ \A q \in told.quotas : q.capacity >= 1 /\ q.refill >= 1
                    /\ \A i \in DOMAIN asked.given.origins :
                            asked.given.origins[i] = None \/ asked.given.origins[i].canonical
    <3> DEFINE c == asked.given
               h == Effective(c.env, c.file, c.defaults, HttpDefaults)
               origins == CommaSeparated(c.origins)
               boot == Boot(h, origins, c.tiers, c.database, c.url)
    <3>1. c \in Configurations /\ told = Started(c)
      BY <2>1 DEF Decided, SettingsDecided
    <3>2. told.effective = h /\ told.boot = boot /\ told.quotas = {QuotaFor(h, c.tiers, code) : code \in {None, 1, 2}}
      BY <3>1 DEF Started
    <3>3. \A k \in DOMAIN c.env : h[k] = c.env[k]
      <4>1. DOMAIN c.env \subseteq DOMAIN HttpDefaults
        BY <3>1, SourcesAssumption DEF Source
      <4> QED
        BY <4>1, EffectiveSource
    <3> HIDE DEF h, origins
    <3>4. boot \in {"serves", "refused", "error"}
      BY <3>1, BootOutcome DEF h, origins
    <3>5. ASSUME boot = "serves"
          PROVE  /\ \A code : QuotaFor(h, c.tiers, code).capacity >= 1 /\ QuotaFor(h, c.tiers, code).refill >= 1
                 /\ \A i \in DOMAIN c.origins : c.origins[i] = None \/ c.origins[i].canonical
      <4>1. LoadHttp(h, origins) = None /\ NewPolicy(h.rate_limit_max_buckets, c.tiers) = "ok"
        BY <3>1, <3>5, BootOutcome DEF h, origins
      <4>2. /\ h["rate_limit_capacity"] >= 1 /\ h["rate_limit_refill_per_second"] >= 1
            /\ \A i \in DOMAIN c.origins : c.origins[i] = None \/ c.origins[i].canonical
        BY <3>1, <4>1, BuiltOfAccepted DEF h, origins
      <4> QED
        BY <3>1, <4>1, <4>2, QuotasServe
    <3> QED
      BY <3>2, <3>3, <3>4, <3>5
  <2>2. ASSUME asked.kind = "ingest", told.import = None
        PROVE  asked.given.max_connections >= 2 /\ told.validate = None
    <3>1. asked.given \in IngestConfigurations /\ told.import = LoadIngest(asked.given) /\ told.validate = LoadArtifact(asked.given)
      BY <2>2 DEF Decided, IngestDecided
    <3> QED
      BY <2>2, <3>1, IngestAccepted
  <2> QED
    BY <2>1, <2>2 DEF AcceptedSettingsServe
<1> QED
  BY <1>1, SpecDecided, PTL

-----------------------------------------------------------------------------
(* Measurements of a record.                                               *)

EntriesOf(raw, s) == Nested(raw.nested[s], <<s>>).value
Measures(raw) ==
    {Measure("performance", f, EntriesOf(raw, "performance")[f], PerfCode) : f \in DOMAIN EntriesOf(raw, "performance")}
    \union {Measure("weights", f, EntriesOf(raw, "weights")[f], WeightCode) : f \in DOMAIN EntriesOf(raw, "weights")}

(* What is kept of the entries of performance and weights.                 *)
LEMMA KeptMeasures ==
  ASSUME NEW raw, raw.object
  PROVE  NormalizeRecord(raw).kept.measures = {f.value : f \in {g \in Measures(raw) : g.value # None}}
  BY DEF NormalizeRecord, Measures, EntriesOf

(* Every unit code of the adapter has a dimension, and every metric it     *)
(* maps a field to has its dimensions.                                     *)
LEMMA CodesHaveDimensions ==
  /\ \A u : Mapped(UnitCode, u) # None => Mapped(UnitCode, u) \in DOMAIN UnitDimension
  /\ \A f : Mapped(PerfCode, f) # None => Mapped(PerfCode, f) \in DOMAIN MetricDimensions
  /\ \A f : Mapped(WeightCode, f) # None => Mapped(WeightCode, f) \in DOMAIN MetricDimensions
<1>1. \A u \in DOMAIN UnitCode : UnitCode[u] \in DOMAIN UnitDimension
  BY DEF UnitCode, UnitDimension
<1>2. \A f \in DOMAIN PerfCode : PerfCode[f] \in DOMAIN MetricDimensions
  BY DEF PerfCode, MetricDimensions
<1>3. \A f \in DOMAIN WeightCode : WeightCode[f] \in DOMAIN MetricDimensions
  BY DEF WeightCode, MetricDimensions
<1> QED
  BY <1>1, <1>2, <1>3 DEF Mapped

(* A measurement of a mapping that is promoted has a unit of its metric.   *)
LEMMA PromotedFits ==
  ASSUME NEW section, NEW field, NEW c, NEW mapping,
         \A f : Mapped(mapping, f) # None => Mapped(mapping, f) \in DOMAIN MetricDimensions,
         NEW m, m = Measure(section, field, c, mapping).value, Promoted(m)
  PROVE  UnitDimension[m.unit] \in MetricDimensions[m.metric]
<1> DEFINE s == Scalar(c, <<section, field>>)
           metric == Mapped(mapping, field)
           unit == Mapped(UnitCode, s.value.unit)
           fits == metric = None \/ unit = None \/ UnitFitsMetric(metric, unit)
<1>1. m.metric = metric /\ m.unit = IF fits THEN unit ELSE None
  BY DEF Measure, Found, Promoted
<1>2. metric # None /\ fits /\ unit # None
  BY <1>1 DEF Promoted
<1>3. UnitFitsMetric(metric, unit)
  BY <1>2
<1> HIDE DEF metric, unit
<1>4. metric \in DOMAIN MetricDimensions /\ unit \in DOMAIN UnitDimension
  BY <1>2, CodesHaveDimensions DEF metric, unit
<1> QED
  BY <1>1, <1>2, <1>3, <1>4 DEF UnitFitsMetric

(* What is stored of a record for one metric is in the one unit of that    *)
(* metric, and in a unit that can express it: MeasurementsAreComparable.   *)
THEOREM MeasurementsComparable == Spec => []MeasurementsAreComparable
<1>1. Decided => MeasurementsAreComparable
  <2> SUFFICES ASSUME Decided, asked.kind = "record", asked.raw.object,
                      NEW m \in {x \in told.kept.measures : Promoted(x)},
                      NEW n \in {x \in told.kept.measures : Promoted(x)}
               PROVE  /\ UnitDimension[m.unit] \in MetricDimensions[m.metric]
                      /\ m.metric = n.metric => Cardinality({Canonicalised(m), Canonicalised(n)} \ {None}) <= 1
    BY DEF MeasurementsAreComparable
  <2>1. PICK f \in Measures(asked.raw) : m = f.value
    BY KeptMeasures DEF Decided, RecordDecided
  <2>2. UnitDimension[m.unit] \in MetricDimensions[m.metric]
    BY <2>1, PromotedFits, CodesHaveDimensions DEF Measures
  <2>3. ASSUME m.metric = n.metric PROVE Cardinality({Canonicalised(m), Canonicalised(n)} \ {None}) <= 1
    <3> DEFINE unit == CanonicalOf[m.metric]
               D == {Canonicalised(m), Canonicalised(n)} \ {None}
    <3>1. Canonicalised(m) \in {unit, None} /\ Canonicalised(n) \in {unit, None}
      BY <2>3 DEF Canonicalised
    <3> HIDE DEF unit
    <3>2. D \in SUBSET {unit}
      BY <3>1
    <3> HIDE DEF D
    <3>3. IsFiniteSet({unit}) /\ Cardinality({unit}) = 1
      BY FS_Singleton
    <3> QED
      BY <3>2, <3>3, FS_Subset DEF D
  <2> QED
    BY <2>2, <2>3
<1> QED
  BY <1>1, SpecDecided, PTL

-----------------------------------------------------------------------------
(* What becomes of the values of a record.                                 *)

\* A measurement, a cost or an image that is kept is not the absent value.
NoneIsNoRecord ==
    /\ \A p, m, u, n : [field |-> p, metric |-> m, unit |-> u, number |-> n] # None
    /\ \A p, k, n, a : [field |-> p, code |-> k, number |-> n, aggregate |-> a] # None
    /\ \A p, u, s : [field |-> p, url |-> u, size |-> s] # None

TopOf(raw, f) == Entry(raw.top, f)
EngineOf(raw, f) == Entry(EntriesOf(raw, "engine"), f)
CostsOf(raw) == {Cost(k, EntriesOf(raw, "ownership_costs")[k]) : k \in DOMAIN EntriesOf(raw, "ownership_costs")}
ItemsOf(raw) == IF raw.images.json = "array" THEN raw.images.items ELSE <<>>
NumbersOf(raw) ==
    [horsepower |-> Numeric(EngineOf(raw, "horsepower"), <<"engine", "horsepower">>),
     thrust |-> Numeric(EngineOf(raw, "thrust"), <<"engine", "thrust">>),
     tbo_hours |-> NumericInteger(EngineOf(raw, "overhaul_ht"), <<"engine", "overhaul_ht">>),
     tbo_years |-> NumericInteger(EngineOf(raw, "years_before_overhaul"), <<"engine", "years_before_overhaul">>),
     price |-> Numeric(TopOf(raw, "papi_price_estimate"), <<"papi_price_estimate">>),
     for_sale |-> NumericInteger(TopOf(raw, "for_sale_count"), <<"for_sale_count">>)]
TextsOf(raw) == {Scalar(TopOf(raw, f), <<f>>) : f \in {"source_link", "title", "description"}}
    \union {Scalar(EngineOf(raw, f), <<"engine", f>>) : f \in {"manufacturer", "model"}}

\* What is found of the texts, years, measurements and costs of a record.
PartsOf(raw) ==
    {Scalar(TopOf(raw, "description"), <<"description">>), Boolean(TopOf(raw, "in_production"), <<"in_production">>),
     Integer(TopOf(raw, "start_year"), <<"start_year">>), Integer(TopOf(raw, "end_year"), <<"end_year">>)}
    \union ({Scalar(TopOf(raw, f), <<f>>) : f \in {"source_link", "title"}}
            \union {Scalar(EngineOf(raw, f), <<"engine", f>>) : f \in {"manufacturer", "model"}})
    \union Measures(raw) \union CostsOf(raw)

(* The issues of a record are those of each rule it is put through.        *)
LEMMA IssuesOfParts ==
  ASSUME NEW raw, raw.object, NEW g \in PartsOf(raw)
  PROVE  g.issues \subseteq NormalizeRecord(raw).issues
<1>1. UNION {f.issues : f \in PartsOf(raw)} \subseteq NormalizeRecord(raw).issues
  BY DEF NormalizeRecord, PartsOf, TopOf, EngineOf, Measures, CostsOf, EntriesOf
<1> QED
  BY <1>1

(* The issues of every measurement.                                        *)
LEMMA IssuesOfMeasures ==
  ASSUME NEW raw, raw.object, NEW g \in Measures(raw)
  PROVE  g.issues \subseteq NormalizeRecord(raw).issues
  BY IssuesOfParts DEF PartsOf

(* The issues of every cost.                                               *)
LEMMA IssuesOfCosts ==
  ASSUME NEW raw, raw.object, NEW g \in CostsOf(raw)
  PROVE  g.issues \subseteq NormalizeRecord(raw).issues
  BY IssuesOfParts DEF PartsOf

(* The issues of every image.                                              *)
LEMMA IssuesOfImages ==
  ASSUME NEW raw, raw.object, NEW g \in Images(ItemsOf(raw))
  PROVE  g.issues \subseteq NormalizeRecord(raw).issues
  BY DEF NormalizeRecord, ItemsOf

(* The issues of the texts of the record and of its engine.                *)
LEMMA IssuesOfTexts ==
  ASSUME NEW raw, raw.object, NEW g \in TextsOf(raw)
  PROVE  g.issues \subseteq NormalizeRecord(raw).issues
<1>1. g \in PartsOf(raw)
  BY DEF PartsOf, TextsOf
<1> QED
  BY <1>1, IssuesOfParts

(* The issues of its numbers.                                              *)
LEMMA IssuesOfNumbers ==
  ASSUME NEW raw, raw.object, NEW n \in DOMAIN NumbersOf(raw)
  PROVE  NumbersOf(raw)[n].issues \subseteq NormalizeRecord(raw).issues
<1>1. UNION {f.issues : f \in {NumbersOf(raw)[k] : k \in DOMAIN NumbersOf(raw)}} \subseteq NormalizeRecord(raw).issues
  BY Zenon DEF NormalizeRecord, NumbersOf, TopOf, EngineOf, EntriesOf
<1> QED
  BY <1>1

(* The issues of its years and of whether it is in production.             *)
LEMMA IssuesOfYears ==
  ASSUME NEW raw, raw.object
  PROVE  /\ Boolean(TopOf(raw, "in_production"), <<"in_production">>).issues \subseteq NormalizeRecord(raw).issues
         /\ Integer(TopOf(raw, "start_year"), <<"start_year">>).issues \subseteq NormalizeRecord(raw).issues
         /\ Integer(TopOf(raw, "end_year"), <<"end_year">>).issues \subseteq NormalizeRecord(raw).issues
  BY IssuesOfParts DEF PartsOf

(* The issue of a section that is no object.                               *)
LEMMA IssuesOfSections ==
  ASSUME NEW raw, raw.object, NEW s \in DOMAIN raw.nested
  PROVE  Nested(raw.nested[s], <<s>>).issues \subseteq NormalizeRecord(raw).issues
  BY DEF NormalizeRecord

(* The issue of a field that no rule reads.                                *)
LEMMA IssuesOfUnsupported ==
  ASSUME NEW raw, raw.object, NEW f \in DOMAIN raw.top \ KnownFields
  PROVE  <<"UNSUPPORTED_RECORD_FIELD", <<f>>>> \in NormalizeRecord(raw).issues
  BY DEF NormalizeRecord

(* The address of its page is kept, or its issue is.                       *)
LEMMA UrlOf ==
  ASSUME NEW raw, raw.object
  PROVE  LET page == Scalar(TopOf(raw, "page_url"), <<"page_url">>)
             url == IF page.value = None THEN page ELSE NormalizedUrl(raw.url, <<"page_url">>)
         IN  url.issues \subseteq NormalizeRecord(raw).issues /\ NormalizeRecord(raw).kept.url = url.value
<1> DEFINE page == Scalar(TopOf(raw, "page_url"), <<"page_url">>)
           url == IF page.value = None THEN page ELSE NormalizedUrl(raw.url, <<"page_url">>)
<1>1. url.issues \subseteq NormalizeRecord(raw).issues
  BY DEF NormalizeRecord, TopOf
<1>2. NormalizeRecord(raw).kept.url = url.value
  BY DEF NormalizeRecord, TopOf
<1> QED
  BY <1>1, <1>2

(* What is kept of its costs and images, and the image that leads.         *)
LEMMA KeptOf ==
  ASSUME NEW raw, raw.object
  PROVE  /\ NormalizeRecord(raw).kept.costs = {f.value : f \in {g \in CostsOf(raw) : g.value # None}}
         /\ NormalizeRecord(raw).kept.images = {f.value : f \in {g \in Images(ItemsOf(raw)) : g.value # None}}
         /\ NormalizeRecord(raw).kept.lead = Lead(ItemsOf(raw))
<1>1. NormalizeRecord(raw).kept.costs = {f.value : f \in {g \in CostsOf(raw) : g.value # None}}
  BY DEF NormalizeRecord, CostsOf, EntriesOf
<1>2. NormalizeRecord(raw).kept.images = {f.value : f \in {g \in Images(ItemsOf(raw)) : g.value # None}}
  BY DEF NormalizeRecord, ItemsOf
<1>3. NormalizeRecord(raw).kept.lead = Lead(ItemsOf(raw))
  BY DEF NormalizeRecord, ItemsOf
<1> QED
  BY <1>1, <1>2, <1>3

(* What is kept of its numbers.                                            *)
LEMMA KeptNumbers ==
  ASSUME NEW raw, raw.object, NEW n \in DOMAIN NumbersOf(raw)
  PROVE  NormalizeRecord(raw).kept.numbers[n] = Value(NumbersOf(raw)[n])
<1>1. NormalizeRecord(raw).kept.numbers = [k \in DOMAIN NumbersOf(raw) |-> Value(NumbersOf(raw)[k])]
  BY DEF NormalizeRecord, NumbersOf, TopOf, EngineOf, EntriesOf
<1> QED
  BY <1>1

(* An engine has a model if and only if one is stated.                     *)
LEMMA KeptModel ==
  ASSUME NEW raw, raw.object
  PROVE  NormalizeRecord(raw).kept.model = (Scalar(EngineOf(raw, "model"), <<>>).value # None)
  BY DEF NormalizeRecord, EngineOf, EntriesOf

(* A year or a flag of the record itself is kept before one of its name.   *)
LEMMA KeptYears ==
  ASSUME NEW raw, raw.object
  PROVE  LET flag == Boolean(TopOf(raw, "in_production"), <<"in_production">>)
             first == Integer(TopOf(raw, "start_year"), <<"start_year">>)
             last == Integer(TopOf(raw, "end_year"), <<"end_year">>)
         IN  /\ first.value # None => NormalizeRecord(raw).kept.start = first.value.num
             /\ last.value # None => NormalizeRecord(raw).kept.end = last.value.num
             /\ flag.value # None => NormalizeRecord(raw).kept.status = ServiceStatus(Truth(flag.value))
<1> DEFINE flag == Boolean(TopOf(raw, "in_production"), <<"in_production">>)
           first == Integer(TopOf(raw, "start_year"), <<"start_year">>)
           last == Integer(TopOf(raw, "end_year"), <<"end_year">>)
<1>1. first.value # None => NormalizeRecord(raw).kept.start = first.value.num
  BY DEF NormalizeRecord, TopOf
<1>2. last.value # None => NormalizeRecord(raw).kept.end = last.value.num
  BY DEF NormalizeRecord, TopOf
<1>3. flag.value # None => NormalizeRecord(raw).kept.status = ServiceStatus(Truth(flag.value))
  BY DEF NormalizeRecord, TopOf
<1> QED
  BY <1>1, <1>2, <1>3


\* Each rule reports a value of its cell, or keeps it.
Reported(found, path) == \E i \in found.issues : i[2] = path

(* A composite is reported, any other value that says something is itself. *)
LEMMA ScalarSays ==
  ASSUME NEW c, c # None, Says(c), NEW path
  PROVE  /\ c.json = "composite" => Scalar(c, path) = [value |-> None, issues |-> {<<"FIELD_NOT_SCALAR", path>>}]
         /\ c.json # "composite" => Scalar(c, path) = [value |-> c, issues |-> {}]
  BY DEF Says, Scalar, Scalars, Found

(* A number is kept or reported, and so is a whole one.                    *)
LEMMA NumericSays ==
  ASSUME NEW c, c # None, Says(c), NEW path
  PROVE  /\ Reported(Numeric(c, path), path)
            \/ (c.json # "composite" /\ Numeric(c, path).value = c /\ c.num # None)
         /\ Reported(NumericInteger(c, path), path) \/ (c.json # "composite" /\ Value(NumericInteger(c, path)) # None)
<1> DEFINE n == Numeric(c, path)
<1>1. \/ Reported(n, path) /\ n.value = None
      \/ c.json # "composite" /\ n.value = c /\ c.num # None
  <2>1. CASE c.json = "composite"
    <3>1. n.value = None /\ n.issues = {<<"FIELD_NOT_SCALAR", path>>}
      BY <2>1, ScalarSays DEF Numeric
    <3> QED
      BY <3>1 DEF Reported
  <2>2. CASE c.json # "composite" /\ c.num = None
    <3>1. n.value = None /\ n.issues = {<<"INVALID_NUMERIC_FIELD", path>>}
      BY <2>2, ScalarSays DEF Numeric, Found
    <3> QED
      BY <3>1 DEF Reported
  <2>3. CASE c.json # "composite" /\ c.num # None
    BY <2>3, ScalarSays DEF Numeric
  <2> QED
    BY <2>1, <2>2, <2>3
<1> HIDE DEF n
<1>2. NumericInteger(c, path) = IF n.value # None /\ (n.value.frac \/ n.value.num \notin I32)
                                THEN [value |-> None, issues |-> {<<"INVALID_INTEGER_FIELD", path>>}] ELSE n
  BY DEF n, NumericInteger, Found
<1>3. Reported(NumericInteger(c, path), path) \/ (c.json # "composite" /\ Value(NumericInteger(c, path)) # None)
  <2>1. CASE n.value # None /\ (n.value.frac \/ n.value.num \notin I32)
    <3>1. NumericInteger(c, path).issues = {<<"INVALID_INTEGER_FIELD", path>>}
      BY <1>2, <2>1
    <3> QED
      BY <3>1 DEF Reported
  <2>2. CASE ~(n.value # None /\ (n.value.frac \/ n.value.num \notin I32))
    BY <1>1, <1>2, <2>2 DEF Value
  <2> QED
    BY <2>1, <2>2
<1> QED
  BY <1>1, <1>3 DEF n

(* A year is kept or reported.                                             *)
LEMMA IntegerSays ==
  ASSUME NEW c, c # None, Says(c), NEW path
  PROVE  Reported(Integer(c, path), path) \/ (c.json # "composite" /\ Integer(c, path).value = c)
<1>1. CASE c.json = "composite"
  <2>1. Integer(c, path).issues = {<<"FIELD_NOT_SCALAR", path>>}
    BY <1>1, ScalarSays DEF Integer
  <2> QED
    BY <2>1 DEF Reported
<1>2. CASE c.json # "composite" /\ ~IsI16(c)
  <2>1. Integer(c, path).issues = {<<"INVALID_INTEGER_FIELD", path>>}
    BY <1>2, ScalarSays DEF Integer, Found
  <2> QED
    BY <2>1 DEF Reported
<1>3. CASE c.json # "composite" /\ IsI16(c)
  BY <1>3, ScalarSays DEF Integer
<1> QED
  BY <1>1, <1>2, <1>3

(* So is a flag.                                                           *)
LEMMA BooleanSays ==
  ASSUME NEW c, c # None, Says(c), NEW path
  PROVE  Reported(Boolean(c, path), path) \/ (c.json # "composite" /\ Boolean(c, path).value = c)
  BY DEF Boolean, Found, Reported, Says, Scalars

(* A measurement is promoted, or an issue says what keeps it from that.    *)
LEMMA MeasureSays ==
  ASSUME NoneIsNoRecord, NEW c, c # None, Says(c), NEW section, NEW field, NEW mapping,
         ~(section = "performance" /\ field \in {"horsepower", "thrust"})
  PROVE  LET g == Measure(section, field, c, mapping)
         IN  \/ Reported(g, <<section, field>>)
             \/ c.json # "composite" /\ g.value # None /\ g.value.field = <<section, field>> /\ Promoted(g.value)
<1> DEFINE path == <<section, field>>
           g == Measure(section, field, c, mapping)
<1> HIDE DEF path
<1>1. CASE c.json = "composite"
  <2>1. g.issues = {<<"FIELD_NOT_SCALAR", path>>}
    BY <1>1, ScalarSays DEF Measure, Found, path
  <2> QED
    BY <2>1 DEF Reported, path
<1>2. CASE c.json # "composite"
  <2> DEFINE metric == Mapped(mapping, field)
             unit == Mapped(UnitCode, c.unit)
             fits == metric = None \/ unit = None \/ UnitFitsMetric(metric, unit)
             negative == c.num # None /\ c.num < 0
  <2>1. g.value = [field |-> path, metric |-> metric, unit |-> IF fits THEN unit ELSE None,
                   number |-> IF negative THEN None ELSE c.num]
    BY <1>2, ScalarSays DEF Measure, Found, path
  <2>2. /\ metric = None => <<"UNMAPPED_MEASUREMENT_FIELD", path>> \in g.issues
        /\ c.num = None => <<"MEASUREMENT_PARSE_FAILURE", path>> \in g.issues
        /\ c.unit # None /\ unit = None => <<"UNKNOWN_MEASUREMENT_UNIT", path>> \in g.issues
        /\ metric # None /\ c.num # None /\ c.unit = None => <<"MISSING_MEASUREMENT_UNIT", path>> \in g.issues
        /\ ~fits => <<"INCOMPATIBLE_MEASUREMENT_UNIT", path>> \in g.issues
        /\ negative => <<"NEGATIVE_MEASUREMENT", path>> \in g.issues
    BY <1>2, ScalarSays DEF Measure, Found, path
  <2>3. g.value # None
    BY <2>1 DEF NoneIsNoRecord
  <2>4. Reported(g, path) \/ (metric # None /\ c.num # None /\ unit # None /\ fits /\ ~negative)
    <3> HIDE DEF metric, unit, fits, negative, g
    <3> QED
      BY <2>2 DEF Reported
  <2>5. Reported(g, path) \/ (g.value.field = path /\ Promoted(g.value))
    <3> HIDE DEF metric, unit, fits, negative, g
    <3> QED
      BY <2>1, <2>3, <2>4 DEF Promoted
  <2> QED
    BY <1>2, <2>3, <2>5 DEF path
<1> QED
  BY <1>1, <1>2

(* A cost is kept with its code and number, or reported.                   *)
LEMMA CostSays ==
  ASSUME NoneIsNoRecord, NEW c, c # None, Says(c), NEW key
  PROVE  LET g == Cost(key, c)
         IN  \/ Reported(g, <<"ownership_costs", key>>)
             \/ /\ c.json # "composite" /\ g.value # None /\ g.value.field = <<"ownership_costs", key>>
                /\ g.value.code # None /\ g.value.number # None
<1> DEFINE path == <<"ownership_costs", key>>
           g == Cost(key, c)
           code == CostCode(key)
<1> HIDE DEF path, code
<1>1. CASE c.json = "composite"
  <2>1. g.issues = {<<"FIELD_NOT_SCALAR", path>>}
    BY <1>1, ScalarSays DEF Cost, Found, path
  <2> QED
    BY <2>1 DEF Reported, path
<1>2. CASE c.json # "composite"
  <2>1. g.value = [field |-> path, code |-> code, number |-> c.num, aggregate |-> code \in Totals]
    BY <1>2, ScalarSays DEF Cost, Found, path, code
  <2>2. g.issues = IF code = None THEN {<<"UNMAPPED_COST_KEY", path>>}
                   ELSE IF c.num = None THEN {<<"UNPARSEABLE_COST_VALUE", path>>} ELSE {}
    BY <1>2, ScalarSays DEF Cost, Found, path, code
  <2>3. g.value # None
    BY <2>1 DEF NoneIsNoRecord
  <2>4. Reported(g, path) \/ (g.value.field = path /\ g.value.code # None /\ g.value.number # None)
    <3> HIDE DEF g
    <3>1. CASE code = None \/ c.num = None
      <4>1. \E kind \in {"UNMAPPED_COST_KEY", "UNPARSEABLE_COST_VALUE"} : g.issues = {<<kind, path>>}
        BY <2>2, <3>1
      <4> QED
        BY <4>1 DEF Reported
    <3>2. CASE ~(code = None \/ c.num = None)
      BY <2>1, <3>2
    <3> QED
      BY <3>1, <3>2
  <2> QED
    BY <1>2, <2>3, <2>4 DEF path
<1> QED
  BY <1>1, <1>2

(* An image that is no object or has no place is not kept, and one whose   *)
(* address is no address is reported.                                      *)
LEMMA ImageSays ==
  ASSUME NoneIsNoRecord, NEW image, NEW position
  PROVE  LET g == Image(image, position)
         IN  \/ Reported(g, <<"images", position>>)
             \/ g.value # None /\ g.value.field = <<"images", position>> /\ g.value.url # None
<1> DEFINE path == <<"images", position>>
           g == Image(image, position)
           url == NormalizedUrl(image.href, path)
<1> HIDE DEF path
<1>1. Reported(url, path) \/ url.value # None
  BY RecordsAssumption DEF NormalizedUrl, Found, Reported
<1>2. CASE ~image.object \/ image.href = None \/ position \notin I16
  <2>1. \E code : g.issues = {<<code, path>>}
    BY <1>2 DEF Image, Found, path
  <2> QED
    BY <2>1 DEF Reported, path
<1>3. CASE ~(~image.object \/ image.href = None \/ position \notin I16)
  <2>1. g.value = [field |-> path, url |-> url.value, size |-> IF image.size = "WxH" THEN "WxH" ELSE None]
    BY <1>3 DEF Image, Found, path
  <2>2. url.issues \subseteq g.issues
    BY <1>3 DEF Image, Found, path
  <2>3. g.value # None
    BY <2>1 DEF NoneIsNoRecord
  <2> HIDE DEF g, url
  <2>4. Reported(g, path) \/ (g.value.field = path /\ g.value.url # None)
    BY <1>1, <2>1, <2>2 DEF Reported
  <2> QED
    BY <2>3, <2>4 DEF path, g
<1> QED
  BY <1>2, <1>3

(* One image leads if and only if one is kept.                             *)
LEMMA LeadOfKept ==
  ASSUME NEW items, NEW n \in Nat, DOMAIN items = 1..n
  PROVE  (\E g \in Images(items) : g.value # None) <=> Lead(items) # None
<1> DEFINE arms == [i \in DOMAIN items |-> <<Image(items[i], i - 1).value # None, i>>]
<1>1. DOMAIN arms = 1..n /\ \A i \in 1..n : arms[i][1] = (Image(items[i], i - 1).value # None) /\ arms[i][2] = i
  OBVIOUS
<1>2. Lead(items) = FirstOf(arms)
  BY DEF Lead
<1>3. (\E g \in Images(items) : g.value # None) <=> \E i \in 1..n : Image(items[i], i - 1).value # None
  BY DEF Images
<1> HIDE DEF arms
<1>4. CASE \E i \in 1..n : Image(items[i], i - 1).value # None
  <2>1. PICK h \in 1..n : arms[h][1]
    BY <1>1, <1>4
  <2>2. PICK k \in 1..n : FirstOf(arms) = arms[k][2]
    BY <1>1, <2>1, SomeHit
  <2>3. FirstOf(arms) = k /\ k \in Int
    BY <1>1, <2>2
  <2> QED
    BY <1>2, <1>3, <1>4, <2>3, RecordsAssumption
<1>5. CASE ~ \E i \in 1..n : Image(items[i], i - 1).value # None
  <2>1. \A i \in DOMAIN arms : ~arms[i][1]
    BY <1>1, <1>5
  <2> QED
    BY <1>2, <1>3, <1>5, <2>1, NoHit
<1> QED
  BY <1>4, <1>5


\* A value is reported when the issues of the record have its path.
Has(issues, path) == \E i \in issues : i[2] = path

(* What a rule reports, the record has.                                    *)
LEMMA ReportedByRecord ==
  ASSUME NEW raw, NEW g, NEW path, Reported(g, path), g.issues \subseteq NormalizeRecord(raw).issues
  PROVE  Has(NormalizeRecord(raw).issues, path)
  BY DEF Reported, Has

(* The fields of the record itself.                                        *)
LEMMA FieldKept ==
  ASSUME NEW raw, raw.object, Formed(raw), NEW f \in DOMAIN raw.top, Says(raw.top[f])
  PROVE  LET r == NormalizeRecord(raw)
         IN  \/ Has(r.issues, <<f>>)
             \/ raw.top[f].json # "composite" /\ (FieldWritten(raw, r.kept, f) \/ FieldOnlyStaged(r.kept, f))
<1> DEFINE r == NormalizeRecord(raw)
           c == raw.top[f]
<1>0. c # None /\ TopOf(raw, f) = c
  BY DEF Formed, TopOf, Entry
<1> HIDE DEF r
<1>1. CASE f \notin KnownFields
  <2>1. <<"UNSUPPORTED_RECORD_FIELD", <<f>>>> \in r.issues
    BY <1>1, IssuesOfUnsupported DEF r
  <2> QED
    BY <2>1 DEF Has, r
<1>2. CASE f \in {"source_link", "title", "description"}
  <2>1. CASE c.json = "composite"
    <3> DEFINE g == Scalar(TopOf(raw, f), <<f>>)
    <3>1. g.issues \subseteq r.issues
      BY <1>2, IssuesOfTexts DEF TextsOf, r
    <3>2. g.issues = {<<"FIELD_NOT_SCALAR", <<f>>>>}
      BY <1>0, <2>1, ScalarSays
    <3> HIDE DEF g
    <3> QED
      BY <3>1, <3>2 DEF Has, r
  <2>2. CASE c.json # "composite"
    BY <1>2, <2>2 DEF FieldWritten, FieldOnlyStaged, r
  <2> QED
    BY <2>1, <2>2 DEF r
<1>3. CASE f = "papi_price_estimate"
  <2> DEFINE g == Numeric(TopOf(raw, f), <<f>>)
  <2>1. g = NumbersOf(raw)["price"] /\ "price" \in DOMAIN NumbersOf(raw)
    BY <1>3 DEF NumbersOf
  <2>2. g.issues \subseteq r.issues /\ r.kept.numbers["price"] = Value(g)
    BY <2>1, IssuesOfNumbers, KeptNumbers DEF r
  <2>3. Reported(g, <<f>>) \/ (c.json # "composite" /\ g.value = c /\ c.num # None)
    BY <1>0, NumericSays
  <2> HIDE DEF g
  <2>4. CASE Reported(g, <<f>>)
    BY <2>2, <2>4, ReportedByRecord DEF r
  <2>5. CASE c.json # "composite" /\ g.value = c /\ c.num # None
    <3>1. r.kept.numbers["price"] # None
      BY <1>0, <2>2, <2>5 DEF Value
    <3> QED
      BY <1>3, <2>5, <3>1 DEF FieldWritten, r
  <2> QED
    BY <2>3, <2>4, <2>5
<1>4. CASE f = "for_sale_count"
  <2> DEFINE g == NumericInteger(TopOf(raw, f), <<f>>)
  <2>1. g = NumbersOf(raw)["for_sale"] /\ "for_sale" \in DOMAIN NumbersOf(raw)
    BY <1>4 DEF NumbersOf
  <2>2. g.issues \subseteq r.issues /\ r.kept.numbers["for_sale"] = Value(g)
    BY <2>1, IssuesOfNumbers, KeptNumbers DEF r
  <2>3. Reported(g, <<f>>) \/ (c.json # "composite" /\ Value(g) # None)
    BY <1>0, NumericSays
  <2> HIDE DEF g
  <2>4. CASE Reported(g, <<f>>)
    BY <2>2, <2>4, ReportedByRecord DEF r
  <2>5. CASE c.json # "composite" /\ Value(g) # None
    BY <1>4, <2>2, <2>5 DEF FieldWritten, FieldOnlyStaged, r
  <2> QED
    BY <2>3, <2>4, <2>5
<1>5. CASE f = "page_url"
  <2> DEFINE page == Scalar(TopOf(raw, "page_url"), <<"page_url">>)
             url == IF page.value = None THEN page ELSE NormalizedUrl(raw.url, <<"page_url">>)
  <2>1. url.issues \subseteq r.issues /\ r.kept.url = url.value
    BY UrlOf DEF r
  <2>2. CASE c.json = "composite"
    <3>1. url.issues = {<<"FIELD_NOT_SCALAR", <<f>>>>}
      BY <1>0, <1>5, <2>2, ScalarSays
    <3> HIDE DEF url
    <3> QED
      BY <2>1, <3>1 DEF Has, r
  <2>3. CASE c.json # "composite"
    <3>1. url = NormalizedUrl(raw.url, <<f>>)
      BY <1>0, <1>5, <2>3, ScalarSays
    <3> HIDE DEF url
    <3>2. url.issues = {<<"INVALID_URL", <<f>>>>} \/ url.value # None
      BY <3>1, RecordsAssumption DEF NormalizedUrl, Found
    <3>3. CASE url.issues = {<<"INVALID_URL", <<f>>>>}
      BY <2>1, <3>3 DEF Has, r
    <3>4. CASE url.value # None
      BY <1>5, <2>1, <2>3, <3>4 DEF FieldWritten, r
    <3> QED
      BY <3>2, <3>3, <3>4
  <2> QED
    BY <2>2, <2>3
<1>6. CASE f \in {"start_year", "end_year"}
  <2> DEFINE g == Integer(TopOf(raw, f), <<f>>)
  <2>1. g.issues \subseteq r.issues
    BY <1>6, IssuesOfYears DEF r
  <2>2. Reported(g, <<f>>) \/ (c.json # "composite" /\ g.value = c)
    BY <1>0, IntegerSays
  <2>3. g.value = c => FieldWritten(raw, r.kept, f)
    BY <1>0, <1>6, KeptYears DEF FieldWritten, r
  <2> HIDE DEF g
  <2> QED
    BY <2>1, <2>2, <2>3, ReportedByRecord DEF r
<1>7. CASE f = "in_production"
  <2> DEFINE g == Boolean(TopOf(raw, f), <<f>>)
  <2>1. g.issues \subseteq r.issues
    BY <1>7, IssuesOfYears DEF r
  <2>2. Reported(g, <<f>>) \/ (c.json # "composite" /\ g.value = c)
    BY <1>0, BooleanSays
  <2>3. g.value = c => r.kept.status = ServiceStatus(Truth(c))
    BY <1>0, <1>7, KeptYears DEF r
  <2>4. ServiceStatus(Truth(c)) # None
    BY RecordsAssumption DEF ServiceStatus, Truth
  <2> HIDE DEF g
  <2>5. g.value = c => FieldWritten(raw, r.kept, f)
    BY <1>7, <2>3, <2>4 DEF FieldWritten
  <2> QED
    BY <2>1, <2>2, <2>5, ReportedByRecord DEF r
<1> QED
  BY <1>1, <1>2, <1>3, <1>4, <1>5, <1>6, <1>7 DEF KnownFields, r

(* The entries of its sections.                                            *)
LEMMA EntryKept ==
  ASSUME NoneIsNoRecord, NEW raw, raw.object, Formed(raw), NEW s \in Sections, raw.nested[s].json = "object",
         NEW f \in DOMAIN raw.nested[s].entries, Says(raw.nested[s].entries[f]), ~Unread(s, f)
  PROVE  LET r == NormalizeRecord(raw)
         IN  \/ Has(r.issues, <<s, f>>)
             \/ /\ raw.nested[s].entries[f].json # "composite"
                /\ EntryWritten(r.kept, s, f) \/ EntryOnlyStaged(r.kept, s, f)
<1> DEFINE r == NormalizeRecord(raw)
           entries == raw.nested[s].entries
           c == entries[f]
<1>0. EntriesOf(raw, s) = entries /\ f \in DOMAIN entries /\ c # None
  <2>1. EntriesOf(raw, s) = entries
    BY DEF EntriesOf, Nested, Found
  <2>2. c # None
    BY DEF Formed, Sections
  <2> QED
    BY <2>1, <2>2
<1> HIDE DEF r
<1>1. CASE s \in {"performance", "weights"}
  <2> DEFINE mapping == IF s = "performance" THEN PerfCode ELSE WeightCode
             g == Measure(s, f, c, mapping)
  <2>1. ~(s = "performance" /\ f \in {"horsepower", "thrust"})
    BY DEF Unread
  <2>2. g \in Measures(raw)
    BY <1>0, <1>1 DEF Measures
  <2>3. Reported(g, <<s, f>>) \/ (c.json # "composite" /\ g.value # None /\ g.value.field = <<s, f>> /\ Promoted(g.value))
    BY <1>0, <2>1, MeasureSays
  <2>4. g.issues \subseteq r.issues
    BY <2>2, IssuesOfMeasures DEF r
  <2>5. g.value # None => g.value \in r.kept.measures
    BY <2>2, KeptMeasures DEF r
  <2> HIDE DEF g
  <2>6. CASE Reported(g, <<s, f>>)
    BY <2>4, <2>6, ReportedByRecord DEF r
  <2>7. CASE c.json # "composite" /\ g.value # None /\ g.value.field = <<s, f>> /\ Promoted(g.value)
    <3>1. EntryWritten(r.kept, s, f)
      BY <1>1, <2>5, <2>7 DEF EntryWritten
    <3> QED
      BY <2>7, <3>1 DEF r
  <2> QED
    BY <2>3, <2>6, <2>7
<1>2. CASE s = "ownership_costs"
  <2> DEFINE g == Cost(f, c)
  <2>2. g \in CostsOf(raw)
    BY <1>0, <1>2 DEF CostsOf
  <2>3. \/ Reported(g, <<s, f>>)
        \/ c.json # "composite" /\ g.value # None /\ g.value.field = <<s, f>> /\ g.value.code # None /\ g.value.number # None
    BY <1>0, <1>2, CostSays
  <2>4. g.issues \subseteq r.issues
    BY <2>2, IssuesOfCosts DEF r
  <2>5. g.value # None => g.value \in r.kept.costs
    BY <2>2, KeptOf DEF r
  <2> HIDE DEF g
  <2>6. CASE Reported(g, <<s, f>>)
    BY <2>4, <2>6, ReportedByRecord DEF r
  <2>7. CASE c.json # "composite" /\ g.value # None /\ g.value.field = <<s, f>> /\ g.value.code # None /\ g.value.number # None
    <3>1. EntryWritten(r.kept, s, f)
      BY <1>2, <2>5, <2>7 DEF EntryWritten
    <3> QED
      BY <2>7, <3>1 DEF r
  <2> QED
    BY <2>3, <2>6, <2>7
<1>3. CASE s = "engine" /\ f \in EngineTexts
  <2> DEFINE g == Scalar(EngineOf(raw, f), <<"engine", f>>)
  <2>1. EngineOf(raw, f) = c
    BY <1>0, <1>3 DEF EngineOf, Entry
  <2>2. CASE c.json = "composite"
    <3>1. g \in TextsOf(raw)
      BY <1>3 DEF TextsOf, EngineTexts
    <3>2. g.issues = {<<"FIELD_NOT_SCALAR", <<s, f>>>>}
      BY <1>0, <1>3, <2>1, <2>2, ScalarSays
    <3>3. g.issues \subseteq r.issues
      BY <3>1, IssuesOfTexts DEF r
    <3> HIDE DEF g
    <3> QED
      BY <3>2, <3>3 DEF Has, r
  <2>3. CASE c.json # "composite"
    <3>1. f = "model" => r.kept.model
      <4>1. Scalar(c, <<>>).value = c
        BY <1>0, <2>3, ScalarSays
      <4> QED
        BY <1>0, <2>1, <4>1, KeptModel DEF r
    <3>2. EngineKept(r.kept, f)
      BY <1>3 DEF EngineKept
    <3> QED
      BY <1>3, <2>3, <3>1, <3>2 DEF EntryWritten, EntryOnlyStaged, r
  <2> QED
    BY <2>2, <2>3 DEF r
<1>4. CASE s = "engine" /\ f \in DOMAIN EngineNumberOf
  <2> DEFINE g == NumbersOf(raw)[EngineNumberOf[f]]
  <2>0. f \in {"horsepower", "thrust", "overhaul_ht", "years_before_overhaul"}
    BY <1>4 DEF EngineNumberOf
  <2>1. EngineOf(raw, f) = c
    BY <1>0, <1>4 DEF EngineOf, Entry
  <2>2. EngineNumberOf[f] \in DOMAIN NumbersOf(raw)
    BY <2>0 DEF NumbersOf, EngineNumberOf
  <2>3. g = Numeric(c, <<s, f>>) \/ g = NumericInteger(c, <<s, f>>)
    BY <1>4, <2>0, <2>1 DEF NumbersOf, EngineNumberOf
  <2>4. Reported(g, <<s, f>>) \/ (c.json # "composite" /\ Value(g) # None)
    BY <1>0, <2>3, NumericSays DEF Value
  <2>5. g.issues \subseteq r.issues /\ r.kept.numbers[EngineNumberOf[f]] = Value(g)
    BY <2>2, IssuesOfNumbers, KeptNumbers DEF r
  <2> HIDE DEF g
  <2>6. CASE Reported(g, <<s, f>>)
    BY <2>5, <2>6, ReportedByRecord DEF r
  <2>7. CASE c.json # "composite" /\ Value(g) # None
    <3>1. EngineKept(r.kept, f)
      BY <1>4, <2>5, <2>7 DEF EngineKept
    <3>2. f # "model"
      BY <2>0
    <3> QED
      BY <1>4, <2>7, <3>1, <3>2 DEF EntryWritten, EntryOnlyStaged, r
  <2> QED
    BY <2>4, <2>6, <2>7
<1>5. s = "engine" => f \in EngineTexts \/ f \in DOMAIN EngineNumberOf
  BY DEF Unread
<1> QED
  BY <1>1, <1>2, <1>3, <1>4, <1>5 DEF Sections

(* Every value a record states is written or reported, or is one of those  *)
(* an import drops in silence, and a kept image leads: SilentLossIsKnown.  *)
THEOREM SilentLossIsNamed == ASSUME NoneIsNoRecord PROVE Spec => []SilentLossIsKnown
<1>1. ASSUME Decided, asked.kind = "record", asked.raw.object
      PROVE  SilentLossIsKnown
  <2> DEFINE raw == asked.raw
             r == NormalizeRecord(raw)
  <2>1. told = r /\ Formed(raw)
    BY <1>1, RecordsAssumption DEF Decided, RecordDecided
  <2> HIDE DEF raw
  <2>2. \A f \in DOMAIN raw.top : Says(raw.top[f]) =>
            \/ Has(told.issues, <<f>>)
            \/ raw.top[f].json # "composite" /\ (FieldWritten(raw, told.kept, f) \/ FieldOnlyStaged(told.kept, f))
    BY <1>1, <2>1, FieldKept DEF raw
  <2>3. \A s \in Sections : raw.nested[s].json = "object" =>
            \A f \in DOMAIN raw.nested[s].entries : Says(raw.nested[s].entries[f]) =>
                \/ Has(told.issues, <<s, f>>) \/ Unread(s, f)
                \/ /\ raw.nested[s].entries[f].json # "composite"
                   /\ EntryWritten(told.kept, s, f) \/ EntryOnlyStaged(told.kept, s, f)
    BY <1>1, <2>1, EntryKept DEF raw
  <2>4. ASSUME NEW s \in Sections, raw.nested[s].json \notin {"absent", "null", "object"}
        PROVE  Has(told.issues, <<s>>)
    <3>1. s \in DOMAIN raw.nested
      BY <2>1 DEF Formed, Sections
    <3>2. <<"FIELD_NOT_OBJECT", <<s>>>> \in Nested(raw.nested[s], <<s>>).issues
      BY <2>4 DEF Nested, Found
    <3>3. <<"FIELD_NOT_OBJECT", <<s>>>> \in told.issues
      BY <1>1, <2>1, <3>1, <3>2, IssuesOfSections DEF raw
    <3> QED
      BY <3>3 DEF Has
  <2>5. ASSUME raw.images.json = "array", NEW i \in DOMAIN raw.images.items
        PROVE  \/ Has(told.issues, <<"images", i - 1>>)
               \/ \E m \in told.kept.images : m.field = <<"images", i - 1>> /\ m.url # None
    <3> DEFINE g == Image(raw.images.items[i], i - 1)
    <3>1. g \in Images(ItemsOf(raw))
      BY <2>5 DEF Images, ItemsOf
    <3>2. g.issues \subseteq told.issues
      BY <1>1, <2>1, <3>1, IssuesOfImages DEF raw
    <3>3. g.value # None => g.value \in told.kept.images
      BY <1>1, <2>1, <3>1, KeptOf DEF raw
    <3>4. \/ Reported(g, <<"images", i - 1>>)
          \/ g.value # None /\ g.value.field = <<"images", i - 1>> /\ g.value.url # None
      BY ImageSays
    <3> HIDE DEF g
    <3> QED
      BY <3>2, <3>3, <3>4 DEF Has, Reported
  <2>6. told.kept.images # {} <=> told.kept.lead # None
    <3>1. PICK n \in Nat : DOMAIN ItemsOf(raw) = 1..n
      <4>1. CASE raw.images.json = "array"
        BY <2>1, <4>1 DEF Formed, ItemsOf
      <4>2. CASE raw.images.json # "array"
        BY <4>2 DEF ItemsOf
      <4> QED
        BY <4>1, <4>2
    <3>2. (\E g \in Images(ItemsOf(raw)) : g.value # None) <=> Lead(ItemsOf(raw)) # None
      BY <3>1, LeadOfKept
    <3>3. told.kept.images # {} <=> \E g \in Images(ItemsOf(raw)) : g.value # None
      BY <1>1, <2>1, KeptOf DEF raw
    <3> QED
      BY <1>1, <2>1, <3>2, <3>3, KeptOf DEF raw
  <2> QED
    BY <2>2, <2>3, <2>4, <2>5, <2>6 DEF SilentLossIsKnown, Has, raw
<1>2. Decided => SilentLossIsKnown
  BY <1>1 DEF SilentLossIsKnown
<1> QED
  BY <1>2, SpecDecided, PTL

-----------------------------------------------------------------------------
(* Spellings and conditions.                                               *)

(* A slug of the domain type is one of the database's domain, and no other *)
(* text is: the runs are what is between the hyphens.                      *)
LEMMA SlugIsText ==
  ASSUME NEW text \in Seq(STRING)
  PROVE  Slug(text) <=> SlugText(text)
<1> DEFINE n == Len(text)
           hyphens == {i \in DOMAIN text : text[i] = "-"}
<1>1. n \in Nat /\ DOMAIN text = 1..n /\ (text # <<>> <=> n > 0)
  OBVIOUS
<1>2. ASSUME Slug(text) PROVE SlugText(text)
  <2> DEFINE runs == hyphens \union {0, n + 1}
  <2>1. /\ n > 0 /\ \A i \in 1..n : text[i] \in {"a", "0", "-"}
        /\ \A i \in hyphens : i \in 1..n /\ i # 1 /\ i # n /\ i + 1 \notin hyphens
    BY <1>1, <1>2 DEF Slug
  <2>2. runs \in SUBSET (0..(n + 1)) /\ {0, n + 1} \subseteq runs
    BY <1>1, <2>1
  <2>3. \A i \in 1..n : text[i] = "-" <=> i \in runs
    BY <1>1
  <2>4. \A i \in runs \ {n + 1} : i + 1 \notin runs
    <3> SUFFICES ASSUME NEW i \in runs, i # n + 1 PROVE i + 1 \notin hyphens /\ i + 1 # 0 /\ i + 1 # n + 1
      OBVIOUS
    <3>1. CASE i = 0
      BY <1>1, <2>1, <3>1
    <3>2. CASE i \in hyphens
      BY <1>1, <2>1, <3>2
    <3> QED
      BY <3>1, <3>2
  <2>5. \A i \in 1..n : i \notin runs => text[i] \in {"a", "0"}
    BY <2>1, <2>3
  <2> HIDE DEF runs
  <2> QED
    BY <1>1, <2>2, <2>3, <2>4, <2>5 DEF SlugText
<1>3. ASSUME SlugText(text) PROVE Slug(text)
  <2>1. PICK runs \in SUBSET (0..(n + 1)) :
            /\ 0 \in runs /\ n + 1 \in runs
            /\ \A i \in 1..n : text[i] = "-" <=> i \in runs
            /\ \A i \in runs : i # n + 1 => i + 1 \notin runs
            /\ \A i \in 1..n : i \notin runs => text[i] \in {"a", "0"}
    BY <1>1, <1>3 DEF SlugText
  <2>2. n > 0
    BY <1>1, <2>1
  <2>3. \A i \in 1..n : text[i] \in {"a", "0", "-"}
    BY <2>1
  <2>4. ASSUME NEW i \in hyphens PROVE i \notin {1, n} /\ i + 1 \notin hyphens
    <3>1. i \in 1..n /\ i \in runs /\ i # n + 1
      BY <1>1, <2>1
    <3>2. i + 1 \notin runs /\ i # n
      BY <1>1, <2>1, <3>1
    <3>3. i # 1
      <4>1. 0 \in runs /\ 0 # n + 1 /\ 0 + 1 = 1
        BY <1>1, <2>1
      <4>2. 0 + 1 \notin runs
        BY <2>1, <4>1
      <4> QED
        BY <3>1, <4>1, <4>2
    <3>4. i + 1 \notin hyphens
      BY <1>1, <2>1, <3>2
    <3> QED
      BY <3>2, <3>3, <3>4
  <2> QED
    BY <1>1, <2>2, <2>3, <2>4 DEF Slug
<1> QED
  BY <1>2, <1>3

(* The same for a code.                                                    *)
LEMMA CodeIsText ==
  ASSUME NEW text \in Seq(STRING)
  PROVE  LookupCode(text) <=> LookupText(text)
<1> DEFINE n == Len(text)
<1>1. n \in Nat /\ DOMAIN text = 1..n /\ (text # <<>> <=> n > 0)
  OBVIOUS
<1>2. LookupText(text) <=> n > 0 /\ text[1] = "A" /\ \A i \in 2..n : text[i] \in {"A", "0", "_"}
  <2>1. ASSUME n > 0 PROVE \E rest \in 0..n : n = rest + 1
    <3>1. n - 1 \in 0..n /\ n = (n - 1) + 1
      BY <1>1, <2>1
    <3> QED
      BY <3>1
  <2>2. ASSUME NEW rest \in 0..n, n = rest + 1 PROVE n > 0
    BY <1>1, <2>2
  <2> QED
    BY <2>1, <2>2 DEF LookupText
<1>3. n > 0 => 1..n = {1} \union 2..n
  BY <1>1
<1> QED
  BY <1>1, <1>2, <1>3 DEF LookupCode

(* The members of the response that a value has.                           *)
LEMMA SplitNames ==
  ASSUME NEW name, NEW value
  PROVE  {x[1] : x \in Split(name, value)} = (IF value = None THEN {} ELSE {name})
             \union (IF value = None \/ value.unit = None THEN {} ELSE {UnitMember[name]})
<1>1. CASE value = None
  <2>1. Split(name, value) = {}
    BY <1>1 DEF Split
  <2> QED
    BY <1>1, <2>1
<1>2. CASE value # None /\ value.unit = None
  <2>1. Split(name, value) = {<<name, value.number>>}
    BY <1>2 DEF Split
  <2>2. {x[1] : x \in Split(name, value)} = {name}
    BY <2>1
  <2> QED
    BY <1>2, <2>2
<1>3. CASE value # None /\ value.unit # None
  <2>1. Split(name, value) = {<<name, value.number>>, <<UnitMember[name], value.unit>>}
    BY <1>3 DEF Split
  <2>2. {x[1] : x \in Split(name, value)} = {name, UnitMember[name]}
    BY <2>1
  <2> QED
    BY <1>3, <2>2
<1> QED
  BY <1>1, <1>2, <1>3

(* A measurement that is published has a value, and its values have units  *)
(* beside them or none has.                                                *)
LEMMA PublishedHasUnits ==
  ASSUME NEW row, OnTheWire(row).response # {}
  PROVE  LET members == {m[1] : m \in OnTheWire(row).response}
         IN  /\ \A name \in {"raw", "canonical"} : UnitMember[name] \in members => name \in members
             /\ {"raw", "canonical"} \intersect members # {}
             /\ {"raw", "canonical"} \subseteq members => ("raw_unit" \in members <=> "canonical_unit" \in members)
<1> DEFINE m == NewMeasurement(row.raw, row.canonical, row.publication, row.conditions)
           members == {x[1] : x \in OnTheWire(row).response}
           none == row.raw = None /\ row.canonical = None
           mixed == row.raw # None /\ row.canonical # None /\ (row.raw.unit = None) # (row.canonical.unit = None)
           arms == <<<<none, [refused |-> "NoValue"]>>, <<mixed, [refused |-> "MixedDimensionality"]>>,
                     <<TRUE, [raw |-> row.raw, canonical |-> row.canonical, publication |-> row.publication,
                              conditions |-> IF row.conditions = {} THEN None ELSE row.conditions]>>>>
<1>1. m = FirstOf(arms)
  BY DEF NewMeasurement
<1>2. /\ DOMAIN arms = 1..3 /\ 3 \in Nat /\ 3 \in 1..3 /\ arms[3][1]
      /\ (arms[1][1] <=> none) /\ (arms[2][1] <=> mixed)
      /\ "refused" \in DOMAIN arms[1][2] /\ "refused" \in DOMAIN arms[2][2]
      /\ arms[3][2].raw = row.raw /\ arms[3][2].canonical = row.canonical
  <2>1. DOMAIN arms = 1..3 /\ 3 \in Nat /\ 3 \in 1..3 /\ arms[3][1]
    OBVIOUS
  <2>2. arms[1][1] <=> none
    OBVIOUS
  <2>3. arms[2][1] <=> mixed
    OBVIOUS
  <2>4. "refused" \in DOMAIN arms[1][2] /\ "refused" \in DOMAIN arms[2][2]
    OBVIOUS
  <2>5. arms[3][2].raw = row.raw /\ arms[3][2].canonical = row.canonical
    OBVIOUS
  <2> QED
    BY <2>1, <2>2, <2>3, <2>4, <2>5
<1> HIDE DEF arms
<1>3. PICK k \in 1..3 : arms[k][1] /\ (\A j \in 1..3 : j < k => ~arms[j][1]) /\ FirstOf(arms) = arms[k][2]
  BY <1>2, SomeHit
<1>4. "refused" \notin DOMAIN m
  BY DEF OnTheWire
<1>5. k = 3
  <2>1. k # 1 /\ k # 2
    BY <1>1, <1>2, <1>3, <1>4
  <2> QED
    BY <2>1
<1>6. ~none /\ ~mixed
  BY <1>2, <1>3, <1>5
<1>7. m.raw = row.raw /\ m.canonical = row.canonical
  BY <1>1, <1>2, <1>3, <1>5
<1>8. OnTheWire(row).response = MeasurementResponse(m)
  BY <1>4 DEF OnTheWire
<1> HIDE DEF m
<1>9. /\ "raw" \in members <=> row.raw # None
      /\ "raw_unit" \in members <=> row.raw # None /\ row.raw.unit # None
      /\ "canonical" \in members <=> row.canonical # None
      /\ "canonical_unit" \in members <=> row.canonical # None /\ row.canonical.unit # None
  <2> DEFINE R == Split("raw", row.raw)
             C == Split("canonical", row.canonical)
             D == IF m.conditions = None THEN {} ELSE {<<"conditions", m.conditions>>}
             P == IF m.publication = None THEN {} ELSE {<<"is_canonical", m.publication = "Published">>}
  <2>1. members = {x[1] : x \in R} \union {x[1] : x \in C} \union {x[1] : x \in D} \union {x[1] : x \in P}
    <3>1. OnTheWire(row).response = R \union C \union D \union P
      BY <1>7, <1>8 DEF MeasurementResponse
    <3> HIDE DEF R, C, D, P
    <3> QED
      BY <3>1
  <2>2. {x[1] : x \in R} = (IF row.raw = None THEN {} ELSE {"raw"})
                          \union (IF row.raw = None \/ row.raw.unit = None THEN {} ELSE {"raw_unit"})
    BY SplitNames DEF UnitMember
  <2>3. {x[1] : x \in C} = (IF row.canonical = None THEN {} ELSE {"canonical"})
                          \union (IF row.canonical = None \/ row.canonical.unit = None THEN {} ELSE {"canonical_unit"})
    BY SplitNames DEF UnitMember
  <2>4. {x[1] : x \in D} \subseteq {"conditions"}
    OBVIOUS
  <2>5. {x[1] : x \in P} \subseteq {"is_canonical"}
    OBVIOUS
  <2> HIDE DEF members, R, C, D, P
  <2> QED
    BY <2>1, <2>2, <2>3, <2>4, <2>5
<1> HIDE DEF members
<1>10. /\ \A name \in {"raw", "canonical"} : UnitMember[name] \in members => name \in members
       /\ {"raw", "canonical"} \intersect members # {}
       /\ {"raw", "canonical"} \subseteq members => ("raw_unit" \in members <=> "canonical_unit" \in members)
  BY <1>6, <1>9 DEF UnitMember
<1> QED
  BY <1>10 DEF members

-----------------------------------------------------------------------------
(* Numbers.                                                                *)

(* There is a longest prefix of the places that a condition keeps.         *)
LEMMA LongestExists ==
  ASSUME NEW K, NEW n \in Nat
  PROVE  \E m \in 0..n : (\A i \in 1..m : i \in K) /\ (m = n \/ m + 1 \notin K)
<1> DEFINE ends == {m \in 0..n : m = n \/ m + 1 \notin K}
<1>1. ends \in SUBSET Nat /\ n \in ends
  OBVIOUS
<1>2. PICK m \in ends : \A k \in ends : m <= k
  <2> HIDE DEF ends
  <2> QED
    BY <1>1, LeastNat
<1>3. ASSUME NEW i \in 1..m PROVE i \in K
  <2>1. m \in 0..n /\ i - 1 \in 0..n /\ i - 1 < m /\ i - 1 # n /\ (i - 1) + 1 = i
    BY <1>2
  <2>2. i - 1 \notin ends
    <3> HIDE DEF ends
    <3> QED
      BY <1>2, <2>1
  <2> QED
    BY <2>1, <2>2
<1> QED
  BY <1>2, <1>3

(* The dollar signs a text opens with are counted.                         *)
LEMMA DollarsCounted ==
  ASSUME NEW S, NEW text \in Seq(S)
  PROVE  Len(LongestPrefix(text, IsDollar)) \in 0..Len(text)
<1> DEFINE P(n) == /\ \A i \in 1..n : text[i] = "$"
                   /\ n = Len(text) \/ ~(text[n + 1] = "$")
           k == CHOOSE n \in 0..Len(text) : P(n)
           K == {i \in 1..Len(text) : text[i] = "$"}
<1>1. PICK m \in 0..Len(text) : (\A i \in 1..m : i \in K) /\ (m = Len(text) \/ m + 1 \notin K)
  <2>1. Len(text) \in Nat
    OBVIOUS
  <2> HIDE DEF K
  <2> QED
    BY <2>1, LongestExists
<1>2. P(m)
  BY <1>1
<1>3. k \in 0..Len(text)
  <2> HIDE DEF P
  <2> QED
    BY <1>2
<1>4. LongestPrefix(text, IsDollar) = SubSeq(text, 1, k)
  BY DEF LongestPrefix, IsDollar
<1> HIDE DEF k
<1> QED
  BY <1>3, <1>4

(* The numerals a text opens with are numerals, a sign the first at most.  *)
LEMMA NumeralsKept ==
  ASSUME NEW S, NEW text \in Seq(S)
  PROVE  LET p == LongestPrefix(text, IsNumeral)
         IN  p \in Seq(S) /\ \A i \in 1..Len(p) : IsNumeral(p, i)
<1> DEFINE P(n) == /\ \A i \in 1..n : IsNumeral(text, i)
                   /\ n = Len(text) \/ ~IsNumeral(text, n + 1)
           k == CHOOSE n \in 0..Len(text) : P(n)
           K == {i \in 1..Len(text) : IsNumeral(text, i)}
           p == LongestPrefix(text, IsNumeral)
<1>1. PICK m \in 0..Len(text) : (\A i \in 1..m : i \in K) /\ (m = Len(text) \/ m + 1 \notin K)
  <2>1. Len(text) \in Nat
    OBVIOUS
  <2> HIDE DEF K
  <2> QED
    BY <2>1, LongestExists
<1>2. P(m)
  BY <1>1
<1>3. k \in 0..Len(text) /\ P(k)
  <2> HIDE DEF P
  <2> QED
    BY <1>2
<1>4. p = SubSeq(text, 1, k)
  BY DEF LongestPrefix
<1> HIDE DEF k, p
<1>5. p \in Seq(S) /\ Len(p) = k /\ \A i \in 1..k : p[i] = text[i]
  BY <1>3, <1>4
<1>6. \A i \in 1..k : IsNumeral(p, i)
  BY <1>3, <1>5 DEF IsNumeral
<1> QED
  BY <1>5, <1>6 DEF p

(* Without its commas a text is a text.                                    *)
LEMMA CommasDropped ==
  ASSUME NEW S, NEW s \in Seq(S)
  PROVE  \E T : WithoutCommas(s) \in Seq(T)
<1> DEFINE places == {i \in DOMAIN s : s[i] # ","}
           precedes(i, j) == i < j
           order == InOrder(places, precedes)
           w == WithoutCommas(s)
           n == Cardinality(places)
<1>1. IsFiniteSet(places) /\ n \in Nat
  <2>0. Len(s) \in Nat /\ Len(s) \in Int /\ 1 \in Int /\ places \subseteq 1..Len(s)
    <3>1. Len(s) \in Nat /\ DOMAIN s = 1..Len(s)
      BY LenProperties
    <3>2. places \subseteq DOMAIN s
      OBVIOUS
    <3> HIDE DEF places
    <3> QED
      BY <3>1, <3>2
  <2>1. IsFiniteSet(1..Len(s))
    BY <2>0, FS_Interval
  <2> HIDE DEF places
  <2> QED
    BY <2>0, <2>1, FS_Subset, FS_CardinalityType
<1>2. DOMAIN order = 1..n
  BY DEF InOrder
<1>3. w = [i \in DOMAIN order |-> s[order[i]]]
  BY DEF WithoutCommas, Picked
<1> HIDE DEF order, n
<1>4. w \in [1..n -> {w[i] : i \in 1..n}]
  BY <1>2, <1>3
<1> HIDE DEF w
<1>5. w \in Seq({w[i] : i \in 1..n})
  <2> DEFINE T == {w[i] : i \in 1..n}
  <2>1. Seq(T) = UNION {[1..m -> T] : m \in Nat}
    BY SeqDef
  <2>2. w \in [1..n -> T]
    BY <1>4
  <2> HIDE DEF T
  <2>3. w \in Seq(T)
    BY <1>1, <2>1, <2>2
  <2> QED
    BY <2>3 DEF T
<1> QED
  BY <1>5 DEF w

(* So the numerals of a text are a sequence of numerals.                   *)
LEMMA NumeralsOfText ==
  ASSUME NEW text \in Seq(STRING)
  PROVE  \E T : Numerals(text) \in Seq(T) /\ \A i \in 1..Len(Numerals(text)) : IsNumeral(Numerals(text), i)
<1> DEFINE priced == Len(LongestPrefix(text, IsDollar))
           rest == SubSeq(text, priced + 1, Len(text))
<1>1. priced \in 0..Len(text)
  BY DollarsCounted
<1> HIDE DEF priced
<1>2. rest \in Seq(STRING)
  BY <1>1
<1> HIDE DEF rest
<1>3. PICK T : WithoutCommas(rest) \in Seq(T)
  BY <1>2, CommasDropped
<1>4. Numerals(text) = LongestPrefix(WithoutCommas(rest), IsNumeral)
  BY DEF Numerals, priced, rest
<1> QED
  BY <1>3, <1>4, NumeralsKept


\* A number that is printed from its digits, and what each of its places has.
Sign(n) == IF n = 0 THEN <<>> ELSE <<"-">>
Printed(n, whole, q, part) == Shape(Sign(n), whole, q = 1, part)
Glyphs == {"-", "0", "."}
Places(s, n, whole, q, part) ==
    /\ s \in Seq(Glyphs) /\ Len(s) = n + whole + q + part
    /\ \A i \in 1..Len(s) : s[i] = IF i <= n THEN "-" ELSE IF q = 1 /\ i = n + whole + 1 THEN "." ELSE "0"

(* The shape of a number has those places.                                 *)
LEMMA ShapePlaces ==
  ASSUME NEW n \in 0..1, NEW whole \in Nat, NEW part \in Nat, NEW q \in 0..1
  PROVE  Places(Printed(n, whole, q, part), n, whole, q, part)
<1> DEFINE p == IF q = 1 THEN <<".">> ELSE <<>>
           a == Sign(n) \o Digits(whole)
           b == a \o p
           s == b \o Digits(part)
<1>1. ASSUME NEW k \in Nat
      PROVE  Digits(k) \in Seq(Glyphs) /\ Len(Digits(k)) = k /\ \A i \in 1..k : Digits(k)[i] = "0"
  <2>1. Digits(k) \in [1..k -> Glyphs]
    BY DEF Digits, Glyphs
  <2>2. Digits(k) \in Seq(Glyphs)
    BY <2>1, SeqDef
  <2>3. Len(Digits(k)) = k
    BY <2>1, <2>2, LenProperties
  <2>4. \A i \in 1..k : Digits(k)[i] = "0"
    BY DEF Digits
  <2> QED
    BY <2>2, <2>3, <2>4
<1>2. Sign(n) \in Seq(Glyphs) /\ Len(Sign(n)) = n /\ \A i \in 1..n : Sign(n)[i] = "-"
  <2>1. CASE n = 0
    BY <2>1 DEF Sign
  <2>2. CASE n = 1
    BY <2>2 DEF Sign, Glyphs
  <2> QED
    BY <2>1, <2>2
<1>3. p \in Seq(Glyphs) /\ Len(p) = q /\ \A i \in 1..q : p[i] = "."
  <2>1. CASE q = 0
    BY <2>1
  <2>2. CASE q = 1
    BY <2>2 DEF Glyphs
  <2> QED
    BY <2>1, <2>2
<1> HIDE DEF p
<1>4. /\ a \in Seq(Glyphs) /\ Len(a) = n + whole
      /\ \A i \in 1..(n + whole) : a[i] = IF i <= n THEN "-" ELSE "0"
  <2>1. /\ a \in Seq(Glyphs) /\ Len(a) = n + whole
        /\ \A i \in 1..(n + whole) : a[i] = IF i <= n THEN Sign(n)[i] ELSE Digits(whole)[i - n]
    <3>1. Digits(whole) \in Seq(Glyphs) /\ Len(Digits(whole)) = whole
      BY <1>1
    <3>2. /\ a \in Seq(Glyphs) /\ Len(a) = Len(Sign(n)) + Len(Digits(whole))
          /\ \A i \in 1..(Len(Sign(n)) + Len(Digits(whole))) :
                a[i] = IF i <= Len(Sign(n)) THEN Sign(n)[i] ELSE Digits(whole)[i - Len(Sign(n))]
      BY <1>2, <3>1, ConcatProperties
    <3> QED
      BY <1>2, <3>1, <3>2
  <2> HIDE DEF a
  <2>2. \A i \in 1..(n + whole) : i <= n => i \in 1..n
    OBVIOUS
  <2>3. \A i \in 1..(n + whole) : ~(i <= n) => i - n \in 1..whole
    OBVIOUS
  <2> QED
    BY <1>1, <1>2, <2>1, <2>2, <2>3
<1> HIDE DEF a
<1>5. /\ b \in Seq(Glyphs) /\ Len(b) = n + whole + q
      /\ \A i \in 1..Len(b) : b[i] = IF i <= n THEN "-" ELSE IF q = 1 /\ i = n + whole + 1 THEN "." ELSE "0"
  <2>1. /\ b \in Seq(Glyphs) /\ Len(b) = n + whole + q
        /\ \A i \in 1..Len(b) : b[i] = IF i <= n + whole THEN a[i] ELSE p[i - (n + whole)]
    BY <1>3, <1>4, ConcatProperties
  <2> HIDE DEF b
  <2>2. ASSUME NEW i \in 1..Len(b), ~(i <= n + whole) PROVE q = 1 /\ i = n + whole + 1 /\ p[i - (n + whole)] = "."
    <3>1. q = 1 /\ i = n + whole + 1 /\ i - (n + whole) = 1
      BY <2>1, <2>2
    <3> QED
      BY <1>3, <3>1
  <2>3. ASSUME NEW i \in 1..Len(b), i <= n + whole PROVE i \in 1..(n + whole) /\ i # n + whole + 1
    BY <2>3
  <2>4. ASSUME NEW i \in 1..Len(b), i <= n PROVE i <= n + whole
    BY <2>4
  <2> QED
    BY <1>4, <2>1, <2>2, <2>3, <2>4
<1> HIDE DEF b
<1>6. /\ s \in Seq(Glyphs) /\ Len(s) = n + whole + q + part
      /\ \A i \in 1..Len(s) : s[i] = IF i <= n THEN "-" ELSE IF q = 1 /\ i = n + whole + 1 THEN "." ELSE "0"
  <2>1. /\ s \in Seq(Glyphs) /\ Len(s) = Len(b) + part
        /\ \A i \in 1..Len(s) : s[i] = IF i <= Len(b) THEN b[i] ELSE Digits(part)[i - Len(b)]
    <3>1. Digits(part) \in Seq(Glyphs) /\ Len(Digits(part)) = part
      BY <1>1
    <3>2. /\ s \in Seq(Glyphs) /\ Len(s) = Len(b) + Len(Digits(part))
          /\ \A i \in 1..(Len(b) + Len(Digits(part))) : s[i] = IF i <= Len(b) THEN b[i] ELSE Digits(part)[i - Len(b)]
      BY <1>5, <3>1, ConcatProperties
    <3> QED
      BY <3>1, <3>2
  <2> HIDE DEF s
  <2>2. ASSUME NEW i \in 1..Len(s), ~(i <= Len(b))
        PROVE  i - Len(b) \in 1..part /\ ~(i <= n) /\ ~(q = 1 /\ i = n + whole + 1)
    BY <1>5, <2>1, <2>2
  <2>3. ASSUME NEW i \in 1..Len(s), i <= Len(b) PROVE i \in 1..Len(b)
    BY <1>5, <2>3
  <2> QED
    BY <1>1, <1>5, <2>1, <2>2, <2>3
<1>7. s = Printed(n, whole, q, part)
  BY DEF Printed, Shape, p, a, b
<1> HIDE DEF s
<1> QED
  BY <1>6, <1>7 DEF Places

(* Without its sign it is its digits and its point.                        *)
LEMMA UnsignedPlaces ==
  ASSUME NEW n \in 0..1, NEW whole \in Nat, NEW part \in Nat, NEW q \in 0..1
  PROVE  Places(Unsigned(Printed(n, whole, q, part)), 0, whole, q, part)
<1> DEFINE s == Printed(n, whole, q, part)
           u == Unsigned(s)
           Goal == /\ u \in Seq(Glyphs) /\ Len(u) = whole + q + part
                   /\ \A i \in 1..Len(u) : u[i] = IF q = 1 /\ i = whole + 1 THEN "." ELSE "0"
<1>1. /\ s \in Seq(Glyphs) /\ Len(s) = n + whole + q + part
      /\ \A i \in 1..Len(s) : s[i] = IF i <= n THEN "-" ELSE IF q = 1 /\ i = n + whole + 1 THEN "." ELSE "0"
  <2>1. Places(s, n, whole, q, part)
    BY ShapePlaces
  <2> HIDE DEF s
  <2> QED
    BY <2>1 DEF Places
<1> HIDE DEF s
<1>3. ASSUME n = 0 PROVE Goal
  <2>1. u = s
    <3>1. CASE s = <<>>
      BY <3>1 DEF Unsigned
    <3>2. CASE s # <<>>
      <4>1. 1 \in 1..Len(s)
        BY <1>1, <3>2
      <4>2. s[1] # "-"
        BY <1>1, <1>3, <4>1
      <4> QED
        BY <4>2 DEF Unsigned
    <3> QED
      BY <3>1, <3>2
  <2> QED
    BY <1>1, <1>3, <2>1
<1>4. ASSUME n = 1 PROVE Goal
  <2>1. 1 \in 1..Len(s) /\ s # <<>>
    BY <1>1, <1>4
  <2>2. s[1] = "-"
    BY <1>1, <1>4, <2>1
  <2>3. u = Tail(s)
    BY <2>1, <2>2 DEF Unsigned
  <2>4. u \in Seq(Glyphs) /\ Len(u) = Len(s) - 1 /\ \A i \in 1..Len(u) : u[i] = s[i + 1]
    BY <1>1, <2>1, <2>3, HeadTailProperties
  <2> HIDE DEF u
  <2>5. Len(u) = whole + q + part
    BY <1>1, <1>4, <2>4
  <2>6. ASSUME NEW i \in 1..Len(u) PROVE u[i] = IF q = 1 /\ i = whole + 1 THEN "." ELSE "0"
    <3>1. i + 1 \in 1..Len(s) /\ ~(i + 1 <= n) /\ (i + 1 = n + whole + 1 <=> i = whole + 1)
      BY <1>1, <1>4, <2>4
    <3>2. s[i + 1] = IF q = 1 /\ i + 1 = n + whole + 1 THEN "." ELSE "0"
      BY <1>1, <3>1
    <3> QED
      BY <2>4, <3>1, <3>2
  <2> QED
    BY <2>4, <2>5, <2>6
<1>5. Goal
  BY <1>3, <1>4
<1> HIDE DEF u
<1>6. Len(u) = 0 + whole + q + part /\ 0 + whole + 1 = whole + 1 /\ \A i \in 1..Len(u) : ~(i <= 0)
  BY <1>5
<1> QED
  BY <1>5, <1>6 DEF Places, u, s


(* A sequence of as many glyphs, each what its place says, is that number. *)
LEMMA SamePlaces ==
  ASSUME NEW s, NEW t, NEW n \in Nat, NEW whole \in Nat, NEW q \in Nat, NEW part \in Nat,
         Places(s, n, whole, q, part), Places(t, n, whole, q, part)
  PROVE  s = t
<1>1. s \in Seq(Glyphs) /\ t \in Seq(Glyphs) /\ Len(s) = Len(t)
  BY DEF Places
<1>2. \A i \in 1..Len(s) : s[i] = t[i]
  BY <1>1 DEF Places
<1> QED
  BY <1>1, <1>2, SeqEqual

(* Digits alone are within their bound, or too many.                       *)
LEMMA DigitsRead ==
  ASSUME NEW S, NEW part \in Seq(S), Len(part) > 0, \A i \in 1..Len(part) : part[i] = "0", NEW max
  PROVE  DigitsWithin(part, max) \in {"ok", "TooManyDigits"}
<1> DEFINE bad == part = <<>> \/ \E i \in DOMAIN part : part[i] # "0"
           long == Len(part) > max
           arms == <<<<bad, "NotPlainDecimal">>, <<long, "TooManyDigits">>, <<TRUE, "ok">>>>
<1>1. ~bad
  OBVIOUS
<1> HIDE DEF bad, long
<1>2. DOMAIN arms = 1..3 /\ 3 \in Nat /\ 3 \in 1..3 /\ arms[3][1]
  OBVIOUS
<1>3. arms[1][1] <=> bad
  OBVIOUS
<1>4. arms[2][2] = "TooManyDigits" /\ arms[3][2] = "ok"
  OBVIOUS
<1>5. DigitsWithin(part, max) = FirstOf(arms)
  BY DEF DigitsWithin, bad, long
<1> HIDE DEF arms
<1>6. PICK k \in 1..3 : arms[k][1] /\ FirstOf(arms) = arms[k][2]
  BY <1>2, SomeHit
<1>7. k = 2 \/ k = 3
  BY <1>1, <1>3, <1>6
<1> QED
  BY <1>4, <1>5, <1>6, <1>7

(* The points of a body are where its places say.                          *)
LEMMA PointsOfPlaces ==
  ASSUME NEW u, NEW whole \in Nat, NEW q \in 0..1, NEW part \in Nat, Places(u, 0, whole, q, part)
  PROVE  /\ u \in Seq(Glyphs) /\ Len(u) = whole + q + part
         /\ q = 0 => Points(u) = {}
         /\ q = 1 => Points(u) = {whole + 1}
         /\ \A i \in 1..whole : u[i] = "0"
         /\ \A i \in 1..part : u[whole + q + i] = "0"
<1>1. u \in Seq(Glyphs) /\ Len(u) = whole + q + part
  BY DEF Places
<1>2. ASSUME NEW i \in 1..Len(u) PROVE u[i] = IF q = 1 /\ i = whole + 1 THEN "." ELSE "0"
  <2>1. ~(i <= 0) /\ 0 + whole + 1 = whole + 1
    OBVIOUS
  <2> QED
    BY <2>1 DEF Places
<1>3. DOMAIN u = 1..Len(u)
  BY <1>1
<1>4. q = 0 => Points(u) = {}
  BY <1>1, <1>2, <1>3 DEF Points
<1>5. q = 1 => Points(u) = {whole + 1}
  <2> SUFFICES ASSUME q = 1 PROVE Points(u) = {whole + 1}
    OBVIOUS
  <2>1. whole + 1 \in 1..Len(u)
    BY <1>1
  <2>2. \A i \in 1..Len(u) : u[i] = "." <=> i = whole + 1
    BY <1>2
  <2> QED
    BY <1>3, <2>1, <2>2 DEF Points
<1>6. ASSUME NEW i \in 1..whole PROVE u[i] = "0"
  <2>1. i \in 1..Len(u) /\ i # whole + 1
    BY <1>1
  <2> QED
    BY <1>2, <2>1
<1>7. ASSUME NEW i \in 1..part PROVE u[whole + q + i] = "0"
  <2>1. whole + q + i \in 1..Len(u) /\ ~(q = 1 /\ whole + q + i = whole + 1)
    BY <1>1
  <2> QED
    BY <1>2, <2>1
<1> QED
  BY <1>1, <1>4, <1>5, <1>6, <1>7

(* A number that is printed with a digit before its point, and one behind  *)
(* it if it has one, is read: DecimalString finds digits only.             *)
LEMMA PrintedIsRead ==
  ASSUME NEW n \in 0..1, NEW whole \in Nat \ {0}, NEW part \in Nat, NEW q \in 0..1, q = 1 <=> part > 0
  PROVE  DecimalString(Printed(n, whole, q, part)) \in {"ok", "TooManyDigits"}
<1> DEFINE body == Unsigned(Printed(n, whole, q, part))
           points == Points(body)
           cut == IF points = {} THEN Len(body) + 1 ELSE CHOOSE i \in points : \A j \in points : i <= j
           before == SubSeq(body, 1, cut - 1)
           after == SubSeq(body, cut + 1, Len(body))
           first == DigitsWithin(before, MaxIntegerDigits)
           second == DigitsWithin(after, MaxFractionalDigits)
           arms == <<<<first # "ok", first>>, <<points # {}, second>>, <<TRUE, "ok">>>>
<1>1. Places(body, 0, whole, q, part)
  BY UnsignedPlaces
<1> HIDE DEF body
<1>2. /\ body \in Seq(Glyphs) /\ Len(body) = whole + q + part
      /\ q = 0 => points = {}
      /\ q = 1 => points = {whole + 1}
      /\ \A i \in 1..whole : body[i] = "0"
      /\ \A i \in 1..part : body[whole + q + i] = "0"
  BY <1>1, PointsOfPlaces
<1> HIDE DEF points
<1>3. cut = whole + 1
  <2>1. CASE q = 0
    BY <1>2, <2>1
  <2>2. CASE q = 1
    <3>1. points = {whole + 1}
      BY <1>2, <2>2
    <3>2. \A j \in points : whole + 1 <= j
      BY <3>1
    <3>3. (CHOOSE i \in points : \A j \in points : i <= j) \in points
      BY <3>1, <3>2
    <3> QED
      BY <3>1, <3>3
  <2> QED
    BY <2>1, <2>2
<1> HIDE DEF cut
<1>4. first \in {"ok", "TooManyDigits"}
  <2>1. cut - 1 = whole /\ whole \in Int /\ 1 \in Int /\ 1 <= whole
    BY <1>3
  <2>2. before \in Seq({"0"}) /\ Len(before) = whole /\ \A i \in 1..whole : before[i] = "0"
    <3>1. \A i \in 1..whole : body[i] \in {"0"}
      BY <1>2
    <3>2. before \in Seq({"0"}) /\ Len(before) = whole /\ \A i \in 1..whole : before[i] = body[i]
      BY <2>1, <3>1, SubSeqProperties
    <3> QED
      BY <3>1, <3>2
  <2> HIDE DEF before
  <2>3. Len(before) > 0
    BY <2>1, <2>2
  <2> QED
    BY <2>2, <2>3, DigitsRead
<1>5. ASSUME points # {} PROVE second \in {"ok", "TooManyDigits"}
  <2>1. q = 1 /\ part > 0 /\ part \in Nat
    BY <1>2, <1>5
  <2>2. cut + 1 = whole + 2 /\ Len(body) = whole + 1 + part /\ cut + 1 \in Int /\ Len(body) \in Int
    BY <1>2, <1>3, <2>1
  <2>3. \A i \in (whole + 2)..(whole + 1 + part) : body[i] = "0"
    <3> SUFFICES ASSUME NEW i \in (whole + 2)..(whole + 1 + part) PROVE body[i] = "0"
      OBVIOUS
    <3>1. i - (whole + 1) \in 1..part /\ whole + q + (i - (whole + 1)) = i
      BY <2>1
    <3> QED
      BY <1>2, <3>1
  <2>4. after \in Seq({"0"}) /\ Len(after) = part
    <3>1. \A i \in (cut + 1)..Len(body) : body[i] \in {"0"}
      BY <2>2, <2>3
    <3>2. after \in Seq({"0"}) /\ Len(after) = IF cut + 1 <= Len(body) THEN Len(body) - (cut + 1) + 1 ELSE 0
      BY <2>2, <3>1, SubSeqProperties
    <3> QED
      BY <2>1, <2>2, <3>2
  <2> HIDE DEF after
  <2>5. Len(after) > 0 /\ \A i \in 1..Len(after) : after[i] = "0"
    BY <2>1, <2>4
  <2> QED
    BY <2>4, <2>5, DigitsRead
<1> HIDE DEF first, second
<1>6. DOMAIN arms = 1..3 /\ 3 \in Nat /\ 3 \in 1..3 /\ arms[3][1]
  OBVIOUS
<1>7. (arms[2][1] <=> points # {}) /\ arms[1][2] = first /\ arms[2][2] = second /\ arms[3][2] = "ok"
  OBVIOUS
<1>8. DecimalString(Printed(n, whole, q, part)) = FirstOf(arms)
  BY DEF DecimalString, body, points, cut, first, second
<1> HIDE DEF arms
<1>9. PICK k \in 1..3 : arms[k][1] /\ FirstOf(arms) = arms[k][2]
  BY <1>6, SomeHit
<1> QED
  BY <1>4, <1>5, <1>7, <1>8, <1>9


(* A set of places with at most one member has no two.                     *)
LEMMA OnePoint ==
  ASSUME NEW S, IsFiniteSet(S), Cardinality(S) <= 1, NEW i \in S, NEW j \in S
  PROVE  i = j
<1> SUFFICES ASSUME i # j PROVE FALSE
  OBVIOUS
<1>1. IsFiniteSet({i}) /\ Cardinality({i}) = 1
  BY FS_Singleton
<1>2. Cardinality({i} \union {j}) = 2
  <2> DEFINE T == {i}
  <2>1. IsFiniteSet(T) /\ Cardinality(T) = 1 /\ j \notin T
    BY <1>1
  <2> HIDE DEF T
  <2>2. Cardinality(T \union {j}) = 2
    BY ONLY <2>1, FS_AddElement
  <2> QED
    BY <2>2 DEF T
<1>3. {i} \union {j} \in SUBSET S
  OBVIOUS
<1>4. Cardinality({i} \union {j}) <= Cardinality(S) /\ Cardinality(S) \in Nat
  BY <1>3, FS_Subset, FS_CardinalityType
<1> QED
  BY <1>2, <1>4

(* A text of numerals with a digit and no second point is a number of some *)
(* digits before and behind its point.                                     *)
LEMMA ValidIsPrinted ==
  ASSUME NEW T, NEW s \in Seq(T), \A i \in 1..Len(s) : IsNumeral(s, i), ValidNumber(s)
  PROVE  \E n \in 0..1, whole \in 0..Len(s), q \in 0..1, part \in 0..Len(s) :
            /\ whole + part > 0 /\ (part > 0 => q = 1) /\ s = Printed(n, whole, q, part)
<1> DEFINE n == IF s # <<>> /\ s[1] = "-" THEN 1 ELSE 0
<1>1. Len(s) \in Nat /\ DOMAIN s = 1..Len(s) /\ (s # <<>> <=> Len(s) > 0)
  BY LenProperties, EmptySeq
<1>2. \A i \in 1..Len(s) : s[i] = "0" \/ s[i] = "." \/ (i = 1 /\ s[i] = "-")
  BY DEF IsNumeral
<1>3. n \in 0..1 /\ n <= Len(s) /\ \A i \in 1..Len(s) : s[i] = "-" <=> i <= n
  <2>1. CASE s # <<>> /\ s[1] = "-"
    BY <1>1, <1>2, <2>1
  <2>2. CASE ~(s # <<>> /\ s[1] = "-")
    BY <1>1, <1>2, <2>2
  <2> QED
    BY <2>1, <2>2
<1>4. PICK d \in 1..Len(s) : s[d] = "0" /\ d > n
  <2>1. PICK i \in DOMAIN Unsigned(s) : Unsigned(s)[i] = "0"
    BY DEF ValidNumber
  <2>2. CASE n = 0
    <3>1. Unsigned(s) = s
      BY <2>2 DEF Unsigned
    <3> QED
      BY <1>1, <2>1, <2>2, <3>1
  <2>3. CASE n = 1
    <3>1. Unsigned(s) = Tail(s) /\ s # <<>>
      BY <2>3 DEF Unsigned
    <3>2. Tail(s) \in Seq(T) /\ Len(Tail(s)) = Len(s) - 1 /\ \A j \in 1..(Len(s) - 1) : Tail(s)[j] = s[j + 1]
      BY <3>1, HeadTailProperties
    <3>3. DOMAIN Tail(s) = 1..(Len(s) - 1)
      BY <3>2, LenProperties
    <3>4. i \in 1..(Len(s) - 1) /\ s[i + 1] = "0" /\ i + 1 \in 1..Len(s) /\ i + 1 > n
      BY <1>1, <2>1, <2>3, <3>1, <3>2, <3>3
    <3> QED
      BY <3>4
  <2> QED
    BY <1>3, <2>2, <2>3
<1> HIDE DEF n
<1>5. \A i \in 1..Len(s) : s[i] \in Glyphs
  BY <1>2 DEF Glyphs
<1>6. s \in Seq(Glyphs)
  <2>1. s \in [1..Len(s) -> Glyphs]
    BY <1>1, <1>5, LenProperties
  <2> QED
    BY <1>1, <2>1, SeqDef
<1>7. \A i, j \in 1..Len(s) : s[i] = "." /\ s[j] = "." => i = j
  <2>1. Points(s) \in SUBSET (1..Len(s))
    BY <1>1 DEF Points
  <2>2. IsFiniteSet(1..Len(s))
    BY <1>1, FS_Interval
  <2>3. IsFiniteSet(Points(s)) /\ Cardinality(Points(s)) <= 1
    BY <2>1, <2>2, FS_Subset DEF ValidNumber
  <2>4. \A i, j \in Points(s) : i = j
    BY <2>3, OnePoint
  <2> QED
    BY <1>1, <2>4 DEF Points
<1>8. CASE \A i \in 1..Len(s) : s[i] # "."
  <2> DEFINE whole == Len(s) - n
  <2>1. whole \in 0..Len(s) /\ 0 \in 0..Len(s) /\ whole + 0 > 0 /\ Len(s) = n + whole + 0 + 0 /\ whole \in Nat
    BY <1>1, <1>3, <1>4
  <2>2. \A i \in 1..Len(s) : s[i] = IF i <= n THEN "-" ELSE IF 0 = 1 /\ i = n + whole + 1 THEN "." ELSE "0"
    BY <1>2, <1>3, <1>8
  <2> HIDE DEF whole
  <2>3. Places(s, n, whole, 0, 0)
    BY <1>6, <2>1, <2>2 DEF Places
  <2>4. Places(Printed(n, whole, 0, 0), n, whole, 0, 0)
    BY <1>3, <2>1, ShapePlaces
  <2>5. s = Printed(n, whole, 0, 0)
    BY <1>3, <2>1, <2>3, <2>4, SamePlaces
  <2> QED
    BY <1>3, <2>1, <2>5
<1>9. ASSUME NEW p \in 1..Len(s), s[p] = "."
      PROVE  \E n_ \in 0..1, whole \in 0..Len(s), q \in 0..1, part \in 0..Len(s) :
                /\ whole + part > 0 /\ (part > 0 => q = 1) /\ s = Printed(n_, whole, q, part)
  <2> DEFINE whole == p - n - 1
             part == Len(s) - p
  <2>0. p > n /\ p # d
    BY <1>3, <1>4, <1>9
  <2>1. /\ whole \in 0..Len(s) /\ part \in 0..Len(s) /\ whole + part > 0 /\ Len(s) = n + whole + 1 + part
        /\ whole \in Nat /\ part \in Nat /\ n + whole + 1 = p
    BY <1>1, <1>3, <1>4, <2>0
  <2> HIDE DEF whole, part
  <2>2. \A i \in 1..Len(s) : s[i] = IF i <= n THEN "-" ELSE IF 1 = 1 /\ i = n + whole + 1 THEN "." ELSE "0"
    BY <1>2, <1>3, <1>7, <1>9, <2>0, <2>1
  <2>3. Places(s, n, whole, 1, part)
    BY <1>6, <2>1, <2>2 DEF Places
  <2>4. Places(Printed(n, whole, 1, part), n, whole, 1, part)
    BY <1>3, <2>1, ShapePlaces
  <2>5. s = Printed(n, whole, 1, part)
    BY <1>3, <2>1, <2>3, <2>4, SamePlaces
  <2> QED
    BY <1>3, <2>1, <2>5
<1> QED
  BY <1>8, <1>9

(* What parse_numeric keeps can be cast.                                   *)
LEMMA KeptCasts ==
  ASSUME NEW text \in Seq(STRING), ParseNumeric(text) # None
  PROVE  Casts(ParseNumeric(text)) # {}
<1> DEFINE s == Numerals(text)
<1>1. ParseNumeric(text) = s /\ ValidNumber(s)
  BY DEF ParseNumeric
<1> HIDE DEF s
<1>2. PICK T : s \in Seq(T) /\ \A i \in 1..Len(s) : IsNumeral(s, i)
  BY NumeralsOfText DEF s
<1>3. PICK n \in 0..1, whole \in 0..Len(s), q \in 0..1, part \in 0..Len(s) :
            /\ whole + part > 0 /\ (part > 0 => q = 1) /\ s = Printed(n, whole, q, part)
  BY <1>1, <1>2, ValidIsPrinted
<1> DEFINE cast == <<Sign(n), whole, part>>
<1>4. cast \in {<<>>, <<"-">>} \X (0..Len(s)) \X (0..Len(s))
  BY DEF Sign
<1>5. cast[1] = Sign(n) /\ cast[2] = whole /\ cast[3] = part
  OBVIOUS
<1>6. \E point \in BOOLEAN : (part > 0 => point) /\ s = Shape(Sign(n), whole, point, part)
  BY <1>3 DEF Printed
<1> HIDE DEF cast
<1>7. cast \in Casts(s)
  BY <1>3, <1>4, <1>5, <1>6 DEF Casts
<1> QED
  BY <1>1, <1>7

(* What a cast prints is read back, and is what the document describes.    *)
LEMMA CastIsRead ==
  ASSUME NEW T, NEW s \in Seq(T), NEW cast \in Casts(s)
  PROVE  /\ DecimalString(Rendered(cast)) \in {"ok", "TooManyDigits"}
         /\ PublishedDecimal(Rendered(cast))
<1> DEFINE n == IF cast[1] = <<>> THEN 0 ELSE 1
           whole == IF cast[2] = 0 THEN 1 ELSE cast[2]
           part == cast[3]
           q == IF part > 0 THEN 1 ELSE 0
           r == Rendered(cast)
<1>1. cast[1] \in {<<>>, <<"-">>} /\ cast[2] \in Nat /\ cast[3] \in Nat
  BY DEF Casts
<1>2. n \in 0..1 /\ whole \in Nat \ {0} /\ part \in Nat /\ q \in 0..1 /\ (q = 1 <=> part > 0) /\ cast[1] = Sign(n)
  BY <1>1 DEF Sign
<1>3. r = Printed(n, whole, q, part)
  BY <1>1, <1>2 DEF Rendered, Printed, Shape
<1> HIDE DEF n, whole, part, q, r
<1>4. DecimalString(r) \in {"ok", "TooManyDigits"}
  BY <1>2, <1>3, PrintedIsRead
<1>5. Len(r) = n + whole + q + part
  <2>1. Places(r, n, whole, q, part)
    BY <1>2, <1>3, ShapePlaces
  <2> QED
    BY <2>1 DEF Places
<1>6. whole \in 1..Len(r) /\ part \in 0..Len(r)
  BY <1>2, <1>5
<1>7. r = Shape(cast[1], whole, part > 0, part)
  BY DEF r, Rendered, whole, part
<1>8. PublishedDecimal(r)
  BY <1>1, <1>6, <1>7 DEF PublishedDecimal
<1> QED
  BY <1>4, <1>8 DEF r

(* Every known condition of the database is one of the service.            *)
LEMMA ConditionsKnown ==
  /\ \A code \in StoredPowerSettings \union {None} : ConditionCode(PowerSettings, code) = code
  /\ \A code \in StoredSurfaceTypes \union {None} : ConditionCode(SurfaceTypes, code) = code
<1>1. StoredPowerSettings = PowerSettings
  BY DEF StoredPowerSettings, PowerSettings
<1>2. StoredSurfaceTypes = SurfaceTypes
  BY DEF StoredSurfaceTypes, SurfaceTypes
<1> QED
  BY <1>1, <1>2 DEF ConditionCode

(* What an import stores, the service reads back: StoredValuesReadBack,    *)
(* for a number of any length and any bounds on its digits.                *)
THEOREM ValuesReadBack == Spec => []StoredValuesReadBack
<1>1. ASSUME Decided, asked.kind = "number", told # None
      PROVE  /\ Casts(told) # {}
             /\ \A cast \in Casts(told) : /\ DecimalString(Rendered(cast)) \in {"ok", "TooManyDigits"}
                                          /\ PublishedDecimal(Rendered(cast))
  <2>1. asked.text \in Seq(STRING) /\ told = ParseNumeric(asked.text)
    BY <1>1, TextsAssumption DEF Decided, NumberDecided
  <2>2. told = Numerals(asked.text)
    BY <1>1, <2>1 DEF ParseNumeric
  <2>3. PICK T : told \in Seq(T)
    BY <2>1, <2>2, NumeralsOfText
  <2>4. Casts(told) # {}
    BY <1>1, <2>1, KeptCasts
  <2>5. \A cast \in Casts(told) : /\ DecimalString(Rendered(cast)) \in {"ok", "TooManyDigits"}
                                  /\ PublishedDecimal(Rendered(cast))
    BY <2>3, CastIsRead
  <2> QED
    BY <2>4, <2>5
<1>2. ASSUME Decided, asked.kind = "spelling"
      PROVE  told = [slug |-> SlugText(asked.text), code |-> LookupText(asked.text)]
  <2>1. asked.text \in Seq(STRING) /\ told = [slug |-> Slug(asked.text), code |-> LookupCode(asked.text)]
    BY <1>2, TextsAssumption DEF Decided, SpellingDecided
  <2>2. Slug(asked.text) = SlugText(asked.text)
    <3>1. Slug(asked.text) <=> SlugText(asked.text)
      BY <2>1, SlugIsText
    <3> QED
      BY <3>1 DEF Slug, SlugText
  <2>3. LookupCode(asked.text) = LookupText(asked.text)
    <3>1. LookupCode(asked.text) <=> LookupText(asked.text)
      BY <2>1, CodeIsText
    <3> QED
      BY <3>1 DEF LookupCode, LookupText
  <2> QED
    BY <2>1, <2>2, <2>3
<1>3. ASSUME Decided, asked.kind = "measurement"
      PROVE  /\ told = OnTheWire(asked.row) /\ told.power = asked.row.power /\ told.surface = asked.row.surface
  <2>1. asked.row \in StoredMeasurements /\ told = OnTheWire(asked.row)
    BY <1>3 DEF Decided, MeasurementDecided
  <2>2. told.power = ConditionCode(PowerSettings, asked.row.power)
        /\ told.surface = ConditionCode(SurfaceTypes, asked.row.surface)
    BY <2>1 DEF OnTheWire
  <2> QED
    BY <2>1, <2>2, StoredAssumption, ConditionsKnown
<1>4. Decided => StoredValuesReadBack
  BY <1>1, <1>2, <1>3, PublishedHasUnits DEF StoredValuesReadBack
<1> QED
  BY <1>4, SpecDecided, PTL

-----------------------------------------------------------------------------
(* Sessions of the installer.                                              *)

(* A session is the fold of its lines: the recursion has a solution, since *)
(* the least line up to which it had none would have one.                  *)
LEMMA SessionSteps ==
  ASSUME NEW r, NEW db, Len(r.installer) \in Nat
  PROVE  /\ Session(r, db)[0] = Database(db.schema, db.ledger, db.seeded)
         /\ \A n \in 1..Len(r.installer) : Session(r, db)[n] = Execute(r, Session(r, db)[n - 1], r.installer[n])
<1> DEFINE L == Len(r.installer)
           D == Database(db.schema, db.ledger, db.seeded)
           X(d, n) == Execute(r, d, r.installer[n])
           Solves(f, m) == f = [n \in 0..m |-> IF n = 0 THEN D ELSE X(f[n - 1], n)]
           bad == {m \in 0..L : ~ \E f : Solves(f, m)}
<1> HIDE DEF D, X
<1>1. bad = {}
  <2> SUFFICES ASSUME bad # {} PROVE FALSE
    OBVIOUS
  <2>1. PICK m \in bad : \A k \in bad : m <= k
    <3>1. bad \in SUBSET Nat
      OBVIOUS
    <3> HIDE DEF bad
    <3> QED
      BY <3>1, LeastNat
  <2>2. m \in 0..L /\ ~ \E f : Solves(f, m)
    BY <2>1
  <2>3. CASE m = 0
    <3> DEFINE f == [n \in 0..0 |-> D]
    <3>1. f = [n \in 0..0 |-> IF n = 0 THEN D ELSE X(f[n - 1], n)]
      OBVIOUS
    <3> QED
      BY <2>2, <2>3, <3>1
  <2>4. CASE m > 0
    <3>1. m - 1 \in 0..L /\ m - 1 \notin bad
      <4>1. m - 1 \in 0..L /\ ~(m <= m - 1)
        BY <2>2, <2>4
      <4> HIDE DEF bad
      <4> QED
        BY <2>1, <4>1
    <3>2. PICK f : f = [n \in 0..(m - 1) |-> IF n = 0 THEN D ELSE X(f[n - 1], n)]
      BY <3>1
    <3> DEFINE g == [n \in 0..m |-> IF n = m THEN X(f[m - 1], m) ELSE f[n]]
    <3>3. \A n \in 0..m : g[n] = IF n = 0 THEN D ELSE X(g[n - 1], n)
      <4> SUFFICES ASSUME NEW n \in 0..m PROVE g[n] = IF n = 0 THEN D ELSE X(g[n - 1], n)
        OBVIOUS
      <4>1. CASE n = 0
        BY <2>2, <2>4, <3>2, <4>1
      <4>2. CASE n > 0 /\ n < m
        <5>1. n \in 0..(m - 1) /\ n - 1 \in 0..m /\ n # m /\ n - 1 # m /\ n # 0
          BY <2>2, <4>2
        <5>2. g[n] = f[n] /\ g[n - 1] = f[n - 1]
          BY <5>1
        <5>3. f[n] = X(f[n - 1], n)
          BY <3>2, <5>1
        <5> QED
          BY <5>1, <5>2, <5>3
      <4>3. CASE n = m
        <5>1. m - 1 \in 0..m /\ m - 1 # m /\ m # 0
          BY <2>2, <2>4
        <5>2. g[m] = X(f[m - 1], m) /\ g[m - 1] = f[m - 1]
          BY <2>2, <5>1
        <5> QED
          BY <4>3, <5>1, <5>2
      <4> QED
        BY <2>2, <4>1, <4>2, <4>3
    <3>4. Solves(g, m)
      <4>1. g = [n \in 0..m |-> g[n]]
        OBVIOUS
      <4> HIDE DEF g
      <4> QED
        BY <3>3, <4>1
    <3> QED
      BY <2>2, <3>4
  <2> QED
    BY <2>2, <2>3, <2>4
<1>2. \E f : Solves(f, L)
  <2>1. L \in 0..L
    OBVIOUS
  <2> QED
    BY <1>1, <2>1
<1>3. Session(r, db) = CHOOSE f : Solves(f, L)
  BY DEF Session, D, X
<1>4. Solves(Session(r, db), L)
  BY <1>2, <1>3
<1>5. \A n \in 0..L : Session(r, db)[n] = IF n = 0 THEN D ELSE X(Session(r, db)[n - 1], n)
  <2> DEFINE s == Session(r, db)
  <2>1. s = [n \in 0..L |-> IF n = 0 THEN D ELSE X(s[n - 1], n)]
    BY <1>4
  <2> HIDE DEF s
  <2>2. \A n \in 0..L : s[n] = IF n = 0 THEN D ELSE X(s[n - 1], n)
    BY <2>1
  <2> QED
    BY <2>2 DEF s
<1> QED
  BY <1>5 DEF D, X

-----------------------------------------------------------------------------
(* Sets in order.                                                          *)

(* The members of a finite set, each at the place its strict total order   *)
(* gives it, are all of them, and in that order.                           *)
LEMMA Enumerates ==
  ASSUME NEW S, IsFiniteSet(S), NEW P \in [S -> SUBSET S],
         \A x \in S : x \notin P[x],
         \A x, y \in S : y \in P[x] => P[y] \subseteq P[x],
         \A x, y \in S : x # y => x \in P[y] \/ y \in P[x],
         NEW f, f = [n \in 1..Cardinality(S) |-> CHOOSE x \in S : Cardinality(P[x]) = n - 1]
  PROVE  /\ Cardinality(S) \in Nat /\ f \in [1..Cardinality(S) -> S]
         /\ \A x \in S : \E n \in 1..Cardinality(S) : f[n] = x
         /\ \A m, n \in 1..Cardinality(S) : m < n => f[m] \in P[f[n]]
<1> DEFINE N == Cardinality(S)
<1>1. /\ N \in Nat /\ \A x \in S : Cardinality(P[x]) \in Nat /\ Cardinality(P[x]) + 1 \in 1..N
      /\ \A x, y \in S : y \in P[x] => Cardinality(P[y]) < Cardinality(P[x])
      /\ \A n \in 1..N : \E x \in S : Cardinality(P[x]) = n - 1
  BY Ranked
<1>2. \A n \in 1..N : f[n] = CHOOSE x \in S : Cardinality(P[x]) = n - 1
  OBVIOUS
<1>3. \A n \in 1..N : f[n] \in S /\ Cardinality(P[f[n]]) = n - 1
  BY <1>1, <1>2
<1>4. ASSUME NEW x \in S, NEW y \in S, Cardinality(P[x]) = Cardinality(P[y]), x # y PROVE FALSE
  <2>1. Cardinality(P[x]) \in Nat /\ Cardinality(P[y]) \in Nat
    BY <1>1
  <2>2. Cardinality(P[x]) < Cardinality(P[y]) \/ Cardinality(P[y]) < Cardinality(P[x])
    BY <1>1, <1>4
  <2> QED
    BY <1>4, <2>1, <2>2
<1>5. ASSUME NEW x \in S PROVE \E n \in 1..N : f[n] = x
  <2> DEFINE n == Cardinality(P[x]) + 1
  <2>1. n \in 1..N /\ Cardinality(P[x]) = n - 1
    BY <1>1
  <2> HIDE DEF n
  <2>2. f[n] = x
    BY <1>3, <1>4, <2>1
  <2> QED
    BY <2>1, <2>2
<1>6. ASSUME NEW m \in 1..N, NEW n \in 1..N, m < n PROVE f[m] \in P[f[n]]
  <2>1. f[m] # f[n] /\ ~(Cardinality(P[f[n]]) < Cardinality(P[f[m]]))
    BY <1>1, <1>3, <1>6
  <2> QED
    BY <1>1, <1>3, <2>1
<1>7. f \in [1..N -> S]
  BY <1>3
<1> QED
  BY <1>1, <1>5, <1>6, <1>7

\* f gives the members of a set of integers, each once and from below.
Ascent(f, n, S) ==
    /\ n \in Nat /\ f \in [1..n -> S]
    /\ \A x \in S : \E i \in 1..n : f[i] = x
    /\ \A i, j \in 1..n : i < j => f[i] < f[j]

(* Integers in their order are an ascent.                                  *)
LEMMA AscentOf ==
  ASSUME NEW S \in SUBSET Int, IsFiniteSet(S),
         NEW f, f = [n \in 1..Cardinality(S) |-> CHOOSE x \in S : Cardinality({y \in S : y < x}) = n - 1]
  PROVE  Ascent(f, Cardinality(S), S)
<1> DEFINE P == [x \in S |-> {y \in S : y < x}]
<1>1. P \in [S -> SUBSET S] /\ \A x \in S : P[x] = {y \in S : y < x}
  OBVIOUS
<1> HIDE DEF P
<1>2. /\ \A x \in S : x \notin P[x]
      /\ \A x, y \in S : y \in P[x] => P[y] \subseteq P[x]
      /\ \A x, y \in S : x # y => x \in P[y] \/ y \in P[x]
  <2>1. \A x \in S : x \in Int
    OBVIOUS
  <2>2. \A x, y \in S : y \in P[x] <=> y < x
    BY <1>1
  <2>3. \A x, y \in S : y \in P[x] => P[y] \subseteq P[x]
    <3> SUFFICES ASSUME NEW x \in S, NEW y \in S, y \in P[x], NEW z \in P[y] PROVE z \in P[x]
      OBVIOUS
    <3>1. z \in S
      BY <1>1
    <3> QED
      BY <2>1, <2>2, <3>1
  <2> QED
    BY <2>1, <2>2, <2>3
<1>3. f = [n \in 1..Cardinality(S) |-> CHOOSE x \in S : Cardinality(P[x]) = n - 1]
  <2> DEFINE at(n) == CHOOSE x \in S : Cardinality({y \in S : y < x}) = n - 1
  <2>1. f = [n \in 1..Cardinality(S) |-> at(n)]
    OBVIOUS
  <2>2. \A n \in 1..Cardinality(S) : at(n) = CHOOSE x \in S : Cardinality(P[x]) = n - 1
    BY <1>1
  <2> HIDE DEF at
  <2> QED
    BY <2>1, <2>2
<1>4. /\ Cardinality(S) \in Nat /\ f \in [1..Cardinality(S) -> S]
      /\ \A x \in S : \E n \in 1..Cardinality(S) : f[n] = x
      /\ \A m, n \in 1..Cardinality(S) : m < n => f[m] \in P[f[n]]
  BY <1>1, <1>2, <1>3, Enumerates
<1>5. \A m, n \in 1..Cardinality(S) : m < n => f[m] < f[n]
  BY <1>1, <1>4
<1> QED
  BY <1>4, <1>5 DEF Ascent

(* An ascent has as many places as its set has members.                    *)
LEMMA AscentCounts ==
  ASSUME NEW S \in SUBSET Int, NEW n, NEW f, Ascent(f, n, S)
  PROVE  IsFiniteSet(S) /\ Cardinality(S) = n
<1>1. /\ n \in Nat /\ f \in [1..n -> S]
      /\ \A x \in S : \E i \in 1..n : f[i] = x
      /\ \A i, j \in 1..n : i < j => f[i] < f[j]
  BY DEF Ascent
<1>2. f \in Surjection(1..n, S)
  BY <1>1 DEF Surjection
<1>3. IsFiniteSet(1..n) /\ Cardinality(1..n) = n
  <2>1. 1 \in Int /\ n \in Int
    BY <1>1
  <2> QED
    BY <1>1, <2>1, FS_Interval
<1>4. f \in Injection(1..n, S)
  <2>1. \A i, j \in 1..n : f[i] = f[j] => i = j
    <3> SUFFICES ASSUME NEW i \in 1..n, NEW j \in 1..n, f[i] = f[j], i # j PROVE FALSE
      OBVIOUS
    <3>1. f[i] \in Int /\ f[j] \in Int
      BY <1>1
    <3> QED
      BY <1>1, <3>1
  <2> QED
    BY <1>1, <2>1 DEF Injection, IsInjective
<1> QED
  BY <1>2, <1>3, <1>4, FS_Surjection

(* There is one ascent of a set.                                           *)
LEMMA AscentUnique ==
  ASSUME NEW S \in SUBSET Int, NEW m, NEW n, NEW f, NEW g, Ascent(f, m, S), Ascent(g, n, S)
  PROVE  m = n /\ f = g
<1>1. m = n
  BY AscentCounts
<1>2. /\ m \in Nat /\ f \in [1..m -> S] /\ g \in [1..m -> S]
      /\ \A x \in S : \E i \in 1..m : f[i] = x
      /\ \A x \in S : \E i \in 1..m : g[i] = x
      /\ \A i, j \in 1..m : i < j => f[i] < f[j]
      /\ \A i, j \in 1..m : i < j => g[i] < g[j]
  BY <1>1 DEF Ascent
<1> DEFINE bad == {i \in 1..m : f[i] # g[i]}
<1>3. bad = {}
  <2> SUFFICES ASSUME bad # {} PROVE FALSE
    OBVIOUS
  <2>1. PICK i \in bad : \A k \in bad : i <= k
    <3>1. bad \in SUBSET Nat
      OBVIOUS
    <3> HIDE DEF bad
    <3> QED
      BY <3>1, LeastNat
  <2>2. i \in 1..m /\ f[i] # g[i] /\ f[i] \in Int /\ g[i] \in Int
    BY <1>2
  <2>3. \A k \in 1..m : k < i => f[k] = g[k]
    BY <2>1, <2>2
  <2> HIDE DEF bad
  <2>4. PICK j \in 1..m : g[j] = f[i]
    BY <1>2, <2>2
  <2>5. PICK k \in 1..m : f[k] = g[i]
    BY <1>2, <2>2
  <2>6. j > i
    <3>1. j # i
      BY <2>2, <2>4
    <3>2. ~(j < i)
      BY <1>2, <2>2, <2>3, <2>4
    <3> QED
      BY <2>2, <3>1, <3>2
  <2>7. k > i
    <3>1. k # i
      BY <2>2, <2>5
    <3>2. ~(k < i)
      BY <1>2, <2>2, <2>3, <2>5
    <3> QED
      BY <2>2, <3>1, <3>2
  <2>8. g[i] < f[i] /\ f[i] < g[i]
    BY <1>2, <2>2, <2>4, <2>5, <2>6, <2>7
  <2> QED
    BY <2>2, <2>8
<1>4. f = g
  <2>1. \A i \in 1..m : f[i] = g[i]
    BY <1>3
  <2> QED
    BY <1>2, <2>1
<1> QED
  BY <1>1, <1>4

(* What is picked of a sequence is what an ascent of the places finds.     *)
LEMMA PickedAlong ==
  ASSUME NEW s, NEW places \in SUBSET Int, IsFiniteSet(places)
  PROVE  \E g : /\ Ascent(g, Cardinality(places), places)
                /\ Picked(s, places) = [n \in 1..Cardinality(places) |-> s[g[n]]]
<1> DEFINE g == [n \in 1..Cardinality(places) |-> CHOOSE x \in places : Cardinality({y \in places : y < x}) = n - 1]
<1>1. Ascent(g, Cardinality(places), places)
  <2>1. g = [n \in 1..Cardinality(places) |-> CHOOSE x \in places : Cardinality({y \in places : y < x}) = n - 1]
    OBVIOUS
  <2> HIDE DEF g
  <2> QED
    BY <2>1, AscentOf
<1>2. Picked(s, places) = [n \in 1..Cardinality(places) |-> s[g[n]]]
  BY DEF Picked, InOrder
<1> HIDE DEF g
<1> QED
  BY <1>1, <1>2

-----------------------------------------------------------------------------
(* What the policy check asks of a history.                                *)

(* A history nothing is objected to passes each of the checks.             *)
LEMMA AcceptedPasses ==
  ASSUME NEW r, CheckHistory(r) = {}
  PROVE  LET M == ReadMigrations(r.files)
         IN  /\ CheckNamesAndVersions(M) = {} /\ CheckTransactions(M) = {}
             /\ CheckIncludes(M, r.installer) = {}
             /\ RecordedVersions(r.installer) = ShippedVersions(M) /\ r.declared = ShippedVersions(M)
<1> DEFINE M == ReadMigrations(r.files)
<1> HIDE DEF M
<1>1. CheckHistory(r) =
        IF r.lock.schema # LockSchemaVersion THEN {<<"unsupported", r.lock.schema>>}
        ELSE CheckNamesAndVersions(M) \union CheckLock(M, r.lock)
             \union CheckTransactions(M) \union CheckInstaller(M, r.installer)
             \union CheckValidations(M, r.companions)
             \union CheckHistoryLedger(M, r.declared) \union CheckSquawkExclusions(M, r.excluded)
  BY DEF CheckHistory, M
<1>2. r.lock.schema = LockSchemaVersion
  BY <1>1
<1>3. /\ CheckNamesAndVersions(M) = {} /\ CheckTransactions(M) = {} /\ CheckInstaller(M, r.installer) = {}
      /\ CheckHistoryLedger(M, r.declared) = {}
  BY <1>1, <1>2
<1>4. CheckIncludes(M, r.installer) = {} /\ RecordedVersions(r.installer) = ShippedVersions(M)
  BY <1>3 DEF CheckInstaller
<1>5. r.declared = ShippedVersions(M)
  BY <1>3 DEF CheckHistoryLedger
<1> QED
  BY <1>3, <1>4, <1>5 DEF M

\* The migrations of files, in an order in which their versions increase.
Shipment(files, M, p) ==
    /\ p \in Nat /\ M \in [1..p -> files]
    /\ \A m \in files : \E i \in 1..p : M[i] = m
    /\ \A i \in 1..p : M[i].version # None /\ VersionOf(M[i]) \in Nat
    /\ \A i, j \in 1..p : i < j => VersionOf(M[i]) < VersionOf(M[j])

(* The migrations that are accepted are all files, and their versions      *)
(* increase: two migrations of one version are objected to.                *)
LEMMA VersionsIncrease ==
  ASSUME NEW r \in Repositories, CheckHistory(r) = {}
  PROVE  \E p : Shipment(r.files, ReadMigrations(r.files), p)
<1> DEFINE F == r.files
           M == ReadMigrations(F)
           p == Cardinality(F)
           before(m, n) == \/ VersionOf(m) < VersionOf(n)
                           \/ VersionOf(m) = VersionOf(n) /\ m.description < n.description
           P == [x \in F |-> {y \in F : before(y, x)}]
           at(n) == CHOOSE x \in F : Cardinality({y \in F : before(y, x)}) = n - 1
<1>1. /\ IsFiniteSet(F) /\ \A m \in F : m.version \in Nat \union {None} /\ m.description \in Int
      /\ \A m, n \in F : VersionOf(m) = VersionOf(n) /\ m.description = n.description => m = n
  BY RepositoriesAssumption
<1>2. M = [n \in 1..p |-> at(n)]
  BY DEF ReadMigrations, InOrder
<1>3. P \in [F -> SUBSET F] /\ \A x \in F : P[x] = {y \in F : before(y, x)}
  OBVIOUS
<1>4. \A m \in F : VersionOf(m) \in Nat
  BY <1>1 DEF VersionOf
<1> HIDE DEF F, P
<1>5. /\ \A x \in F : x \notin P[x]
      /\ \A x, y \in F : y \in P[x] => P[y] \subseteq P[x]
      /\ \A x, y \in F : x # y => x \in P[y] \/ y \in P[x]
  <2>1. \A x, y \in F : y \in P[x] <=> before(y, x)
    BY <1>3
  <2>2. \A x \in F : x \notin P[x]
    BY <1>1, <1>4, <2>1
  <2>3. \A x, y \in F : y \in P[x] => P[y] \subseteq P[x]
    <3> SUFFICES ASSUME NEW x \in F, NEW y \in F, y \in P[x], NEW z \in P[y] PROVE z \in P[x]
      OBVIOUS
    <3>1. z \in F
      BY <1>3
    <3> QED
      BY <1>1, <1>4, <2>1, <3>1
  <2>4. \A x, y \in F : x # y => x \in P[y] \/ y \in P[x]
    BY <1>1, <1>4, <2>1
  <2> QED
    BY <2>2, <2>3, <2>4
<1>6. \A n \in 1..p : at(n) = CHOOSE x \in F : Cardinality(P[x]) = n - 1
  BY <1>3
<1>7. M = [n \in 1..Cardinality(F) |-> CHOOSE x \in F : Cardinality(P[x]) = n - 1]
  <2> HIDE DEF at, M
  <2> QED
    BY <1>2, <1>6
<1> HIDE DEF M, before
<1>8. /\ p \in Nat /\ M \in [1..p -> F]
      /\ \A x \in F : \E n \in 1..p : M[n] = x
      /\ \A m, n \in 1..p : m < n => M[m] \in P[M[n]]
  <2>1. IsFiniteSet(F) /\ P \in [F -> SUBSET F]
    BY <1>1, <1>3
  <2> QED
    BY ONLY <1>5, <1>7, <2>1, Enumerates, SMTT(60)
<1>9. CheckNamesAndVersions(M) = {}
  BY AcceptedPasses DEF M, F
<1> HIDE DEF p
<1>10. DOMAIN M = 1..p /\ \A i \in 1..p : M[i] \in F
  BY <1>8
<1>11. \A i \in 1..p : M[i].version # None /\ M[i].lowercase
  <2> DEFINE named == {i \in DOMAIN M : M[i].version # None /\ M[i].lowercase}
  <2>1. {<<"name", i>> : i \in DOMAIN M \ named} = {}
    BY <1>9 DEF CheckNamesAndVersions
  <2>2. DOMAIN M \ named = {}
    <3> HIDE DEF named
    <3> QED
      BY <2>1
  <2> QED
    BY <1>10, <2>2
<1>12. \A i, j \in 1..p : i < j => VersionOf(M[i]) # VersionOf(M[j])
  <2> DEFINE named == {i \in DOMAIN M : M[i].version # None /\ M[i].lowercase}
             again == {k \in named : \E i \in named : i < k /\ VersionOf(M[i]) = VersionOf(M[k])}
  <2>1. {<<"duplicated", j>> : j \in again} = {}
    BY <1>9 DEF CheckNamesAndVersions
  <2>2. again = {}
    <3> HIDE DEF again
    <3> QED
      BY <2>1
  <2>3. named = 1..p
    BY <1>10, <1>11
  <2> HIDE DEF named
  <2> QED
    BY <2>2, <2>3
<1>13. ASSUME NEW i \in 1..p, NEW j \in 1..p, i < j PROVE VersionOf(M[i]) < VersionOf(M[j])
  <2>1. before(M[i], M[j])
    BY <1>3, <1>8, <1>10, <1>13
  <2> QED
    BY <1>12, <1>13, <2>1 DEF before
<1>14. \A i \in 1..p : VersionOf(M[i]) \in Nat
  BY <1>4, <1>10
<1>15. Shipment(F, M, p)
  BY <1>8, <1>11, <1>13, <1>14 DEF Shipment
<1> QED
  BY <1>15 DEF F, M

(* Two migrations have two names.                                          *)
LEMMA NamesDiffer ==
  ASSUME NEW F, NEW M, NEW p, Shipment(F, M, p), NEW i \in 1..p, NEW j \in 1..p, i # j
  PROVE  VersionOf(M[i]) # VersionOf(M[j]) /\ Name(M[i]) # Name(M[j])
<1>1. /\ p \in Nat /\ \A a \in 1..p : M[a].version # None /\ VersionOf(M[a]) \in Nat
      /\ \A a, b \in 1..p : a < b => VersionOf(M[a]) < VersionOf(M[b])
  BY DEF Shipment
<1>2. VersionOf(M[i]) # VersionOf(M[j])
  BY <1>1
<1>3. M[i].version # M[j].version
  BY <1>1, <1>2 DEF VersionOf
<1>4. Name(M[i]) # Name(M[j])
  BY <1>3 DEF Name
<1> QED
  BY <1>2, <1>4

-----------------------------------------------------------------------------
(* The installer of an accepted history.                                   *)

\* The line that includes each migration, before that of the next.
Inclusion(installer, M, p, ir) ==
    /\ ir \in [1..p -> 1..Len(installer)]
    /\ \A i \in 1..p : Positions(installer, Name(M[i])) = {ir[i]}
    /\ \A i, j \in 1..p : i < j => ir[i] < ir[j]
    /\ \A l \in 1..Len(installer) : installer[l].kind = "ir" /\ ~installer[l].comment => \E i \in 1..p : l = ir[i]

(* Each migration is included once and in order, and nothing else is: the  *)
(* check compares neighbours only, which is enough.                        *)
LEMMA IncludedInOrder ==
  ASSUME NEW installer, NEW M, NEW p \in Nat, DOMAIN M = 1..p, CheckIncludes(M, installer) = {},
         Len(installer) \in Nat, DOMAIN installer = 1..Len(installer)
  PROVE  \E ir : Inclusion(installer, M, p, ir)
<1> DEFINE L == Len(installer)
           at(i) == Positions(installer, Name(M[i]))
           once == {i \in DOMAIN M : Cardinality(at(i)) = 1}
           included == Directives(installer, "ir")
           misplaced == {k \in once : \E i \in once :
                            /\ i < k /\ ~\E between \in once : i < between /\ between < k
                            /\ \E a \in at(i), q \in at(k) : q <= a}
<1>1. /\ {<<"included", i>> : i \in DOMAIN M \ once} = {}
      /\ {<<"order", j>> : j \in misplaced} = {}
      /\ {<<"unknown", n>> : n \in {included[i].of : i \in DOMAIN included} \ Names(M)} = {}
  BY DEF CheckIncludes
<1>2. once = 1..p
  <2>1. DOMAIN M \ once = {}
    <3> HIDE DEF once
    <3> QED
      BY <1>1
  <2> QED
    BY <2>1
<1>3. misplaced = {}
  <2> HIDE DEF misplaced
  <2> QED
    BY <1>1
<1>4. {included[i].of : i \in DOMAIN included} \ Names(M) = {}
  <2> DEFINE unknown == {included[i].of : i \in DOMAIN included} \ Names(M)
  <2>1. {<<"unknown", n>> : n \in unknown} = {}
    BY <1>1
  <2> HIDE DEF unknown
  <2>2. unknown = {}
    BY <2>1
  <2> QED
    BY <2>2 DEF unknown
<1>5. \A i \in 1..p : at(i) \subseteq 1..L /\ IsFiniteSet(at(i)) /\ Cardinality(at(i)) = 1
  <2> SUFFICES ASSUME NEW i \in 1..p PROVE at(i) \subseteq 1..L /\ IsFiniteSet(at(i)) /\ Cardinality(at(i)) = 1
    OBVIOUS
  <2>1. at(i) \in SUBSET (1..L)
    BY DEF Positions
  <2>2. IsFiniteSet(1..L)
    <3>1. 1 \in Int /\ L \in Int
      OBVIOUS
    <3> QED
      BY <3>1, FS_Interval
  <2>3. IsFiniteSet(at(i))
    BY <2>1, <2>2, FS_Subset
  <2>4. Cardinality(at(i)) = 1
    BY <1>2
  <2> QED
    BY <2>1, <2>3, <2>4
<1> DEFINE ir == [i \in 1..p |-> CHOOSE l \in 1..L : at(i) = {l}]
<1> HIDE DEF at
<1>6. \A i \in 1..p : \E l \in 1..L : at(i) = {l}
  <2> SUFFICES ASSUME NEW i \in 1..p PROVE \E l \in 1..L : at(i) = {l}
    OBVIOUS
  <2>1. IsFiniteSet(at(i)) /\ Cardinality(at(i)) = 1
    BY <1>5
  <2>2. PICK l : at(i) = {l}
    BY <2>1, FS_Singleton
  <2> QED
    BY <1>5, <2>2
<1>7. ir \in [1..p -> 1..L] /\ \A i \in 1..p : at(i) = {ir[i]}
  BY <1>6
<1> HIDE DEF ir
<1>8. \A i \in 1..p : i + 1 \in 1..p => ir[i] < ir[i + 1]
  <2> SUFFICES ASSUME NEW i \in 1..p, i + 1 \in 1..p, ~(ir[i] < ir[i + 1]) PROVE FALSE
    OBVIOUS
  <2>1. ir[i + 1] <= ir[i]
    BY <1>7
  <2>2. i \in once /\ i + 1 \in once /\ i < i + 1 /\ ~\E between \in once : i < between /\ between < i + 1
    BY <1>2
  <2>3. \E a \in at(i), q \in at(i + 1) : q <= a
    BY <1>7, <2>1
  <2> HIDE DEF once
  <2>4. i + 1 \in misplaced
    BY <2>2, <2>3
  <2> QED
    BY <1>3, <2>4
<1>9. ASSUME NEW i \in 1..p, NEW j \in 1..p, i < j, ~(ir[i] < ir[j]) PROVE FALSE
  <2> DEFINE bad == {k \in i..p : i < k /\ ~(ir[i] < ir[k])}
  <2>1. PICK k \in bad : \A m \in bad : k <= m
    <3>1. bad \in SUBSET Nat /\ j \in bad
      BY <1>9
    <3> HIDE DEF bad
    <3> QED
      BY <3>1, LeastNat
  <2>2. k \in 1..p /\ i < k /\ ~(ir[i] < ir[k])
    BY <2>1
  <2>3. k - 1 \in 1..p /\ i <= k - 1 /\ k - 1 \notin bad /\ k - 1 + 1 = k
    BY <2>1, <2>2
  <2>4. k - 1 = i \/ ir[i] < ir[k - 1]
    BY <2>2, <2>3
  <2>5. ir[k - 1] < ir[k]
    BY <1>8, <2>2, <2>3
  <2>6. ir[i] \in Int /\ ir[k - 1] \in Int /\ ir[k] \in Int
    BY <1>7, <2>2, <2>3
  <2> HIDE DEF bad
  <2> QED
    BY <2>2, <2>4, <2>5, <2>6
<1>10. ASSUME NEW l \in 1..L, installer[l].kind = "ir", ~installer[l].comment PROVE \E i \in 1..p : l = ir[i]
  <2> DEFINE lines == {i \in DOMAIN installer : installer[i].kind = "ir" /\ ~installer[i].comment}
  <2>1. lines \in SUBSET (1..L) /\ l \in lines
    BY <1>10
  <2>2. included = Picked(installer, lines)
    BY DEF Directives
  <2> HIDE DEF lines, included
  <2>3. IsFiniteSet(lines)
    <3>1. 1 \in Int /\ L \in Int
      OBVIOUS
    <3>2. IsFiniteSet(1..L)
      BY <3>1, FS_Interval
    <3> QED
      BY <2>1, <3>2, FS_Subset
  <2>4. lines \in SUBSET Int
    BY <2>1
  <2>5. PICK g : /\ Ascent(g, Cardinality(lines), lines)
                 /\ Picked(installer, lines) = [n \in 1..Cardinality(lines) |-> installer[g[n]]]
    BY ONLY <2>3, <2>4, PickedAlong
  <2>6. PICK n \in 1..Cardinality(lines) : g[n] = l
    BY <2>1, <2>5 DEF Ascent
  <2>7. n \in DOMAIN included /\ included[n].of = installer[l].of
    BY <2>2, <2>5, <2>6
  <2>8. installer[l].of \in Names(M)
    BY <1>4, <2>7
  <2>9. PICK i \in 1..p : installer[l].of = Name(M[i])
    BY <2>8 DEF Names
  <2>10. l \in at(i)
    BY <1>10, <2>9 DEF at, Positions
  <2> QED
    BY <1>7, <2>10
<1> QED
  BY <1>7, <1>9, <1>10 DEF Inclusion, at


(* The lines of a block that are no comments are its four, and each has    *)
(* its kind.                                                               *)
LEMMA LinesOfBlock ==
  ASSUME NEW s, NEW guard \in Nat, NEW ir \in Nat, NEW insert \in Nat, NEW end \in Nat, Block(s, guard, ir, insert, end)
  PROVE  /\ ~s[guard].comment /\ ~s[ir].comment /\ ~s[insert].comment /\ ~s[end].comment
         /\ \A l \in guard..end : ~s[l].comment =>
                /\ s[l].kind = "if" => l = guard
                /\ s[l].kind = "ir" => l = ir
                /\ s[l].kind = "insert" => l = insert
                /\ s[l].kind = "endif" => l = end
         /\ \A l \in Nat : ir < l /\ l < insert => s[l].comment
<1>1. /\ guard < ir /\ ir < insert /\ insert < end
      /\ s[guard].kind = "if" /\ s[ir].kind = "ir" /\ s[insert].kind = "insert" /\ s[end].kind = "endif"
      /\ \A l \in guard..end : s[l].comment <=> l \notin {guard, ir, insert, end}
  BY DEF Block
<1>2. guard \in guard..end /\ ir \in guard..end /\ insert \in guard..end /\ end \in guard..end
  BY <1>1
<1>3. ~s[guard].comment /\ ~s[ir].comment /\ ~s[insert].comment /\ ~s[end].comment
  BY <1>1, <1>2
<1>4. ASSUME NEW l \in guard..end, ~s[l].comment
      PROVE  /\ s[l].kind = "if" => l = guard
             /\ s[l].kind = "ir" => l = ir
             /\ s[l].kind = "insert" => l = insert
             /\ s[l].kind = "endif" => l = end
  <2>1. l \in {guard, ir, insert, end}
    BY <1>1, <1>4
  <2> QED
    BY <1>1, <2>1
<1>5. ASSUME NEW l \in Nat, ir < l, l < insert PROVE s[l].comment
  <2>1. l \in guard..end /\ l \notin {guard, ir, insert, end}
    BY <1>1, <1>5
  <2> QED
    BY <1>1, <2>1
<1> QED
  BY <1>3, <1>4, <1>5

(* Two blocks that include on one line are one block.                      *)
LEMMA OneBlock ==
  ASSUME NEW s, NEW ir \in Nat, NEW g1 \in Nat, NEW n1 \in Nat, NEW e1 \in Nat, Block(s, g1, ir, n1, e1),
         NEW g2 \in Nat, NEW n2 \in Nat, NEW e2 \in Nat, Block(s, g2, ir, n2, e2)
  PROVE  g1 = g2 /\ n1 = n2 /\ e1 = e2
<1>1. /\ g1 < ir /\ ir < n1 /\ n1 < e1 /\ s[g1].kind = "if" /\ s[n1].kind = "insert" /\ s[e1].kind = "endif"
      /\ g2 < ir /\ ir < n2 /\ n2 < e2 /\ s[g2].kind = "if" /\ s[n2].kind = "insert" /\ s[e2].kind = "endif"
  BY DEF Block
<1>2. ~s[g1].comment /\ ~s[n1].comment /\ ~s[e1].comment /\ ~s[g2].comment /\ ~s[n2].comment /\ ~s[e2].comment
  BY LinesOfBlock
<1>3. \A l \in g1..e1 : ~s[l].comment =>
        (s[l].kind = "if" => l = g1) /\ (s[l].kind = "insert" => l = n1) /\ (s[l].kind = "endif" => l = e1)
  BY LinesOfBlock
<1>4. \A l \in g2..e2 : ~s[l].comment =>
        (s[l].kind = "if" => l = g2) /\ (s[l].kind = "insert" => l = n2) /\ (s[l].kind = "endif" => l = e2)
  <2>1. /\ \A l \in g2..e2 : ~s[l].comment =>
                /\ s[l].kind = "if" => l = g2
                /\ s[l].kind = "ir" => l = ir
                /\ s[l].kind = "insert" => l = n2
                /\ s[l].kind = "endif" => l = e2
    BY LinesOfBlock
  <2> QED
    BY <2>1
<1>5. g1 = g2
  <2>1. g1 \in g2..e2 \/ g2 \in g1..e1
    BY <1>1
  <2> QED
    BY <1>1, <1>2, <1>3, <1>4, <2>1
<1>6. e1 = e2
  <2>1. e1 \in g2..e2 \/ e2 \in g1..e1
    BY <1>1
  <2> QED
    BY <1>1, <1>2, <1>3, <1>4, <2>1
<1>7. n1 = n2
  <2>1. n1 \in g2..e2
    BY <1>1, <1>6
  <2> QED
    BY <1>1, <1>2, <1>4, <2>1
<1> QED
  BY <1>5, <1>6, <1>7

(* Of two blocks the one that includes first ends before the other begins. *)
LEMMA BlocksApart ==
  ASSUME NEW s, NEW g1 \in Nat, NEW i1 \in Nat, NEW n1 \in Nat, NEW e1 \in Nat, Block(s, g1, i1, n1, e1),
         NEW g2 \in Nat, NEW i2 \in Nat, NEW n2 \in Nat, NEW e2 \in Nat, Block(s, g2, i2, n2, e2), i1 < i2
  PROVE  e1 < g2
<1>1. /\ g1 < i1 /\ i1 < n1 /\ n1 < e1 /\ s[g1].kind = "if" /\ s[i1].kind = "ir"
      /\ g2 < i2 /\ i2 < n2 /\ n2 < e2 /\ s[g2].kind = "if" /\ s[i2].kind = "ir"
  BY DEF Block
<1>2. ~s[i1].comment /\ ~s[g2].comment
  BY LinesOfBlock
<1>3. \A l \in g1..e1 : ~s[l].comment => (s[l].kind = "if" => l = g1)
  BY LinesOfBlock
<1>4. \A l \in g2..e2 : ~s[l].comment => (s[l].kind = "ir" => l = i2)
  BY LinesOfBlock
<1>5. i1 < g2
  <2> SUFFICES ASSUME ~(i1 < g2) PROVE FALSE
    OBVIOUS
  <2>1. i1 \in g2..e2
    BY <1>1
  <2> QED
    BY <1>1, <1>2, <1>4, <2>1
<1> QED
  <2> SUFFICES ASSUME ~(e1 < g2) PROVE FALSE
    OBVIOUS
  <2>1. g2 \in g1..e1
    BY <1>1, <1>5
  <2> QED
    BY <1>1, <1>2, <1>3, <1>5, <2>1

\* The lines of the block of each migration.
Layout(s, M, p, at) ==
    /\ at \in [1..p -> [guard : 1..Len(s), ir : 1..Len(s), insert : 1..Len(s), end : 1..Len(s)]]
    /\ \A i \in 1..p : Block(s, at[i].guard, at[i].ir, at[i].insert, at[i].end)
    /\ \A i \in 1..p : s[at[i].ir].of = Name(M[i]) /\ s[at[i].insert].of = VersionOf(M[i])
    /\ \A i, j \in 1..p : i < j => at[i].end < at[j].guard
    /\ \A l \in 1..Len(s) : s[l].comment \/ s[l].kind = "seed" \/
            \E i \in 1..p : l \in {at[i].guard, at[i].ir, at[i].insert, at[i].end}


(* The installer of an accepted history has the block of each migration,   *)
(* one after the other: the versions that are recorded are those shipped,  *)
(* so that a block records the version of the migration it includes.       *)
LEMMA LaidOut ==
  ASSUME NEW r \in Repositories, CheckHistory(r) = {}, Blocks(r.installer), NEW p, Shipment(r.files, ReadMigrations(r.files), p)
  PROVE  \E at : Layout(r.installer, ReadMigrations(r.files), p, at)
<1> DEFINE M == ReadMigrations(r.files)
           s == r.installer
           L == Len(s)
           T == [guard : 1..L, ir : 1..L, insert : 1..L, end : 1..L]
<1>1. /\ CheckNamesAndVersions(M) = {} /\ CheckIncludes(M, s) = {} /\ RecordedVersions(s) = ShippedVersions(M)
      /\ r.declared = ShippedVersions(M)
  BY AcceptedPasses
<1>2. p \in Nat /\ DOMAIN M = 1..p
  BY DEF Shipment
<1>3. L \in Nat /\ DOMAIN s = 1..L /\ Blocks(s)
  BY <1>1, RepositoriesAssumption
<1> HIDE DEF M, s
<1>4. PICK ir : Inclusion(s, M, p, ir)
  BY <1>1, <1>2, <1>3, IncludedInOrder
<1>5. /\ ir \in [1..p -> 1..L]
      /\ \A i \in 1..p : Positions(s, Name(M[i])) = {ir[i]}
      /\ \A i, j \in 1..p : i < j => ir[i] < ir[j]
      /\ \A l \in 1..L : s[l].kind = "ir" /\ ~s[l].comment => \E i \in 1..p : l = ir[i]
  BY <1>4 DEF Inclusion
<1>6. \A i \in 1..p : s[ir[i]].kind = "ir" /\ ~s[ir[i]].comment /\ s[ir[i]].of = Name(M[i])
  <2> SUFFICES ASSUME NEW i \in 1..p PROVE s[ir[i]].kind = "ir" /\ ~s[ir[i]].comment /\ s[ir[i]].of = Name(M[i])
    OBVIOUS
  <2>1. ir[i] \in Positions(s, Name(M[i]))
    BY <1>5
  <2> QED
    BY <2>1 DEF Positions
<1>7. \A l \in 1..L : ~s[l].comment /\ s[l].kind # "seed" =>
        \E guard, i, insert, end \in 1..L : l \in {guard, i, insert, end} /\ Block(s, guard, i, insert, end)
  BY <1>3 DEF Blocks
<1>8. \A i \in 1..p : \E b \in T : b.ir = ir[i] /\ Block(s, b.guard, b.ir, b.insert, b.end)
  <2> SUFFICES ASSUME NEW i \in 1..p PROVE \E b \in T : b.ir = ir[i] /\ Block(s, b.guard, b.ir, b.insert, b.end)
    OBVIOUS
  <2>1. PICK guard \in 1..L, k \in 1..L, insert \in 1..L, end \in 1..L :
            ir[i] \in {guard, k, insert, end} /\ Block(s, guard, k, insert, end)
    BY <1>5, <1>6, <1>7
  <2>2. ir[i] = k
    BY <1>6, <2>1 DEF Block
  <2> DEFINE b == [guard |-> guard, ir |-> k, insert |-> insert, end |-> end]
  <2>3. b \in T /\ b.ir = ir[i] /\ b.guard = guard /\ b.ir = k /\ b.insert = insert /\ b.end = end
    BY <2>2
  <2> HIDE DEF b
  <2>4. Block(s, b.guard, b.ir, b.insert, b.end)
    BY <2>1, <2>3
  <2> QED
    BY <2>3, <2>4
<1> DEFINE at == [i \in 1..p |-> CHOOSE b \in T : b.ir = ir[i] /\ Block(s, b.guard, b.ir, b.insert, b.end)]
<1>9. at \in [1..p -> T] /\ \A i \in 1..p : at[i].ir = ir[i] /\ Block(s, at[i].guard, at[i].ir, at[i].insert, at[i].end)
  BY <1>8
<1> HIDE DEF at
<1>10. \A i \in 1..p : /\ at[i].guard \in 1..L /\ at[i].ir \in 1..L /\ at[i].insert \in 1..L /\ at[i].end \in 1..L
                       /\ at[i].guard \in Nat /\ at[i].ir \in Nat /\ at[i].insert \in Nat /\ at[i].end \in Nat
  BY <1>9
<1>11. \A i, j \in 1..p : i < j => at[i].end < at[j].guard
  <2> SUFFICES ASSUME NEW i \in 1..p, NEW j \in 1..p, i < j PROVE at[i].end < at[j].guard
    OBVIOUS
  <2>1. at[i].ir < at[j].ir
    BY <1>5, <1>9
  <2>2. Block(s, at[i].guard, at[i].ir, at[i].insert, at[i].end) /\ Block(s, at[j].guard, at[j].ir, at[j].insert, at[j].end)
    BY <1>9
  <2>3. /\ at[i].guard \in Nat /\ at[i].ir \in Nat /\ at[i].insert \in Nat /\ at[i].end \in Nat
        /\ at[j].guard \in Nat /\ at[j].ir \in Nat /\ at[j].insert \in Nat /\ at[j].end \in Nat
    BY <1>10
  <2> QED
    BY <2>1, <2>2, <2>3, BlocksApart
<1>12. ASSUME NEW l \in 1..L, ~s[l].comment, s[l].kind # "seed"
       PROVE  \E i \in 1..p : l \in {at[i].guard, at[i].ir, at[i].insert, at[i].end}
  <2>1. PICK guard \in 1..L, k \in 1..L, insert \in 1..L, end \in 1..L :
            l \in {guard, k, insert, end} /\ Block(s, guard, k, insert, end)
    BY <1>7, <1>12
  <2>2. guard \in Nat /\ k \in Nat /\ insert \in Nat /\ end \in Nat
    OBVIOUS
  <2>3. s[k].kind = "ir" /\ ~s[k].comment
    BY <2>1, <2>2, LinesOfBlock DEF Block
  <2>4. PICK i \in 1..p : k = ir[i]
    BY <1>5, <2>3
  <2>5. Block(s, at[i].guard, k, at[i].insert, at[i].end) /\ at[i].ir = k
    BY <1>9, <2>4
  <2>6. guard = at[i].guard /\ insert = at[i].insert /\ end = at[i].end
    BY <1>10, <2>1, <2>2, <2>5, OneBlock
  <2> QED
    BY <2>1, <2>5, <2>6
<1> DEFINE lines == {l \in DOMAIN s : s[l].kind = "insert" /\ ~s[l].comment}
           records == [i \in 1..p |-> at[i].insert]
<1>13. Ascent(records, p, lines)
  <2>1. \A i \in 1..p : records[i] = at[i].insert
    OBVIOUS
  <2>2. \A i \in 1..p : s[at[i].insert].kind = "insert" /\ ~s[at[i].insert].comment
    <3> SUFFICES ASSUME NEW i \in 1..p PROVE s[at[i].insert].kind = "insert" /\ ~s[at[i].insert].comment
      OBVIOUS
    <3>1. Block(s, at[i].guard, at[i].ir, at[i].insert, at[i].end)
      BY <1>9
    <3>2. s[at[i].insert].kind = "insert"
      BY <3>1 DEF Block
    <3>3. ~s[at[i].insert].comment
      <4> DEFINE g == at[i].guard
                 k == at[i].ir
                 n == at[i].insert
                 e == at[i].end
      <4>1. g \in Nat /\ k \in Nat /\ n \in Nat /\ e \in Nat
        BY <1>10
      <4>2. Block(s, g, k, n, e)
        BY <3>1
      <4> HIDE DEF g, k, n, e
      <4>3. ~s[n].comment
        BY <4>1, <4>2, LinesOfBlock
      <4> QED
        BY <4>3 DEF n
    <3> QED
      BY <3>2, <3>3
  <2>3. records \in [1..p -> lines]
    BY <1>3, <1>10, <2>2
  <2>4. \A l \in lines : \E i \in 1..p : records[i] = l
    <3> SUFFICES ASSUME NEW l \in lines PROVE \E i \in 1..p : records[i] = l
      OBVIOUS
    <3>1. l \in 1..L /\ ~s[l].comment /\ s[l].kind = "insert"
      BY <1>3
    <3>2. PICK i \in 1..p : l \in {at[i].guard, at[i].ir, at[i].insert, at[i].end}
      BY <1>12, <3>1
    <3>3. Block(s, at[i].guard, at[i].ir, at[i].insert, at[i].end)
      BY <1>9
    <3>4. l = at[i].insert
      BY <3>1, <3>2, <3>3 DEF Block
    <3> QED
      BY <2>1, <3>4
  <2>5. \A i, j \in 1..p : i < j => records[i] < records[j]
    <3> SUFFICES ASSUME NEW i \in 1..p, NEW j \in 1..p, i < j PROVE records[i] < records[j]
      OBVIOUS
    <3>1. at[i].end < at[j].guard
      BY <1>11
    <3>2. at[i].insert < at[i].end /\ at[j].guard < at[j].ir /\ at[j].ir < at[j].insert
      BY <1>9 DEF Block
    <3> QED
      BY <1>10, <2>1, <3>1, <3>2
  <2> HIDE DEF lines, records
  <2> QED
    BY <1>2, <2>3, <2>4, <2>5 DEF Ascent
<1>14. \A i \in 1..p : s[at[i].insert].of = VersionOf(M[i])
  <2>1. lines \in SUBSET (1..L) /\ \A i \in 1..p : records[i] = at[i].insert
    BY <1>3
  <2>2. RecordedVersions(s) = [i \in DOMAIN Picked(s, lines) |-> Picked(s, lines)[i].of]
    BY DEF RecordedVersions, Directives
  <2> HIDE DEF lines, records
  <2>3. lines \in SUBSET Int
    BY <2>1
  <2>4. IsFiniteSet(lines)
    BY <1>13, <2>3, AscentCounts
  <2>5. PICK g : /\ Ascent(g, Cardinality(lines), lines)
                 /\ Picked(s, lines) = [n \in 1..Cardinality(lines) |-> s[g[n]]]
    BY ONLY <2>3, <2>4, PickedAlong
  <2>6. Cardinality(lines) = p /\ g = records
    BY <1>13, <2>3, <2>5, AscentUnique
  <2>7. RecordedVersions(s) = [i \in 1..p |-> s[records[i]].of]
    BY <2>2, <2>5, <2>6
  <2>8. \A i \in 1..p : RecordedVersions(s)[i] = s[at[i].insert].of
    BY <2>1, <2>7
  <2>9. \A i \in 1..p : ShippedVersions(M)[i] = VersionOf(M[i])
    BY <1>2 DEF ShippedVersions
  <2> QED
    BY <1>1, <2>8, <2>9
<1>15. \A i \in 1..p : s[at[i].ir].of = Name(M[i])
  BY <1>6, <1>9
<1>16. Layout(s, M, p, at)
  <2>1. \A l \in 1..L : s[l].comment \/ s[l].kind = "seed" \/ \E i \in 1..p : l \in {at[i].guard, at[i].ir, at[i].insert, at[i].end}
    BY <1>12
  <2>2. \A i \in 1..p : Block(s, at[i].guard, at[i].ir, at[i].insert, at[i].end)
    BY <1>9
  <2>3. at \in [1..p -> [guard : 1..Len(s), ir : 1..Len(s), insert : 1..Len(s), end : 1..Len(s)]]
    BY <1>9
  <2> QED
    BY <1>11, <1>14, <1>15, <2>1, <2>2, <2>3 DEF Layout
<1> QED
  BY <1>16 DEF M, s

-----------------------------------------------------------------------------
(* What psql makes of such an installer.                                   *)

\* A database with the schema of a migrations, the history of b of them and the
\* rows of the seeds z.
Holding(M, a, b, z, on) ==
    [schema |-> [i \in 1..a |-> Name(M[i])], ledger |-> {VersionOf(M[i]) : i \in 1..b}, seeded |-> z,
     apply |-> (on = 1), failed |-> FALSE]

\* After line n of a session that began with k migrations: those whose lines
\* were executed since have been added, and inside of a block what it guards
\* applies unless the migration was there.
Progress(p, at, k, n, a, b, on) ==
    /\ a \in k..p /\ b \in k..p /\ on \in {0, 1}
    /\ \A i \in 1..p : i > k => (at[i].ir <= n <=> i <= a)
    /\ \A i \in 1..p : i > k => (at[i].insert <= n <=> i <= b)
    /\ \A i \in 1..p : at[i].guard <= n /\ n < at[i].end => (i > k => on = 1) /\ (i <= k => on = 0)

\* The lines of the blocks, all of them among the first L lines, in order.
Arranged(L, p, at) ==
    /\ L \in Nat /\ p \in Nat
    /\ \A i \in 1..p : /\ at[i].guard \in 1..L /\ at[i].ir \in 1..L /\ at[i].insert \in 1..L /\ at[i].end \in 1..L
                       /\ at[i].guard < at[i].ir /\ at[i].ir < at[i].insert /\ at[i].insert < at[i].end
    /\ \A i, j \in 1..p : i < j => at[i].end < at[j].guard

(* The lines of an installer are arranged; those of a block are no         *)
(* comments, and there is nothing else between a migration and its record. *)
LEMMA LayoutArranged ==
  ASSUME NEW s, NEW M, NEW p \in Nat, NEW at, Layout(s, M, p, at), Len(s) \in Nat
  PROVE  /\ Arranged(Len(s), p, at)
         /\ \A i \in 1..p : ~s[at[i].guard].comment /\ ~s[at[i].ir].comment /\ ~s[at[i].insert].comment /\ ~s[at[i].end].comment
         /\ \A i \in 1..p, l \in Nat : at[i].ir < l /\ l < at[i].insert => s[l].comment
<1>1. at \in [1..p -> [guard : 1..Len(s), ir : 1..Len(s), insert : 1..Len(s), end : 1..Len(s)]]
  BY DEF Layout
<1>2. \A i \in 1..p : Block(s, at[i].guard, at[i].ir, at[i].insert, at[i].end)
  BY DEF Layout
<1>3. \A i, j \in 1..p : i < j => at[i].end < at[j].guard
  BY DEF Layout
<1>4. \A i \in 1..p : at[i].guard < at[i].ir /\ at[i].ir < at[i].insert /\ at[i].insert < at[i].end
  BY <1>2 DEF Block
<1>5. Arranged(Len(s), p, at)
  BY <1>1, <1>3, <1>4 DEF Arranged
<1>6. ASSUME NEW i \in 1..p
      PROVE  /\ ~s[at[i].guard].comment /\ ~s[at[i].ir].comment /\ ~s[at[i].insert].comment /\ ~s[at[i].end].comment
             /\ \A l \in Nat : at[i].ir < l /\ l < at[i].insert => s[l].comment
  <2>1. at[i].guard \in Nat /\ at[i].ir \in Nat /\ at[i].insert \in Nat /\ at[i].end \in Nat
    BY <1>1
  <2>2. Block(s, at[i].guard, at[i].ir, at[i].insert, at[i].end)
    BY <1>2
  <2> DEFINE guard == at[i].guard
             ir == at[i].ir
             insert == at[i].insert
             end == at[i].end
  <2>3. guard \in Nat /\ ir \in Nat /\ insert \in Nat /\ end \in Nat /\ Block(s, guard, ir, insert, end)
    BY <2>1, <2>2
  <2> HIDE DEF guard, ir, insert, end
  <2>4. /\ ~s[guard].comment /\ ~s[ir].comment /\ ~s[insert].comment /\ ~s[end].comment
        /\ \A l \in Nat : ir < l /\ l < insert => s[l].comment
    BY <2>3, LinesOfBlock, SMTT(60)
  <2> QED
    BY <2>4 DEF guard, ir, insert, end
<1> QED
  BY <1>5, <1>6

(* The lines of two blocks differ.                                         *)
LEMMA LinesApart ==
  ASSUME NEW L, NEW p, NEW at, Arranged(L, p, at),
         NEW i \in 1..p, NEW n \in Nat, at[i].guard <= n, n <= at[i].end, NEW j \in 1..p, j # i
  PROVE  n # at[j].ir /\ n # at[j].insert /\ ~(at[j].guard <= n /\ n < at[j].end)
<1>1. /\ p \in Nat /\ L \in Nat
      /\ at[i].guard \in 1..L /\ at[i].end \in 1..L
      /\ at[j].guard \in 1..L /\ at[j].ir \in 1..L /\ at[j].insert \in 1..L /\ at[j].end \in 1..L
      /\ at[j].guard < at[j].ir /\ at[j].ir < at[j].insert /\ at[j].insert < at[j].end
      /\ j < i => at[j].end < at[i].guard
      /\ i < j => at[i].end < at[j].guard
  BY DEF Arranged
<1>2. i < j \/ j < i
  BY <1>1
<1> QED
  BY <1>1, <1>2

(* A line that is of no block changes nothing.                             *)
LEMMA CommentPassed ==
  ASSUME NEW L, NEW p, NEW at, Arranged(L, p, at), NEW k, NEW n \in 1..L, NEW a, NEW b, NEW on,
         Progress(p, at, k, n - 1, a, b, on),
         \A i \in 1..p : n # at[i].guard /\ n # at[i].ir /\ n # at[i].insert /\ n # at[i].end
  PROVE  Progress(p, at, k, n, a, b, on)
<1>1. /\ L \in Nat /\ p \in Nat
      /\ \A i \in 1..p : at[i].guard \in 1..L /\ at[i].ir \in 1..L /\ at[i].insert \in 1..L /\ at[i].end \in 1..L
  BY DEF Arranged
<1>2. /\ \A i \in 1..p : at[i].ir <= n - 1 <=> at[i].ir <= n
      /\ \A i \in 1..p : at[i].insert <= n - 1 <=> at[i].insert <= n
      /\ \A i \in 1..p : at[i].guard <= n - 1 <=> at[i].guard <= n
      /\ \A i \in 1..p : n < at[i].end => n - 1 < at[i].end
  BY <1>1
<1> QED
  BY <1>2 DEF Progress

(* What a line of a block changes: it is no line of another.               *)
LEMMA LinePassed ==
  ASSUME NEW L, NEW p, NEW at, Arranged(L, p, at), NEW n \in 1..L,
         NEW i \in 1..p, n \in {at[i].guard, at[i].ir, at[i].insert, at[i].end}
  PROVE  /\ \A j \in 1..p : j # i => at[j].ir <= n - 1 <=> at[j].ir <= n
         /\ \A j \in 1..p : j # i => at[j].insert <= n - 1 <=> at[j].insert <= n
         /\ \A j \in 1..p : j # i => ~(at[j].guard <= n /\ n < at[j].end)
         /\ n = at[i].ir \/ (at[i].ir <= n - 1 <=> at[i].ir <= n)
         /\ n = at[i].insert \/ (at[i].insert <= n - 1 <=> at[i].insert <= n)
<1>1. /\ L \in Nat /\ p \in Nat
      /\ \A j \in 1..p : at[j].guard \in 1..L /\ at[j].ir \in 1..L /\ at[j].insert \in 1..L /\ at[j].end \in 1..L
      /\ at[i].guard < at[i].ir /\ at[i].ir < at[i].insert /\ at[i].insert < at[i].end
  BY DEF Arranged
<1>2. n \in Nat /\ at[i].guard <= n /\ n <= at[i].end
  BY <1>1
<1>3. \A j \in 1..p : j # i => n # at[j].ir /\ n # at[j].insert /\ ~(at[j].guard <= n /\ n < at[j].end)
  BY <1>2, LinesApart
<1>4. \A j \in 1..p : j # i => at[j].ir <= n - 1 <=> at[j].ir <= n
  <2> SUFFICES ASSUME NEW j \in 1..p, j # i PROVE at[j].ir <= n - 1 <=> at[j].ir <= n
    OBVIOUS
  <2>1. at[j].ir \in Nat /\ n # at[j].ir
    BY <1>1, <1>3
  <2> QED
    BY <1>2, <2>1
<1>5. \A j \in 1..p : j # i => at[j].insert <= n - 1 <=> at[j].insert <= n
  <2> SUFFICES ASSUME NEW j \in 1..p, j # i PROVE at[j].insert <= n - 1 <=> at[j].insert <= n
    OBVIOUS
  <2>1. at[j].insert \in Nat /\ n # at[j].insert
    BY <1>1, <1>3
  <2> QED
    BY <1>2, <2>1
<1>6. n = at[i].ir \/ (at[i].ir <= n - 1 <=> at[i].ir <= n)
  BY <1>1
<1>7. n = at[i].insert \/ (at[i].insert <= n - 1 <=> at[i].insert <= n)
  BY <1>1
<1> QED
  BY <1>3, <1>4, <1>5, <1>6, <1>7


\* i is the next after a.
Follows(i, a) == i = a + 1

(* A guard: what it guards applies unless the history has the version.     *)
LEMMA GuardPassed ==
  ASSUME NEW L, NEW p, NEW at, Arranged(L, p, at), NEW k \in Nat, NEW n \in 1..L, NEW a, NEW b, NEW on,
         Progress(p, at, k, n - 1, a, b, on), NEW i \in 1..p, n = at[i].guard
  PROVE  (i <= b <=> i <= k) /\ Progress(p, at, k, n, a, b, IF i > b THEN 1 ELSE 0)
<1> DEFINE now == IF i > b THEN 1 ELSE 0
<1>1. /\ L \in Nat /\ p \in Nat /\ at[i].insert \in 1..L /\ at[i].ir \in 1..L
      /\ at[i].guard < at[i].ir /\ at[i].ir < at[i].insert
  BY DEF Arranged
<1>2. /\ a \in k..p /\ b \in k..p
      /\ \A j \in 1..p : j > k => (at[j].ir <= n - 1 <=> j <= a)
      /\ \A j \in 1..p : j > k => (at[j].insert <= n - 1 <=> j <= b)
  BY DEF Progress
<1>3. /\ \A j \in 1..p : j # i => at[j].ir <= n - 1 <=> at[j].ir <= n
      /\ \A j \in 1..p : j # i => at[j].insert <= n - 1 <=> at[j].insert <= n
      /\ \A j \in 1..p : j # i => ~(at[j].guard <= n /\ n < at[j].end)
      /\ n = at[i].ir \/ (at[i].ir <= n - 1 <=> at[i].ir <= n)
      /\ n = at[i].insert \/ (at[i].insert <= n - 1 <=> at[i].insert <= n)
  BY LinePassed
<1>4. n # at[i].ir /\ n # at[i].insert /\ ~(at[i].insert <= n - 1)
  BY <1>1
<1>5. i <= b <=> i <= k
  BY <1>1, <1>2, <1>4
<1>6. \A j \in 1..p : j > k => (at[j].ir <= n <=> j <= a)
  BY <1>2, <1>3, <1>4
<1>7. \A j \in 1..p : j > k => (at[j].insert <= n <=> j <= b)
  BY <1>2, <1>3, <1>4
<1>8. \A j \in 1..p : at[j].guard <= n /\ n < at[j].end => (j > k => now = 1) /\ (j <= k => now = 0)
  <2> SUFFICES ASSUME NEW j \in 1..p, at[j].guard <= n, n < at[j].end
               PROVE  (j > k => now = 1) /\ (j <= k => now = 0)
    OBVIOUS
  <2>1. j = i
    BY <1>3
  <2> QED
    BY <1>1, <1>2, <1>5, <2>1
<1> QED
  BY <1>2, <1>5, <1>6, <1>7, <1>8 DEF Progress

(* An inclusion: it applies to a migration the schema has not, the next.   *)
LEMMA InclusionPassed ==
  ASSUME NEW L, NEW p, NEW at, Arranged(L, p, at), NEW k \in Nat, NEW n \in 1..L, NEW a, NEW b, NEW on,
         Progress(p, at, k, n - 1, a, b, on), NEW i \in 1..p, n = at[i].ir
  PROVE  /\ i <= k => on = 0 /\ Progress(p, at, k, n, a, b, on)
         /\ i > k => on = 1 /\ Follows(i, a) /\ Progress(p, at, k, n, i, b, on)
<1>1. /\ L \in Nat /\ p \in Nat
      /\ \A j \in 1..p : /\ at[j].guard \in 1..L /\ at[j].ir \in 1..L /\ at[j].insert \in 1..L /\ at[j].end \in 1..L
                         /\ at[j].guard < at[j].ir /\ at[j].ir < at[j].insert /\ at[j].insert < at[j].end
      /\ \A m, j \in 1..p : m < j => at[m].end < at[j].guard
  BY DEF Arranged
<1>2. /\ a \in k..p /\ b \in k..p /\ on \in {0, 1}
      /\ \A j \in 1..p : j > k => (at[j].ir <= n - 1 <=> j <= a)
      /\ \A j \in 1..p : j > k => (at[j].insert <= n - 1 <=> j <= b)
      /\ \A j \in 1..p : at[j].guard <= n - 1 /\ n - 1 < at[j].end => (j > k => on = 1) /\ (j <= k => on = 0)
  BY DEF Progress
<1>3. /\ \A j \in 1..p : j # i => at[j].ir <= n - 1 <=> at[j].ir <= n
      /\ \A j \in 1..p : j # i => at[j].insert <= n - 1 <=> at[j].insert <= n
      /\ \A j \in 1..p : j # i => ~(at[j].guard <= n /\ n < at[j].end)
      /\ n = at[i].insert \/ (at[i].insert <= n - 1 <=> at[i].insert <= n)
  BY LinePassed
<1>4. n # at[i].insert /\ at[i].guard <= n - 1 /\ n - 1 < at[i].end /\ ~(at[i].ir <= n - 1) /\ at[i].ir <= n
  BY <1>1
<1>5. (i > k => on = 1) /\ (i <= k => on = 0)
  BY <1>2, <1>4
<1>6. \A j \in 1..p : j > k => (at[j].insert <= n <=> j <= b)
  BY <1>2, <1>3, <1>4
<1>7. \A j \in 1..p : at[j].guard <= n /\ n < at[j].end => (j > k => on = 1) /\ (j <= k => on = 0)
  BY <1>3, <1>5
<1>8. ASSUME i <= k PROVE Progress(p, at, k, n, a, b, on)
  <2>1. \A j \in 1..p : j > k => (at[j].ir <= n <=> j <= a)
    BY <1>1, <1>2, <1>3, <1>8
  <2> QED
    BY <1>2, <1>6, <1>7, <2>1 DEF Progress
<1>9. ASSUME i > k PROVE Follows(i, a) /\ Progress(p, at, k, n, i, b, on)
  <2>1. ~(i <= a)
    BY <1>2, <1>4, <1>9
  <2>2. i = a + 1
    <3> SUFFICES ASSUME i # a + 1 PROVE FALSE
      OBVIOUS
    <3>1. a + 1 \in 1..p /\ a + 1 < i /\ a + 1 > k /\ ~(a + 1 <= a)
      BY <1>1, <1>2, <2>1
    <3>2. at[a + 1].end < at[i].guard
      BY <1>1, <3>1
    <3>3. at[a + 1].ir <= n - 1
      BY <1>1, <3>1, <3>2
    <3> QED
      BY <1>2, <3>1, <3>3
  <2>3. \A j \in 1..p : j > k => (at[j].ir <= n <=> j <= i)
    <3> SUFFICES ASSUME NEW j \in 1..p, j > k PROVE at[j].ir <= n <=> j <= i
      OBVIOUS
    <3>1. CASE j = i
      BY <1>4, <3>1
    <3>2. CASE j # i
      <4>1. at[j].ir <= n <=> j <= a
        BY <1>2, <1>3, <3>2
      <4>2. a \in Int /\ j \in Int /\ i \in Int
        BY <1>1, <1>2
      <4> QED
        BY <2>2, <3>2, <4>1, <4>2
    <3> QED
      BY <3>1, <3>2
  <2>4. i \in k..p
    BY <1>1, <1>9
  <2> QED
    BY <1>2, <1>6, <1>7, <2>2, <2>3, <2>4 DEF Progress, Follows
<1>10. i <= k \/ i > k
  BY <1>1
<1> QED
  BY <1>5, <1>8, <1>9

(* A record: it applies to a version the history has not, the next.        *)
LEMMA RecordPassed ==
  ASSUME NEW L, NEW p, NEW at, Arranged(L, p, at), NEW k \in Nat, NEW n \in 1..L, NEW a, NEW b, NEW on,
         Progress(p, at, k, n - 1, a, b, on), NEW i \in 1..p, n = at[i].insert
  PROVE  /\ i <= k => on = 0 /\ Progress(p, at, k, n, a, b, on)
         /\ i > k => on = 1 /\ Follows(i, b) /\ Progress(p, at, k, n, a, i, on)
<1>1. /\ L \in Nat /\ p \in Nat
      /\ \A j \in 1..p : /\ at[j].guard \in 1..L /\ at[j].ir \in 1..L /\ at[j].insert \in 1..L /\ at[j].end \in 1..L
                         /\ at[j].guard < at[j].ir /\ at[j].ir < at[j].insert /\ at[j].insert < at[j].end
      /\ \A m, j \in 1..p : m < j => at[m].end < at[j].guard
  BY DEF Arranged
<1>2. /\ a \in k..p /\ b \in k..p /\ on \in {0, 1}
      /\ \A j \in 1..p : j > k => (at[j].ir <= n - 1 <=> j <= a)
      /\ \A j \in 1..p : j > k => (at[j].insert <= n - 1 <=> j <= b)
      /\ \A j \in 1..p : at[j].guard <= n - 1 /\ n - 1 < at[j].end => (j > k => on = 1) /\ (j <= k => on = 0)
  BY DEF Progress
<1>3. /\ \A j \in 1..p : j # i => at[j].ir <= n - 1 <=> at[j].ir <= n
      /\ \A j \in 1..p : j # i => at[j].insert <= n - 1 <=> at[j].insert <= n
      /\ \A j \in 1..p : j # i => ~(at[j].guard <= n /\ n < at[j].end)
      /\ n = at[i].ir \/ (at[i].ir <= n - 1 <=> at[i].ir <= n)
  BY LinePassed
<1>4. n # at[i].ir /\ at[i].guard <= n - 1 /\ n - 1 < at[i].end /\ ~(at[i].insert <= n - 1) /\ at[i].insert <= n
  BY <1>1
<1>5. (i > k => on = 1) /\ (i <= k => on = 0)
  BY <1>2, <1>4
<1>6. \A j \in 1..p : j > k => (at[j].ir <= n <=> j <= a)
  BY <1>2, <1>3, <1>4
<1>7. \A j \in 1..p : at[j].guard <= n /\ n < at[j].end => (j > k => on = 1) /\ (j <= k => on = 0)
  BY <1>3, <1>5
<1>8. ASSUME i <= k PROVE Progress(p, at, k, n, a, b, on)
  <2>1. \A j \in 1..p : j > k => (at[j].insert <= n <=> j <= b)
    BY <1>1, <1>2, <1>3, <1>8
  <2> QED
    BY <1>2, <1>6, <1>7, <2>1 DEF Progress
<1>9. ASSUME i > k PROVE Follows(i, b) /\ Progress(p, at, k, n, a, i, on)
  <2>1. ~(i <= b)
    BY <1>2, <1>4, <1>9
  <2>2. i = b + 1
    <3> SUFFICES ASSUME i # b + 1 PROVE FALSE
      OBVIOUS
    <3>1. b + 1 \in 1..p /\ b + 1 < i /\ b + 1 > k /\ ~(b + 1 <= b)
      BY <1>1, <1>2, <2>1
    <3>2. at[b + 1].end < at[i].guard
      BY <1>1, <3>1
    <3>3. at[b + 1].insert <= n - 1
      BY <1>1, <3>1, <3>2
    <3> QED
      BY <1>2, <3>1, <3>3
  <2>3. \A j \in 1..p : j > k => (at[j].insert <= n <=> j <= i)
    <3> SUFFICES ASSUME NEW j \in 1..p, j > k PROVE at[j].insert <= n <=> j <= i
      OBVIOUS
    <3>1. CASE j = i
      BY <1>4, <3>1
    <3>2. CASE j # i
      <4>1. at[j].insert <= n <=> j <= b
        BY <1>2, <1>3, <3>2
      <4>2. b \in Int /\ j \in Int /\ i \in Int
        BY <1>1, <1>2
      <4> QED
        BY <2>2, <3>2, <4>1, <4>2
    <3> QED
      BY <3>1, <3>2
  <2>4. i \in k..p
    BY <1>1, <1>9
  <2> QED
    BY <1>2, <1>6, <1>7, <2>2, <2>3, <2>4 DEF Progress, Follows
<1>10. i <= k \/ i > k
  BY <1>1
<1> QED
  BY <1>5, <1>8, <1>9

(* The end of a block: outside of blocks everything applies.               *)
LEMMA EndPassed ==
  ASSUME NEW L, NEW p, NEW at, Arranged(L, p, at), NEW k \in Nat, NEW n \in 1..L, NEW a, NEW b, NEW on,
         Progress(p, at, k, n - 1, a, b, on), NEW i \in 1..p, n = at[i].end
  PROVE  Progress(p, at, k, n, a, b, 1)
<1>1. /\ L \in Nat /\ p \in Nat /\ at[i].insert \in 1..L /\ at[i].ir \in 1..L /\ at[i].end \in 1..L
      /\ at[i].ir < at[i].insert /\ at[i].insert < at[i].end
  BY DEF Arranged
<1>2. /\ a \in k..p /\ b \in k..p
      /\ \A j \in 1..p : j > k => (at[j].ir <= n - 1 <=> j <= a)
      /\ \A j \in 1..p : j > k => (at[j].insert <= n - 1 <=> j <= b)
  BY DEF Progress
<1>3. /\ \A j \in 1..p : j # i => at[j].ir <= n - 1 <=> at[j].ir <= n
      /\ \A j \in 1..p : j # i => at[j].insert <= n - 1 <=> at[j].insert <= n
      /\ \A j \in 1..p : j # i => ~(at[j].guard <= n /\ n < at[j].end)
      /\ n = at[i].ir \/ (at[i].ir <= n - 1 <=> at[i].ir <= n)
      /\ n = at[i].insert \/ (at[i].insert <= n - 1 <=> at[i].insert <= n)
  BY LinePassed
<1>4. n # at[i].ir /\ n # at[i].insert /\ ~(n < at[i].end)
  BY <1>1
<1>5. \A j \in 1..p : j > k => (at[j].ir <= n <=> j <= a)
  BY <1>2, <1>3, <1>4
<1>6. \A j \in 1..p : j > k => (at[j].insert <= n <=> j <= b)
  BY <1>2, <1>3, <1>4
<1>7. \A j \in 1..p : ~(at[j].guard <= n /\ n < at[j].end)
  BY <1>3, <1>4
<1> QED
  BY <1>2, <1>5, <1>6, <1>7 DEF Progress


(* The length of a sequence that is given place by place.                  *)
LEMMA LengthOf ==
  ASSUME NEW S, NEW n \in Nat, NEW s \in [1..n -> S]
  PROVE  s \in Seq(S) /\ Len(s) = n
<1>1. Seq(S) = UNION {[1..m -> S] : m \in Nat}
  BY SeqDef
<1>2. s \in Seq(S)
  BY <1>1
<1>3. Len(s) \in Nat /\ DOMAIN s = 1..Len(s)
  BY <1>2, LenProperties
<1>4. DOMAIN s = 1..n
  OBVIOUS
<1>5. Len(s) <= n
  <2>1. Len(s) \in 1..Len(s) => Len(s) \in 1..n
    BY <1>3, <1>4
  <2> QED
    BY <1>3, <2>1
<1>6. n <= Len(s)
  <2>1. n \in 1..n => n \in 1..Len(s)
    BY <1>3, <1>4
  <2> QED
    BY <1>3, <2>1
<1>7. Len(s) \in Int /\ n \in Int
  BY <1>3
<1>8. Len(s) = n
  BY ONLY <1>5, <1>6, <1>7
<1> QED
  BY <1>2, <1>8

(* One more name at the end of the first a.                                *)
LEMMA NamesAppended ==
  ASSUME NEW M, NEW a \in Nat
  PROVE  Append([i \in 1..a |-> Name(M[i])], Name(M[a + 1])) = [i \in 1..(a + 1) |-> Name(M[i])]
<1> DEFINE S == {Name(M[i]) : i \in 1..(a + 1)}
           s == [i \in 1..a |-> Name(M[i])]
           e == Name(M[a + 1])
           t == Append(s, e)
<1>1. \A i \in 1..(a + 1) : Name(M[i]) \in S
  OBVIOUS
<1>2. e \in S /\ s \in [1..a -> S] /\ \A i \in 1..a : s[i] = Name(M[i])
  <2>1. a + 1 \in 1..(a + 1) /\ \A i \in 1..a : i \in 1..(a + 1)
    OBVIOUS
  <2> HIDE DEF S
  <2> QED
    BY <1>1, <2>1
<1> HIDE DEF S, s, e
<1>3. s \in Seq(S) /\ Len(s) = a
  BY <1>2, LengthOf
<1>4. /\ t \in Seq(S) /\ Len(t) = a + 1 /\ \A i \in 1..a : t[i] = s[i]
      /\ t[a + 1] = e
  BY <1>2, <1>3, AppendProperties
<1> HIDE DEF t
<1>5. t \in [1..(a + 1) -> S]
  BY <1>4, LenProperties
<1>6. \A i \in 1..(a + 1) : t[i] = Name(M[i])
  <2> SUFFICES ASSUME NEW i \in 1..(a + 1) PROVE t[i] = Name(M[i])
    OBVIOUS
  <2>1. CASE i = a + 1
    BY <1>4, <2>1 DEF e
  <2>2. CASE i # a + 1
    <3>1. i \in 1..a
      BY <2>2
    <3> QED
      BY <1>2, <1>4, <3>1
  <2> QED
    BY <2>1, <2>2
<1>7. t = [i \in 1..(a + 1) |-> Name(M[i])]
  BY <1>5, <1>6
<1> QED
  BY <1>7 DEF t, s, e

(* A database is what its fields are.                                      *)
LEMMA DatabaseIs ==
  ASSUME NEW x, NEW y, NEW z, NEW on, NEW d \in [schema : {x}, ledger : {y}, seeded : {z}, apply : {on}, failed : {FALSE}]
  PROVE  d = [schema |-> x, ledger |-> y, seeded |-> z, apply |-> on, failed |-> FALSE]
OBVIOUS

(* What one line does to a database.                                       *)
LEMMA GuardExecuted ==
  ASSUME NEW r, NEW F, NEW M, NEW p, Shipment(F, M, p), NEW a, NEW b \in 0..p, NEW z, NEW on,
         NEW i \in 1..p, NEW line, ~line.comment, line.kind = "if", line.of = VersionOf(M[i])
  PROVE  Execute(r, Holding(M, a, b, z, on), line) = Holding(M, a, b, z, IF i > b THEN 1 ELSE 0)
<1> DEFINE d == Holding(M, a, b, z, on)
<1>1. d.failed = FALSE /\ d.ledger = {VersionOf(M[j]) : j \in 1..b}
  BY DEF Holding
<1>2. [d EXCEPT !.apply = i > b] = Holding(M, a, b, z, IF i > b THEN 1 ELSE 0)
  <2> DEFINE names == [j \in 1..a |-> Name(M[j])]
             versions == {VersionOf(M[j]) : j \in 1..b}
             value == i > b
  <2>1. d \in [schema : {names}, ledger : {versions}, seeded : {z}, apply : {on = 1}, failed : {FALSE}]
    BY DEF Holding
  <2>2. Holding(M, a, b, z, IF i > b THEN 1 ELSE 0) = [schema |-> names, ledger |-> versions, seeded |-> z, apply |-> value, failed |-> FALSE]
    <3>1. ((IF i > b THEN 1 ELSE 0) = 1) = value
      OBVIOUS
    <3> HIDE DEF value
    <3> QED
      BY <3>1 DEF Holding
  <2> HIDE DEF d, names, versions, value
  <2>3. [d EXCEPT !.apply = value] \in [schema : {names}, ledger : {versions}, seeded : {z}, apply : {value}, failed : {FALSE}]
    BY ONLY <2>1
  <2>4. [d EXCEPT !.apply = value] = [schema |-> names, ledger |-> versions, seeded |-> z, apply |-> value, failed |-> FALSE]
    BY ONLY <2>3, DatabaseIs
  <2> QED
    BY <2>2, <2>4 DEF value
<1>3. (line.of \notin d.ledger) = (i > b)
  <2>1. p \in Nat
    BY DEF Shipment
  <2>2. \A j \in 1..p : j # i => VersionOf(M[j]) # VersionOf(M[i])
    BY NamesDiffer
  <2>3. ASSUME i > b PROVE line.of \notin d.ledger
    <3> SUFFICES ASSUME NEW j \in 1..b, line.of = VersionOf(M[j]) PROVE FALSE
      BY <1>1
    <3>1. j \in 1..p /\ j # i
      BY <2>1, <2>3
    <3> QED
      BY <2>2, <3>1
  <2>4. ASSUME ~(i > b) PROVE line.of \in d.ledger
    <3>1. i \in 1..b
      BY <2>1, <2>4
    <3> QED
      BY <1>1, <3>1
  <2> QED
    BY <2>3, <2>4
<1> HIDE DEF d
<1>4. Execute(r, d, line) = [d EXCEPT !.apply = line.of \notin d.ledger]
  BY <1>1 DEF Execute
<1> QED
  BY <1>2, <1>3, <1>4 DEF d

(* A comment does nothing.                                                 *)
LEMMA CommentExecuted ==
  ASSUME NEW r, NEW d, NEW line, line.comment
  PROVE  Execute(r, d, line) = d
BY DEF Execute

(* Where nothing applies, nothing is done.                                 *)
LEMMA SkippedExecuted ==
  ASSUME NEW r, NEW M, NEW a, NEW b, NEW z, NEW line, ~line.comment, line.kind \in {"ir", "seed", "insert"}
  PROVE  Execute(r, Holding(M, a, b, z, 0), line) = Holding(M, a, b, z, 0)
<1> DEFINE d == Holding(M, a, b, z, 0)
<1>1. d.failed = FALSE /\ ~d.apply
  <2>1. d.failed = FALSE /\ d.apply = (0 = 1)
    BY DEF Holding
  <2> HIDE DEF d
  <2>2. ~(0 = 1)
    OBVIOUS
  <2> QED
    BY <2>1, <2>2
<1> HIDE DEF d
<1>2. Execute(r, d, line) = d
  BY <1>1 DEF Execute
<1> QED
  BY <1>2 DEF d

(* After the end of a block everything applies.                            *)
LEMMA EndExecuted ==
  ASSUME NEW r, NEW M, NEW a, NEW b, NEW z, NEW on, NEW line, ~line.comment, line.kind = "endif"
  PROVE  Execute(r, Holding(M, a, b, z, on), line) = Holding(M, a, b, z, 1)
<1> DEFINE d == Holding(M, a, b, z, on)
<1>1. d.failed = FALSE
  BY DEF Holding
<1>2. [d EXCEPT !.apply = TRUE] = Holding(M, a, b, z, 1)
  <2> DEFINE names == [j \in 1..a |-> Name(M[j])]
             versions == {VersionOf(M[j]) : j \in 1..b}
             value == TRUE
  <2>1. d \in [schema : {names}, ledger : {versions}, seeded : {z}, apply : {on = 1}, failed : {FALSE}]
    BY DEF Holding
  <2>2. Holding(M, a, b, z, 1) = [schema |-> names, ledger |-> versions, seeded |-> z, apply |-> value, failed |-> FALSE]
    BY DEF Holding
  <2> HIDE DEF d, names, versions, value
  <2>3. [d EXCEPT !.apply = value] \in [schema : {names}, ledger : {versions}, seeded : {z}, apply : {value}, failed : {FALSE}]
    BY ONLY <2>1
  <2>4. [d EXCEPT !.apply = value] = [schema |-> names, ledger |-> versions, seeded |-> z, apply |-> value, failed |-> FALSE]
    BY ONLY <2>3, DatabaseIs
  <2> QED
    BY <2>2, <2>4 DEF value
<1> HIDE DEF d
<1>3. Execute(r, d, line) = [d EXCEPT !.apply = TRUE]
  BY <1>1 DEF Execute
<1> QED
  BY <1>2, <1>3 DEF d

(* The next migration is one the schema has not and the files have.        *)
LEMMA InclusionExecuted ==
  ASSUME NEW r, NEW M, NEW p, Shipment(r.files, M, p), NEW a \in Nat, NEW b, NEW z, NEW i \in 1..p, Follows(i, a),
         M[i].seeds \subseteq z, NEW line, ~line.comment, line.kind = "ir", line.of = Name(M[i])
  PROVE  Execute(r, Holding(M, a, b, z, 1), line) = Holding(M, i, b, z, 1)
<1> DEFINE d == Holding(M, a, b, z, 1)
<1>1. d.failed = FALSE /\ d.apply = TRUE /\ d.schema = [j \in 1..a |-> Name(M[j])] /\ d.seeded = z
  BY DEF Holding
<1>2. [d EXCEPT !.schema = [j \in 1..i |-> Name(M[j])]] = Holding(M, i, b, z, 1)
  <2> DEFINE names == [j \in 1..a |-> Name(M[j])]
             versions == {VersionOf(M[j]) : j \in 1..b}
             value == [j \in 1..i |-> Name(M[j])]
  <2>1. d \in [schema : {names}, ledger : {versions}, seeded : {z}, apply : {TRUE}, failed : {FALSE}]
    BY DEF Holding
  <2>2. Holding(M, i, b, z, 1) = [schema |-> value, ledger |-> versions, seeded |-> z, apply |-> TRUE, failed |-> FALSE]
    BY DEF Holding
  <2> HIDE DEF d, names, versions, value
  <2>3. [d EXCEPT !.schema = value] \in [schema : {value}, ledger : {versions}, seeded : {z}, apply : {TRUE}, failed : {FALSE}]
    BY ONLY <2>1
  <2>4. [d EXCEPT !.schema = value] = [schema |-> value, ledger |-> versions, seeded |-> z, apply |-> TRUE, failed |-> FALSE]
    BY ONLY <2>3, DatabaseIs
  <2> QED
    BY <2>2, <2>4 DEF value
<1> HIDE DEF d
<1>3. p \in Nat /\ M[i] \in r.files
  BY DEF Shipment
<1>4. ~Applied(d, line.of)
  <2> SUFFICES ASSUME NEW j \in DOMAIN d.schema, d.schema[j] = line.of PROVE FALSE
    BY DEF Applied
  <2>1. j \in 1..p /\ j # i /\ Name(M[j]) = Name(M[i])
    BY <1>1, <1>3 DEF Follows
  <2> QED
    BY <2>1, NamesDiffer
<1>5. Append(d.schema, line.of) = [j \in 1..i |-> Name(M[j])]
  <2>1. i = a + 1
    BY DEF Follows
  <2> QED
    BY <1>1, <2>1, NamesAppended
<1>6. Applicable(r, d, line.of)
  BY <1>1, <1>3, <1>4 DEF Applicable
<1>7. Execute(r, d, line) = [d EXCEPT !.schema = Append(d.schema, line.of)]
  BY <1>1, <1>6 DEF Execute
<1> QED
  BY <1>2, <1>5, <1>7 DEF d

(* The next record is one the history has not.                             *)
LEMMA RecordExecuted ==
  ASSUME NEW r, NEW F, NEW M, NEW p, Shipment(F, M, p), NEW a, NEW b \in Nat, NEW z, NEW i \in 1..p, Follows(i, b),
         NEW line, ~line.comment, line.kind = "insert", line.of = VersionOf(M[i])
  PROVE  Execute(r, Holding(M, a, b, z, 1), line) = Holding(M, a, i, z, 1)
<1> DEFINE d == Holding(M, a, b, z, 1)
           grown == {VersionOf(M[j]) : j \in 1..i}
<1>1. d.failed = FALSE /\ d.apply = TRUE /\ d.ledger = {VersionOf(M[j]) : j \in 1..b}
  BY DEF Holding
<1>2. [d EXCEPT !.ledger = grown] = Holding(M, a, i, z, 1)
  <2> DEFINE names == [j \in 1..a |-> Name(M[j])]
             versions == {VersionOf(M[j]) : j \in 1..b}
             value == grown
  <2>1. d \in [schema : {names}, ledger : {versions}, seeded : {z}, apply : {TRUE}, failed : {FALSE}]
    BY DEF Holding
  <2>2. Holding(M, a, i, z, 1) = [schema |-> names, ledger |-> value, seeded |-> z, apply |-> TRUE, failed |-> FALSE]
    BY DEF Holding
  <2> HIDE DEF d, names, versions, value
  <2>3. [d EXCEPT !.ledger = value] \in [schema : {names}, ledger : {value}, seeded : {z}, apply : {TRUE}, failed : {FALSE}]
    BY ONLY <2>1
  <2>4. [d EXCEPT !.ledger = value] = [schema |-> names, ledger |-> value, seeded |-> z, apply |-> TRUE, failed |-> FALSE]
    BY ONLY <2>3, DatabaseIs
  <2> QED
    BY <2>2, <2>4 DEF value
<1> HIDE DEF d
<1>3. p \in Nat
  BY DEF Shipment
<1>4. line.of \notin d.ledger
  <2> SUFFICES ASSUME NEW j \in 1..b, line.of = VersionOf(M[j]) PROVE FALSE
    BY <1>1
  <2>1. j \in 1..p /\ j # i
    BY <1>3 DEF Follows
  <2> QED
    BY <2>1, NamesDiffer
<1>5. d.ledger \union {line.of} = grown
  <2>1. 1..i = (1..b) \union {i}
    BY DEF Follows
  <2> QED
    BY <1>1, <2>1
<1> HIDE DEF grown
<1>6. Execute(r, d, line) = [d EXCEPT !.ledger = d.ledger \union {line.of}]
  BY <1>1, <1>4 DEF Execute
<1> QED
  BY <1>2, <1>5, <1>6 DEF d

(* A migration the schema has stops the session.                           *)
LEMMA InclusionStops ==
  ASSUME NEW r, NEW M, NEW a \in Nat, NEW b, NEW z, NEW i \in 1..a,
         NEW line, ~line.comment, line.kind = "ir", line.of = Name(M[i])
  PROVE  LET d == Holding(M, a, b, z, 1)
             next == Execute(r, d, line)
         IN  next.failed /\ next.schema = d.schema /\ next.ledger = d.ledger
<1> DEFINE d == Holding(M, a, b, z, 1)
<1>1. d.failed = FALSE /\ d.apply = TRUE /\ d.schema = [j \in 1..a |-> Name(M[j])]
  BY DEF Holding
<1>2. d \in [schema : {d.schema}, ledger : {d.ledger}, seeded : {z}, apply : {TRUE}, failed : {FALSE}]
  BY DEF Holding
<1> HIDE DEF d
<1>3. Applied(d, line.of)
  BY <1>1 DEF Applied
<1>4. Execute(r, d, line) = [d EXCEPT !.failed = TRUE]
  BY <1>1, <1>3 DEF Execute, Applicable
<1>5. [d EXCEPT !.failed = TRUE] \in [schema : {d.schema}, ledger : {d.ledger}, seeded : {z}, apply : {TRUE}, failed : {TRUE}]
  BY ONLY <1>2
<1> QED
  BY <1>4, <1>5 DEF d

\* The tables of a seed are those of the first a migrations.
Fillable(r, M, a, seed) == \A name \in r.needs[seed] : \E i \in 1..a : name = Name(M[i])

(* A seed that finds its tables is there afterwards.                       *)
LEMMA SeedExecuted ==
  ASSUME NEW r, NEW M, NEW a \in Nat, NEW b, NEW z,
         NEW line, ~line.comment, line.kind = "seed",
         Fillable(r, M, a, line.of)
  PROVE  Execute(r, Holding(M, a, b, z, 1), line) = Holding(M, a, b, z \union {line.of}, 1)
<1> DEFINE d == Holding(M, a, b, z, 1)
           more == z \union {line.of}
<1>1. d.failed = FALSE /\ d.apply = TRUE /\ d.schema = [j \in 1..a |-> Name(M[j])] /\ d.seeded = z
  BY DEF Holding
<1>2. [d EXCEPT !.seeded = more] = Holding(M, a, b, more, 1)
  <2> DEFINE names == [j \in 1..a |-> Name(M[j])]
             versions == {VersionOf(M[j]) : j \in 1..b}
             value == more
  <2>1. d \in [schema : {names}, ledger : {versions}, seeded : {z}, apply : {TRUE}, failed : {FALSE}]
    BY DEF Holding
  <2>2. Holding(M, a, b, more, 1) = [schema |-> names, ledger |-> versions, seeded |-> value, apply |-> TRUE, failed |-> FALSE]
    BY DEF Holding
  <2> HIDE DEF d, names, versions, value
  <2>3. [d EXCEPT !.seeded = value] \in [schema : {names}, ledger : {versions}, seeded : {value}, apply : {TRUE}, failed : {FALSE}]
    BY ONLY <2>1
  <2>4. [d EXCEPT !.seeded = value] = [schema |-> names, ledger |-> versions, seeded |-> value, apply |-> TRUE, failed |-> FALSE]
    BY ONLY <2>3, DatabaseIs
  <2> QED
    BY <2>2, <2>4 DEF value
<1> HIDE DEF d
<1>3. Seedable(r, d, line.of)
  <2> SUFFICES ASSUME NEW name \in r.needs[line.of] PROVE Applied(d, name)
    BY DEF Seedable
  <2>1. PICK i \in 1..a : name = Name(M[i])
    BY DEF Fillable
  <2> QED
    BY <1>1, <2>1 DEF Applied
<1>4. Execute(r, d, line) = [d EXCEPT !.seeded = d.seeded \union {line.of}]
  BY <1>1, <1>3 DEF Execute
<1> QED
  BY <1>1, <1>2, <1>4 DEF d

\* A line that includes a seed.
IsSeed(line) == line.kind = "seed" /\ ~line.comment

\* Outside of the blocks everything applies.
Open(p, at, n, on) == (\A i \in 1..p : ~(at[i].guard <= n /\ n < at[i].end)) => on = 1

\* The seeds that the first k migrations need, and those of the first n lines.
Provided(s, M, k, n, z) ==
    /\ \A i \in 1..k : M[i].seeds \subseteq z
    /\ \A l \in 1..n : IsSeed(s[l]) => s[l].of \in z

\* Seeds stand after the migrations they need and before those that need them.
Supplied(r, M, p, at) ==
    /\ \A l \in 1..Len(r.installer) : IsSeed(r.installer[l]) =>
            \A name \in r.needs[r.installer[l].of] : \E i \in 1..p : name = Name(M[i]) /\ at[i].ir < l
    /\ \A i \in 1..p : \A seed \in M[i].seeds :
            \E l \in 1..Len(r.installer) : IsSeed(r.installer[l]) /\ r.installer[l].of = seed /\ l < at[i].ir

\* An installer that has the form of install.sql, and the lines of its blocks.
Fit(r, M, p, at) ==
    /\ Shipment(r.files, M, p) /\ Layout(r.installer, M, p, at) /\ Supplied(r, M, p, at)
    /\ Len(r.installer) \in Nat

Standing(r, M, p, at, k, n, a, b, z, on) ==
    Progress(p, at, k, n, a, b, on) /\ Open(p, at, n, on) /\ Provided(r.installer, M, k, n, z)

(* The seeds of such an installer are where they are needed.               *)
LEMMA SeedsSupplied ==
  ASSUME NEW r, DOMAIN r.installer = 1..Len(r.installer), Len(r.installer) \in Nat, SeedsInPlace(r), NEW M, NEW p,
         Shipment(r.files, M, p), NEW at, Layout(r.installer, M, p, at)
  PROVE  Supplied(r, M, p, at)
<1> DEFINE s == r.installer
<1>1. /\ \A i \in 1..p : Block(s, at[i].guard, at[i].ir, at[i].insert, at[i].end)
      /\ \A i \in 1..p : s[at[i].ir].of = Name(M[i])
      /\ \A i \in 1..p : at[i].guard \in 1..Len(s) /\ at[i].ir \in 1..Len(s) /\ at[i].insert \in 1..Len(s) /\ at[i].end \in 1..Len(s)
      /\ \A l \in 1..Len(s) : s[l].comment \/ s[l].kind = "seed" \/ \E i \in 1..p : l \in {at[i].guard, at[i].ir, at[i].insert, at[i].end}
  BY DEF Layout
<1>2. p \in Nat /\ \A i \in 1..p : M[i] \in r.files
  BY DEF Shipment
<1>3. /\ \A l \in 1..Len(s) : s[l].kind = "seed" /\ ~s[l].comment => \A name \in r.needs[s[l].of] : Preceded(s, l, "ir", name)
      /\ \A m \in r.files : \A seed \in m.seeds, l \in Positions(s, Name(m)) : Preceded(s, l, "seed", seed)
  BY DEF SeedsInPlace
<1>4. DOMAIN s = 1..Len(s)
  OBVIOUS
<1> HIDE DEF s
<1>5. ASSUME NEW l \in 1..Len(s), IsSeed(s[l]), NEW name \in r.needs[s[l].of]
      PROVE  \E i \in 1..p : name = Name(M[i]) /\ at[i].ir < l
  <2>1. Preceded(s, l, "ir", name)
    BY <1>3, <1>5 DEF IsSeed
  <2>2. PICK j \in 1..Len(s) : j < l /\ s[j].kind = "ir" /\ ~s[j].comment /\ s[j].of = name
    BY <1>4, <2>1 DEF Preceded
  <2>3. PICK i \in 1..p : j \in {at[i].guard, at[i].ir, at[i].insert, at[i].end}
    BY <1>1, <2>2
  <2>4. s[at[i].guard].kind = "if" /\ s[at[i].insert].kind = "insert" /\ s[at[i].end].kind = "endif"
    BY <1>1 DEF Block
  <2>5. j = at[i].ir
    BY <2>2, <2>3, <2>4
  <2> QED
    BY <1>1, <2>2, <2>5
<1>6. ASSUME NEW i \in 1..p, NEW seed \in M[i].seeds
      PROVE  \E l \in 1..Len(s) : IsSeed(s[l]) /\ s[l].of = seed /\ l < at[i].ir
  <2>1. at[i].ir \in Positions(s, Name(M[i]))
    <3>1. s[at[i].ir].kind = "ir" /\ at[i].ir \in 1..Len(s)
      BY <1>1 DEF Block
    <3>2. ~s[at[i].ir].comment
      <4> DEFINE g == at[i].guard
                 j == at[i].ir
                 n == at[i].insert
                 e == at[i].end
      <4>1. g \in Nat /\ j \in Nat /\ n \in Nat /\ e \in Nat /\ Block(s, g, j, n, e)
        BY <1>1
      <4> HIDE DEF g, j, n, e
      <4>2. ~s[j].comment
        BY <4>1, LinesOfBlock
      <4> QED
        BY <4>2 DEF j
    <3> QED
      BY <1>1, <1>4, <3>1, <3>2 DEF Positions
  <2>2. Preceded(s, at[i].ir, "seed", seed)
    BY <1>2, <1>3, <2>1
  <2> QED
    BY <1>4, <2>2 DEF Preceded, IsSeed
<1> QED
  BY <1>5, <1>6 DEF Supplied, s

\* A session that began with k records and h0 migrations, k or one more, has h
\* migrations where lines have executed a.
Keeps(k, h0, h, a) == IF h0 = k THEN h = a ELSE h = h0 /\ a = k

\* The line of the one more is still to come.
Clear(p, at, k, h0, n) == h0 = k \/ (Follows(h0, k) /\ h0 \in 1..p /\ n < at[h0].ir)

(* One line of a session: what is there is still the first of the          *)
(* migrations and of their records, as many as the lines have come to.     *)
LEMMA LineExecuted ==
  ASSUME NEW r, NEW M, NEW p, NEW at, Fit(r, M, p, at), NEW k \in 0..p, NEW h0, NEW n \in 1..Len(r.installer),
         Clear(p, at, k, h0, n)
  PROVE  \A h, a, b, z, on : Standing(r, M, p, at, k, n - 1, a, b, z, on) /\ Keeps(k, h0, h, a) =>
            \E h2, a2, b2, z2, on2 : /\ Execute(r, Holding(M, h, b, z, on), r.installer[n]) = Holding(M, h2, b2, z2, on2)
                                     /\ Standing(r, M, p, at, k, n, a2, b2, z2, on2) /\ Keeps(k, h0, h2, a2)
<1> SUFFICES ASSUME NEW h, NEW a, NEW b, NEW z, NEW on, Standing(r, M, p, at, k, n - 1, a, b, z, on), Keeps(k, h0, h, a)
             PROVE  \E h2, a2, b2, z2, on2 :
                        /\ Execute(r, Holding(M, h, b, z, on), r.installer[n]) = Holding(M, h2, b2, z2, on2)
                        /\ Standing(r, M, p, at, k, n, a2, b2, z2, on2) /\ Keeps(k, h0, h2, a2)
  OBVIOUS
<1> DEFINE s == r.installer
           L == Len(s)
           line == s[n]
           X(d) == Execute(r, d, line)
           becomes(h2, a2, b2, z2, on2) ==
              /\ X(Holding(M, h, b, z, on)) = Holding(M, h2, b2, z2, on2)
              /\ Standing(r, M, p, at, k, n, a2, b2, z2, on2) /\ Keeps(k, h0, h2, a2)
<1>0. Shipment(r.files, M, p) /\ Layout(s, M, p, at) /\ Supplied(r, M, p, at) /\ L \in Nat
  BY DEF Fit
<1>1. p \in Nat
  BY <1>0 DEF Shipment
<1>2. /\ Arranged(L, p, at)
      /\ \A i \in 1..p : ~s[at[i].guard].comment /\ ~s[at[i].ir].comment /\ ~s[at[i].insert].comment /\ ~s[at[i].end].comment
  BY <1>0, <1>1, LayoutArranged
<1>3. /\ \A i \in 1..p : Block(s, at[i].guard, at[i].ir, at[i].insert, at[i].end)
      /\ \A i \in 1..p : s[at[i].ir].of = Name(M[i]) /\ s[at[i].insert].of = VersionOf(M[i])
      /\ \A l \in 1..L : s[l].comment \/ s[l].kind = "seed" \/ \E i \in 1..p : l \in {at[i].guard, at[i].ir, at[i].insert, at[i].end}
  BY <1>0 DEF Layout
<1>4. /\ \A l \in 1..L : IsSeed(s[l]) => \A name \in r.needs[s[l].of] : \E i \in 1..p : name = Name(M[i]) /\ at[i].ir < l
      /\ \A i \in 1..p : \A seed \in M[i].seeds : \E l \in 1..L : IsSeed(s[l]) /\ s[l].of = seed /\ l < at[i].ir
  BY <1>0 DEF Supplied
<1>5. Progress(p, at, k, n - 1, a, b, on) /\ Open(p, at, n - 1, on) /\ Provided(s, M, k, n - 1, z)
  BY DEF Standing
<1>6. a \in k..p /\ b \in k..p /\ on \in {0, 1} /\ k \in Nat /\ a \in Nat /\ b \in Nat /\ b \in 0..p
  BY <1>1, <1>5 DEF Progress
<1>7. h \in Nat /\ a <= h
  <2>1. CASE h0 = k
    BY <1>6, <2>1 DEF Keeps
  <2>2. CASE h0 # k
    BY <1>6, <2>2 DEF Keeps, Clear, Follows
  <2> QED
    BY <2>1, <2>2
<1> HIDE DEF s, L
<1>8. n \in 1..L /\ n - 1 \in Nat
  <2>1. n \in 1..L
    BY DEF L, s
  <2> QED
    BY <1>0, <2>1
<1> HIDE DEF becomes
<1>9. SUFFICES \E h2, a2, b2, z2, on2 : becomes(h2, a2, b2, z2, on2)
  BY <1>9 DEF becomes, s
<1>10. ASSUME NEW h2, NEW a2, NEW b2, NEW on2, X(Holding(M, h, b, z, on)) = Holding(M, h2, b2, z, on2),
              Progress(p, at, k, n, a2, b2, on2), Open(p, at, n, on2), Keeps(k, h0, h2, a2), ~IsSeed(line)
       PROVE  becomes(h2, a2, b2, z, on2)
  <2>1. Provided(s, M, k, n, z)
    <3>1. \A l \in 1..n : l \in 1..(n - 1) \/ l = n
      BY <1>8
    <3> QED
      BY <1>5, <1>10, <3>1 DEF Provided
  <2> QED
    BY <1>10, <2>1 DEF becomes, Standing, s
<1>11. ASSUME \A i \in 1..p : n # at[i].guard /\ n # at[i].ir /\ n # at[i].insert /\ n # at[i].end
       PROVE  /\ Progress(p, at, k, n, a, b, on)
              /\ (\A i \in 1..p : ~(at[i].guard <= n - 1 /\ n - 1 < at[i].end)) => on = 1
              /\ Open(p, at, n, on)
  <2>1. Progress(p, at, k, n, a, b, on)
    BY <1>2, <1>5, <1>8, <1>11, CommentPassed
  <2>2. \A i \in 1..p : at[i].guard \in Nat /\ at[i].end \in Nat
    BY <1>2 DEF Arranged
  <2>3. \A i \in 1..p : at[i].guard <= n - 1 /\ n - 1 < at[i].end => at[i].guard <= n /\ n < at[i].end
    BY <1>8, <1>11, <2>2
  <2> QED
    BY <1>5, <2>1, <2>3 DEF Open
<1>12. CASE line.comment
  <2>1. X(Holding(M, h, b, z, on)) = Holding(M, h, b, z, on)
    BY <1>12, CommentExecuted
  <2>2. \A i \in 1..p : n # at[i].guard /\ n # at[i].ir /\ n # at[i].insert /\ n # at[i].end
    BY <1>2, <1>12
  <2>3. Progress(p, at, k, n, a, b, on) /\ Open(p, at, n, on)
    BY <1>11, <2>2
  <2>4. ~IsSeed(line)
    BY <1>12 DEF IsSeed
  <2> QED
    BY <1>10, <2>1, <2>3, <2>4
<1>13. CASE ~line.comment /\ line.kind = "seed"
  <2>1. \A i \in 1..p : /\ s[at[i].guard].kind = "if" /\ s[at[i].ir].kind = "ir" /\ s[at[i].insert].kind = "insert"
                        /\ s[at[i].end].kind = "endif"
    BY <1>3 DEF Block
  <2>2. \A i \in 1..p : n # at[i].guard /\ n # at[i].ir /\ n # at[i].insert /\ n # at[i].end
    BY <1>13, <2>1
  <2>3. Progress(p, at, k, n, a, b, on) /\ Open(p, at, n, on)
    BY <1>11, <2>2
  <2>4. on = 1
    <3> SUFFICES ASSUME NEW i \in 1..p, at[i].guard <= n - 1, n - 1 < at[i].end PROVE FALSE
      BY <1>11, <2>2
    <3> DEFINE g == at[i].guard
               j == at[i].ir
               c == at[i].insert
               e == at[i].end
    <3>1. g \in Nat /\ j \in Nat /\ c \in Nat /\ e \in Nat
      BY <1>2 DEF Arranged
    <3>2. \A l \in g..e : s[l].comment <=> l \notin {g, j, c, e}
      BY <1>3 DEF Block
    <3>3. g <= n - 1 /\ n - 1 < e /\ n \notin {g, j, c, e}
      BY <2>2
    <3> HIDE DEF g, j, c, e
    <3>4. n \in g..e
      BY <1>8, <3>1, <3>3
    <3> QED
      BY <1>13, <3>2, <3>3, <3>4
  <2>5. IsSeed(line)
    BY <1>13 DEF IsSeed
  <2>6. Fillable(r, M, h, line.of)
    <3> SUFFICES ASSUME NEW name \in r.needs[line.of] PROVE \E i \in 1..h : name = Name(M[i])
      BY DEF Fillable
    <3>1. PICK i \in 1..p : name = Name(M[i]) /\ at[i].ir < n
      BY <1>4, <1>8, <2>5
    <3>2. at[i].ir \in Nat
      BY <1>2 DEF Arranged
    <3>3. i > k => i <= a
      BY <1>5, <1>8, <3>1, <3>2 DEF Progress
    <3>4. i \in 1..h
      BY <1>1, <1>6, <1>7, <3>3
    <3> QED
      BY <3>1, <3>4
  <2> DEFINE z2 == z \union {line.of}
  <2>7. X(Holding(M, h, b, z, 1)) = Holding(M, h, b, z2, 1)
    <3>1. ~line.comment /\ line.kind = "seed" /\ h \in Nat
      BY <1>7, <1>13
    <3> HIDE DEF line
    <3> QED
      BY ONLY <2>6, <3>1, SeedExecuted
  <2>8. Provided(s, M, k, n, z2)
    <3>1. \A l \in 1..n : l \in 1..(n - 1) \/ l = n
      BY <1>8
    <3> QED
      BY <1>5, <3>1 DEF Provided
  <2> HIDE DEF z2
  <2>9. becomes(h, a, b, z2, on)
    BY <2>3, <2>4, <2>7, <2>8 DEF becomes, Standing, s
  <2> QED
    BY <2>9
<1>14. CASE ~line.comment /\ line.kind # "seed"
  <2>1. PICK i \in 1..p : n \in {at[i].guard, at[i].ir, at[i].insert, at[i].end}
    BY <1>3, <1>8, <1>14
  <2>2. /\ s[at[i].guard].kind = "if" /\ s[at[i].ir].kind = "ir" /\ s[at[i].insert].kind = "insert"
        /\ s[at[i].end].kind = "endif" /\ s[at[i].guard].of = s[at[i].insert].of
    BY <1>3 DEF Block
  <2>3. s[at[i].ir].of = Name(M[i]) /\ s[at[i].insert].of = VersionOf(M[i])
    BY <1>3
  <2>4. ~IsSeed(line) /\ ~line.comment
    BY <1>14 DEF IsSeed
  <2>5. /\ at[i].guard \in Nat /\ at[i].ir \in Nat /\ at[i].insert \in Nat /\ at[i].end \in Nat
        /\ at[i].guard < at[i].ir /\ at[i].ir < at[i].insert /\ at[i].insert < at[i].end
    BY <1>2 DEF Arranged
  <2>6. n # at[i].end => \A x : Open(p, at, n, x)
    <3>1. n # at[i].end => at[i].guard <= n /\ n < at[i].end
      BY <1>8, <2>1, <2>5
    <3> QED
      BY <3>1 DEF Open
  <2> HIDE DEF line
  <2>7. CASE n = at[i].guard
    <3>1. line.kind = "if" /\ line.of = VersionOf(M[i])
      BY <2>2, <2>3, <2>7 DEF line
    <3>2. X(Holding(M, h, b, z, on)) = Holding(M, h, b, z, IF i > b THEN 1 ELSE 0)
      BY <1>0, <1>6, <2>4, <3>1, GuardExecuted
    <3>3. Progress(p, at, k, n, a, b, IF i > b THEN 1 ELSE 0)
      BY <1>2, <1>5, <1>6, <1>8, <2>7, GuardPassed
    <3>4. Open(p, at, n, IF i > b THEN 1 ELSE 0)
      BY <2>5, <2>6, <2>7
    <3> QED
      BY <1>10, <2>4, <3>2, <3>3, <3>4
  <2>8. CASE n = at[i].ir
    <3>1. line.kind = "ir" /\ line.of = Name(M[i])
      BY <2>2, <2>3, <2>8 DEF line
    <3>2. /\ i <= k => on = 0 /\ Progress(p, at, k, n, a, b, on)
          /\ i > k => on = 1 /\ Follows(i, a) /\ Progress(p, at, k, n, i, b, on)
      BY ONLY <1>2, <1>5, <1>6, <1>8, <2>8, InclusionPassed, ZenonT(60)
    <3>3. Open(p, at, n, on)
      BY <2>5, <2>6, <2>8
    <3>4. CASE i <= k
      <4>1. on = 0 /\ line.kind \in {"ir", "seed", "insert"}
        BY <3>1, <3>2, <3>4
      <4>2. X(Holding(M, h, b, z, 0)) = Holding(M, h, b, z, 0)
        BY <2>4, <4>1, SkippedExecuted
      <4> QED
        BY <1>10, <2>4, <3>2, <3>3, <3>4, <4>1, <4>2
    <3>5. CASE i > k
      <4>1. h0 = k
        <5> SUFFICES ASSUME h0 # k PROVE FALSE
          OBVIOUS
        <5>1. h0 = k + 1 /\ h0 \in 1..p /\ n < at[h0].ir
          BY <1>6 DEF Clear, Follows
        <5>2. h0 < i \/ h0 = i
          BY <1>1, <1>6, <3>5, <5>1
        <5>3. h0 < i => at[h0].end < at[i].guard
          BY <1>2, <5>1 DEF Arranged
        <5>4. at[h0].ir < at[h0].insert /\ at[h0].insert < at[h0].end /\ at[h0].ir \in Nat /\ at[h0].insert \in Nat /\ at[h0].end \in Nat
          BY <1>2, <5>1 DEF Arranged
        <5>5. CASE h0 = i
          BY <1>8, <2>5, <2>8, <5>1, <5>5
        <5>6. CASE h0 < i
          <6> DEFINE x == at[h0].ir
                     y == at[h0].insert
                     v == at[h0].end
                     g == at[i].guard
          <6>1. /\ x \in Nat /\ y \in Nat /\ v \in Nat /\ g \in Nat /\ n \in Nat
                /\ x < y /\ y < v /\ v < g /\ g < n /\ n < x
            BY <1>8, <2>5, <2>8, <5>1, <5>3, <5>4, <5>6
          <6> HIDE DEF x, y, v, g
          <6> QED
            BY ONLY <6>1
        <5> QED
          BY <5>2, <5>5, <5>6
      <4>2. h = a /\ Keeps(k, h0, i, i)
        BY <4>1 DEF Keeps
      <4>3. M[i].seeds \subseteq z
        <5> SUFFICES ASSUME NEW seed \in M[i].seeds PROVE seed \in z
          OBVIOUS
        <5>1. PICK l \in 1..L : IsSeed(s[l]) /\ s[l].of = seed /\ l < n
          BY <1>4, <2>8
        <5>2. l \in 1..(n - 1)
          BY <1>8, <5>1
        <5> QED
          BY <1>5, <5>1, <5>2 DEF Provided
      <4>4. X(Holding(M, a, b, z, 1)) = Holding(M, i, b, z, 1)
        BY <1>0, <1>6, <2>4, <3>1, <3>2, <3>5, <4>3, InclusionExecuted
      <4>5. on = 1 /\ Progress(p, at, k, n, i, b, on)
        BY <3>2, <3>5
      <4> QED
        BY <1>10, <2>4, <3>3, <4>2, <4>4, <4>5
    <3> QED
      BY <1>6, <3>4, <3>5
  <2>9. CASE n = at[i].insert
    <3>1. line.kind = "insert" /\ line.of = VersionOf(M[i])
      BY <2>2, <2>3, <2>9 DEF line
    <3>2. /\ i <= k => on = 0 /\ Progress(p, at, k, n, a, b, on)
          /\ i > k => on = 1 /\ Follows(i, b) /\ Progress(p, at, k, n, a, i, on)
      BY ONLY <1>2, <1>5, <1>6, <1>8, <2>9, RecordPassed, ZenonT(60)
    <3>3. Open(p, at, n, on)
      BY <2>5, <2>6, <2>9
    <3>4. CASE i <= k
      <4>1. on = 0 /\ line.kind \in {"ir", "seed", "insert"}
        BY <3>1, <3>2, <3>4
      <4>2. X(Holding(M, h, b, z, 0)) = Holding(M, h, b, z, 0)
        BY <2>4, <4>1, SkippedExecuted
      <4> QED
        BY <1>10, <2>4, <3>2, <3>3, <3>4, <4>1, <4>2
    <3>5. CASE i > k
      <4>1. X(Holding(M, h, b, z, 1)) = Holding(M, h, i, z, 1)
        BY <1>0, <1>6, <2>4, <3>1, <3>2, <3>5, RecordExecuted
      <4>2. on = 1 /\ Progress(p, at, k, n, a, i, on)
        BY <3>2, <3>5
      <4> QED
        BY <1>10, <2>4, <3>3, <4>1, <4>2
    <3> QED
      BY <1>6, <3>4, <3>5
  <2>10. CASE n = at[i].end
    <3>1. line.kind = "endif"
      BY <2>2, <2>10 DEF line
    <3>2. X(Holding(M, h, b, z, on)) = Holding(M, h, b, z, 1)
      BY <2>4, <3>1, EndExecuted
    <3>3. Progress(p, at, k, n, a, b, 1) /\ Open(p, at, n, 1)
      BY <1>2, <1>5, <1>6, <1>8, <2>10, EndPassed DEF Open
    <3> QED
      BY <1>10, <2>4, <3>2, <3>3
  <2> QED
    BY <2>1, <2>7, <2>8, <2>9, <2>10
<1> QED
  BY <1>12, <1>13, <1>14

\* A database with the first a migrations, the records of b and the seeds that
\* the migrations need.
Left(M, a, b, db) ==
    /\ db.schema = [i \in 1..a |-> Name(M[i])] /\ db.ledger = {VersionOf(M[i]) : i \in 1..b}
    /\ \A i \in 1..a : M[i].seeds \subseteq db.seeded

\* What a session that began with k records and h0 migrations has come to after
\* line n.
Reached(r, M, p, at, k, h0, db, n) ==
    \E h, a, b, z, on : /\ Session(r, db)[n] = Holding(M, h, b, z, on)
                        /\ Standing(r, M, p, at, k, n, a, b, z, on) /\ Keeps(k, h0, h, a)

(* So it is after every line of a session, up to that of the migration     *)
(* that had no record.                                                     *)
LEMMA SessionHolds ==
  ASSUME NEW r, NEW M, NEW p, NEW at, Fit(r, M, p, at), NEW k \in 0..p, NEW h0 \in Nat, NEW db, Left(M, h0, k, db),
         NEW n \in 0..Len(r.installer), Clear(p, at, k, h0, n)
  PROVE  Reached(r, M, p, at, k, h0, db, n)
<1> DEFINE L == Len(r.installer)
           holds(m) == Reached(r, M, p, at, k, h0, db, m)
           bad == {m \in 0..n : ~holds(m)}
<1>0. Shipment(r.files, M, p) /\ Layout(r.installer, M, p, at) /\ L \in Nat
  BY DEF Fit
<1>1. /\ Session(r, db)[0] = Database(db.schema, db.ledger, db.seeded)
      /\ \A m \in 1..L : Session(r, db)[m] = Execute(r, Session(r, db)[m - 1], r.installer[m])
  BY <1>0, SessionSteps
<1>2. p \in Nat
  BY <1>0 DEF Shipment
<1>3. Arranged(L, p, at)
  BY <1>0, <1>2, LayoutArranged
<1>4. \A m \in 0..n : Clear(p, at, k, h0, m)
  <2>1. h0 \in 1..p => at[h0].ir \in Nat
    BY <1>3 DEF Arranged
  <2> QED
    BY <1>0, <2>1 DEF Clear
<1>5. k <= h0 /\ k \in Nat
  BY <1>2 DEF Clear, Follows
<1>6. holds(0)
  <2>1. Session(r, db)[0] = Holding(M, h0, k, db.seeded, 1)
    BY <1>1 DEF Database, Holding, Left
  <2>2. Progress(p, at, k, 0, k, k, 1)
    <3>1. \A i \in 1..p : ~(at[i].ir <= 0) /\ ~(at[i].insert <= 0) /\ ~(at[i].guard <= 0)
      BY <1>3 DEF Arranged
    <3>2. k \in k..p /\ \A i \in 1..p : i > k => ~(i <= k)
      BY <1>2
    <3> QED
      BY <3>1, <3>2 DEF Progress
  <2>3. Provided(r.installer, M, k, 0, db.seeded)
    BY <1>5 DEF Provided, Left
  <2>4. Standing(r, M, p, at, k, 0, k, k, db.seeded, 1)
    BY <2>2, <2>3 DEF Standing, Open
  <2>5. Keeps(k, h0, h0, k)
    BY DEF Keeps
  <2> QED
    BY <2>1, <2>4, <2>5 DEF Reached
<1> HIDE DEF L
<1>7. ASSUME NEW m \in 1..n, holds(m - 1) PROVE holds(m)
  <2>1. PICK h, a, b, z, on : /\ Session(r, db)[m - 1] = Holding(M, h, b, z, on)
                              /\ Standing(r, M, p, at, k, m - 1, a, b, z, on) /\ Keeps(k, h0, h, a)
    BY <1>7 DEF Reached
  <2>2. m \in 1..Len(r.installer) /\ Clear(p, at, k, h0, m)
    BY <1>0, <1>4 DEF L
  <2>3. PICK h2, a2, b2, z2, on2 : /\ Execute(r, Holding(M, h, b, z, on), r.installer[m]) = Holding(M, h2, b2, z2, on2)
                                   /\ Standing(r, M, p, at, k, m, a2, b2, z2, on2) /\ Keeps(k, h0, h2, a2)
    BY <2>1, <2>2, LineExecuted
  <2>4. Session(r, db)[m] = Holding(M, h2, b2, z2, on2)
    BY <1>1, <2>1, <2>2, <2>3 DEF L
  <2> QED
    BY <2>3, <2>4 DEF Reached
<1> HIDE DEF holds
<1>8. bad = {}
  <2> SUFFICES ASSUME bad # {} PROVE FALSE
    OBVIOUS
  <2>0. n \in Nat
    BY <1>0 DEF L
  <2>1. PICK m \in bad : \A l \in bad : m <= l
    <3>1. bad \in SUBSET Nat
      OBVIOUS
    <3> HIDE DEF bad
    <3> QED
      BY <3>1, LeastNat
  <2>2. m \in 0..n /\ ~holds(m)
    BY <2>1
  <2>3. m # 0
    BY <1>6, <2>2
  <2>4. m \in 1..n /\ m - 1 \in 0..n /\ ~(m <= m - 1)
    BY <2>0, <2>2, <2>3
  <2>5. holds(m - 1)
    BY <2>1, <2>4
  <2> QED
    BY <1>7, <2>2, <2>4, <2>5
<1>9. holds(n)
  <2>1. n \in 0..n
    BY <1>0 DEF L
  <2> QED
    BY <1>8, <2>1
<1> QED
  BY <1>9 DEF holds

(* A session that failed stays as it was.                                  *)
LEMMA FailedStays ==
  ASSUME NEW r, NEW db, Len(r.installer) \in Nat, NEW n \in 0..Len(r.installer), Session(r, db)[n].failed
  PROVE  Install(r, db) = Session(r, db)[n]
<1> DEFINE L == Len(r.installer)
           S == Session(r, db)
           bad == {m \in n..L : S[m] # S[n]}
<1>1. \A m \in 1..L : S[m] = Execute(r, S[m - 1], r.installer[m])
  BY SessionSteps
<1>2. n \in 0..L /\ L \in Nat /\ S[n].failed
  OBVIOUS
<1> HIDE DEF L, S
<1>3. bad = {}
  <2> SUFFICES ASSUME bad # {} PROVE FALSE
    OBVIOUS
  <2>1. PICK m \in bad : \A l \in bad : m <= l
    <3>1. bad \in SUBSET Nat
      BY <1>2
    <3> HIDE DEF bad
    <3> QED
      BY <3>1, LeastNat
  <2>2. m \in n..L /\ S[m] # S[n]
    BY <2>1
  <2>3. m # n /\ m \in 1..L /\ m - 1 \in n..L /\ ~(m <= m - 1)
    BY <1>2, <2>2
  <2>4. S[m - 1] = S[n]
    BY <2>1, <2>3
  <2>5. S[m] = Execute(r, S[n], r.installer[m])
    BY <1>1, <2>3, <2>4
  <2> QED
    BY <1>2, <2>2, <2>5 DEF Execute
<1>4. S[L] = S[n]
  BY <1>2, <1>3
<1> QED
  BY <1>4 DEF Install, L, S

\* A cut between a migration and its record.
Between(s, n) == \E i \in 1..(n - 1) : /\ s[i].kind = "ir" /\ ~s[i].comment
                                       /\ \A j \in (i + 1)..(n - 1) : s[j].comment

(* A session that was cut off anywhere else leaves as many records as      *)
(* migrations.                                                             *)
LEMMA CutRecorded ==
  ASSUME NEW s, NEW M, NEW p \in Nat, NEW at, Layout(s, M, p, at), Len(s) \in Nat, NEW k \in Nat,
         NEW n \in 0..Len(s), NEW a, NEW b, NEW on, Progress(p, at, k, n, a, b, on), ~Between(s, n + 1)
  PROVE  a = b
<1>1. /\ Arranged(Len(s), p, at)
      /\ \A i \in 1..p : ~s[at[i].ir].comment
      /\ \A i \in 1..p, l \in Nat : at[i].ir < l /\ l < at[i].insert => s[l].comment
  BY LayoutArranged
<1>2. \A i \in 1..p : at[i].ir \in 1..Len(s) /\ at[i].insert \in 1..Len(s) /\ at[i].ir < at[i].insert
  BY <1>1 DEF Arranged
<1>3. \A i \in 1..p : s[at[i].ir].kind = "ir"
  BY DEF Layout, Block
<1>4. /\ a \in k..p /\ b \in k..p
      /\ \A i \in 1..p : i > k => (at[i].ir <= n <=> i <= a)
      /\ \A i \in 1..p : i > k => (at[i].insert <= n <=> i <= b)
  BY DEF Progress
<1>5. a \in Nat /\ b \in Nat
  BY <1>4
<1>6. ASSUME a < b PROVE FALSE
  <2>1. b \in 1..p /\ b > k /\ ~(b <= a)
    BY <1>4, <1>5, <1>6
  <2>2. at[b].insert <= n /\ ~(at[b].ir <= n)
    BY <1>4, <1>5, <2>1
  <2> QED
    BY <1>2, <2>1, <2>2
<1>7. ASSUME b < a PROVE FALSE
  <2>1. a \in 1..p /\ a > k /\ ~(a <= b)
    BY <1>4, <1>5, <1>7
  <2>2. at[a].ir <= n /\ ~(at[a].insert <= n)
    BY <1>4, <1>5, <2>1
  <2> DEFINE i == at[a].ir
  <2>3. i \in 1..Len(s) /\ i <= n /\ i \in 1..n
    BY <1>2, <2>1, <2>2
  <2>4. \A j \in (i + 1)..n : s[j].comment
    <3> SUFFICES ASSUME NEW j \in (i + 1)..n PROVE s[j].comment
      OBVIOUS
    <3> DEFINE insert == at[a].insert
    <3>1. i \in Nat /\ insert \in Nat /\ n < insert
      BY <1>2, <2>1, <2>2
    <3>2. \A l \in Nat : i < l /\ l < insert => s[l].comment
      BY <1>1, <2>1
    <3> HIDE DEF i, insert
    <3>3. j \in Nat /\ i < j /\ j < insert
      BY <3>1
    <3> QED
      BY <3>2, <3>3
  <2>5. s[i].kind = "ir" /\ ~s[i].comment
    BY <1>1, <1>3, <2>1
  <2> HIDE DEF i
  <2>6. n + 1 - 1 = n
    OBVIOUS
  <2>7. Between(s, n + 1)
    BY <2>3, <2>4, <2>5, <2>6 DEF Between
  <2> QED
    BY <2>7
<1> QED
  BY <1>5, <1>6, <1>7

(* There are as many migrations as records, or one more.                   *)
LEMMA OneAhead ==
  ASSUME NEW L, NEW p, NEW at, Arranged(L, p, at), NEW k \in Nat, NEW n \in Nat, NEW a, NEW b, NEW on,
         Progress(p, at, k, n, a, b, on)
  PROVE  a = b \/ Follows(a, b)
<1>1. /\ p \in Nat
      /\ \A i \in 1..p : /\ at[i].guard \in Nat /\ at[i].ir \in Nat /\ at[i].insert \in Nat /\ at[i].end \in Nat
                         /\ at[i].guard < at[i].ir /\ at[i].ir < at[i].insert /\ at[i].insert < at[i].end
      /\ \A i, j \in 1..p : i < j => at[i].end < at[j].guard
  BY DEF Arranged
<1>2. /\ a \in k..p /\ b \in k..p
      /\ \A i \in 1..p : i > k => (at[i].ir <= n <=> i <= a)
      /\ \A i \in 1..p : i > k => (at[i].insert <= n <=> i <= b)
  BY DEF Progress
<1>3. a \in Nat /\ b \in Nat
  BY <1>2
<1>4. ASSUME a < b PROVE FALSE
  <2>1. b \in 1..p /\ b > k /\ ~(b <= a)
    BY <1>2, <1>3, <1>4
  <2>2. at[b].insert <= n /\ ~(at[b].ir <= n)
    BY <1>2, <1>3, <2>1
  <2> QED
    BY <1>1, <2>1, <2>2
<1>5. ASSUME b + 1 < a PROVE FALSE
  <2> DEFINE c == b + 1
  <2>1. a \in 1..p /\ a > k /\ c \in 1..p /\ c > k /\ c < a /\ ~(c <= b)
    <3>1. k <= b /\ a <= p /\ k \in Nat /\ p \in Nat
      BY <1>1, <1>2
    <3> QED
      BY <1>3, <1>5, <3>1
  <2> HIDE DEF c
  <2>2. at[a].ir <= n /\ ~(at[c].insert <= n)
    BY <1>2, <1>3, <2>1
  <2>3. at[c].end < at[a].guard
    BY <1>1, <2>1
  <2> QED
    BY <1>1, <2>1, <2>2, <2>3
<1> QED
  BY <1>3, <1>4, <1>5 DEF Follows

(* What a session that was cut off leaves: only between a migration and    *)
(* its record, or in a migration that is divisible, one without a record.  *)
LEMMA CutLeaves ==
  ASSUME NEW r, NEW M, NEW p, NEW at, Fit(r, M, p, at), DOMAIN r.installer = 1..Len(r.installer), NEW k \in 0..p,
         NEW db, Left(M, k, k, db), NEW n \in 1..(Len(r.installer) + 1)
  PROVE  \E a \in 0..p, b \in 0..p : /\ Left(M, a, b, CutOff(r, db, n))
                                     /\ a = b \/ (Follows(a, b) /\ (Between(r.installer, n) \/ Divisible(r, n)))
<1> DEFINE s == r.installer
           L == Len(s)
           m == IF Divisible(r, n) THEN n ELSE n - 1
           left == CutOff(r, db, n)
<1>0. Shipment(r.files, M, p) /\ Layout(s, M, p, at) /\ Supplied(r, M, p, at) /\ L \in Nat
  BY DEF Fit
<1>1. p \in Nat /\ k \in Nat
  BY <1>0 DEF Shipment
<1>2. Arranged(L, p, at)
  BY <1>0, <1>1, LayoutArranged
<1>3. m \in 0..L /\ (~Divisible(r, n) => m = n - 1 /\ m + 1 = n)
  <2>1. Divisible(r, n) => n \in 1..L
    BY DEF Divisible
  <2> QED
    BY <1>0, <2>1
<1>4. left = Session(r, db)[m]
  BY DEF CutOff
<1> HIDE DEF s, L, m, left
<1>5. PICK h, a, b, z, on : Session(r, db)[m] = Holding(M, h, b, z, on) /\ Standing(r, M, p, at, k, m, a, b, z, on) /\ Keeps(k, k, h, a)
  <2>1. Clear(p, at, k, k, m)
    BY DEF Clear
  <2>2. Reached(r, M, p, at, k, k, db, m)
    BY <1>1, <1>3, <2>1, SessionHolds DEF L, s
  <2> QED
    BY <2>2 DEF Reached
<1>6. /\ Progress(p, at, k, m, a, b, on) /\ Provided(s, M, k, m, z) /\ left = Holding(M, a, b, z, on)
      /\ a \in 0..p /\ b \in 0..p
  <2>1. Progress(p, at, k, m, a, b, on) /\ Provided(s, M, k, m, z)
    BY <1>5 DEF Standing, s
  <2>2. left = Holding(M, a, b, z, on)
    BY <1>4, <1>5 DEF Keeps
  <2> QED
    BY <1>1, <2>1, <2>2 DEF Progress
<1>7. \A i \in 1..a : M[i].seeds \subseteq z
  <2> SUFFICES ASSUME NEW i \in 1..a, NEW seed \in M[i].seeds PROVE seed \in z
    OBVIOUS
  <2>1. i \in 1..p
    BY <1>1, <1>6
  <2>2. CASE i <= k
    <3>1. i \in 1..k
      BY <1>1, <2>2
    <3> QED
      BY <1>6, <3>1 DEF Provided
  <2>3. CASE i > k
    <3>1. at[i].ir <= m
      BY <1>6, <2>1, <2>3 DEF Progress
    <3>2. PICK l \in 1..L : IsSeed(s[l]) /\ s[l].of = seed /\ l < at[i].ir
      BY <1>0, <2>1 DEF Supplied, s, L
    <3>3. at[i].ir \in Nat
      BY <1>2, <2>1 DEF Arranged
    <3>4. l \in 1..m
      BY <1>0, <1>3, <3>1, <3>2, <3>3
    <3> QED
      BY <1>6, <3>2, <3>4 DEF Provided
  <2> QED
    BY <1>1, <2>1, <2>2, <2>3
<1>8. Left(M, a, b, left)
  <2>1. /\ left.schema = [i \in 1..a |-> Name(M[i])] /\ left.ledger = {VersionOf(M[i]) : i \in 1..b} /\ left.seeded = z
    BY <1>6 DEF Holding
  <2> QED
    BY <1>7, <2>1 DEF Left
<1>9. a = b \/ Follows(a, b)
  <2>1. m \in Nat
    BY <1>0, <1>3
  <2> QED
    BY <1>1, <1>2, <1>6, <2>1, OneAhead
<1>10. ASSUME ~Between(s, n), ~Divisible(r, n) PROVE a = b
  <2>1. ~Between(s, m + 1)
    BY <1>3, <1>10
  <2> QED
    BY <1>0, <1>1, <1>3, <1>6, <2>1, CutRecorded DEF L
<1> QED
  BY <1>6, <1>8, <1>9, <1>10 DEF left, s

(* A session that runs to its end has every migration and every record.    *)
Completed(M, p, db) ==
    /\ db.failed = FALSE /\ db.schema = [i \in 1..p |-> Name(M[i])]
    /\ db.ledger = {VersionOf(M[i]) : i \in 1..p}

LEMMA InstallEnds ==
  ASSUME NEW r, NEW M, NEW p, NEW at, Fit(r, M, p, at), NEW k \in 0..p, NEW db, Left(M, k, k, db)
  PROVE  Completed(M, p, Install(r, db))
<1> DEFINE L == Len(r.installer)
<1>0. Shipment(r.files, M, p) /\ Layout(r.installer, M, p, at) /\ L \in Nat
  BY DEF Fit
<1>1. L \in 0..L /\ Clear(p, at, k, k, L)
  BY <1>0 DEF Clear
<1>2. p \in Nat /\ k \in Nat
  BY <1>0 DEF Shipment
<1>3. PICK h, a, b, z, on : Session(r, db)[L] = Holding(M, h, b, z, on) /\ Standing(r, M, p, at, k, L, a, b, z, on) /\ Keeps(k, k, h, a)
  <2>1. Reached(r, M, p, at, k, k, db, L)
    BY <1>1, <1>2, SessionHolds
  <2> QED
    BY <2>1 DEF Reached
<1>4. Arranged(L, p, at)
  BY <1>0, <1>2, LayoutArranged
<1>5. \A i \in 1..p : at[i].ir <= L /\ at[i].insert <= L
  BY <1>4 DEF Arranged
<1>6. /\ a \in k..p /\ b \in k..p
      /\ \A i \in 1..p : i > k => i <= a
      /\ \A i \in 1..p : i > k => i <= b
  BY <1>3, <1>5 DEF Standing, Progress
<1>7. a = p /\ b = p
  <2>1. CASE k = p
    BY <1>2, <1>6, <2>1
  <2>2. CASE k # p
    <3>1. p \in 1..p /\ p > k
      BY <1>2, <2>2
    <3> QED
      BY <1>2, <1>6, <3>1
  <2> QED
    BY <2>1, <2>2
<1>8. Install(r, db) = Holding(M, p, p, z, on)
  BY <1>3, <1>7 DEF Install, Keeps
<1> QED
  BY <1>8 DEF Holding, Completed

(* A session on a migration without its record stops at it.                *)
LEMMA InstallStops ==
  ASSUME NEW r, NEW M, NEW p, NEW at, Fit(r, M, p, at), NEW h0 \in 0..p, NEW k \in 0..p, Follows(h0, k),
         NEW db, Left(M, h0, k, db)
  PROVE  Install(r, db).failed /\ Install(r, db).schema = db.schema /\ Install(r, db).ledger = db.ledger
<1> DEFINE s == r.installer
           L == Len(s)
           n == at[h0].ir
           m == n - 1
<1>0. Shipment(r.files, M, p) /\ Layout(s, M, p, at) /\ L \in Nat
  BY DEF Fit
<1>1. p \in Nat /\ k \in Nat /\ h0 \in 1..p /\ h0 \in Nat /\ h0 > k /\ h0 # k /\ h0 = k + 1
  BY <1>0 DEF Shipment, Follows
<1>2. /\ Arranged(L, p, at)
      /\ \A i \in 1..p : ~s[at[i].ir].comment
  BY <1>0, <1>1, LayoutArranged
<1>3. s[n].kind = "ir" /\ s[n].of = Name(M[h0])
  BY <1>0, <1>1 DEF Layout, Block
<1>4. n \in 1..L /\ at[h0].insert \in Nat /\ n < at[h0].insert
  BY <1>1, <1>2 DEF Arranged
<1>5. m \in 0..L /\ m + 1 = n /\ m < n
  BY <1>0, <1>4
<1> HIDE DEF s, L, n, m
<1>6. PICK h, a, b, z, on : Session(r, db)[m] = Holding(M, h, b, z, on) /\ Standing(r, M, p, at, k, m, a, b, z, on) /\ Keeps(k, h0, h, a)
  <2>1. Clear(p, at, k, h0, m)
    BY <1>1, <1>5 DEF Clear, n
  <2>2. Reached(r, M, p, at, k, h0, db, m)
    BY <1>1, <1>5, <2>1, SessionHolds DEF L, s
  <2> QED
    BY <2>2 DEF Reached
<1>7. h = h0 /\ a = k /\ Progress(p, at, k, m, a, b, on)
  BY <1>1, <1>6 DEF Keeps, Standing
<1>8. b = k
  <2>1. b \in k..p /\ (at[h0].insert <= m <=> h0 <= b)
    BY <1>1, <1>7 DEF Progress
  <2> QED
    BY <1>1, <1>0, <1>4, <1>5, <2>1
<1>9. on = 1
  <2>1. Progress(p, at, k, n - 1, a, b, on)
    BY <1>4, <1>7 DEF m
  <2>2. n = at[h0].ir
    BY DEF n
  <2>3. /\ h0 <= k => on = 0 /\ Progress(p, at, k, n, a, b, on)
        /\ h0 > k => on = 1 /\ Follows(h0, a) /\ Progress(p, at, k, n, h0, b, on)
    <3>1. k \in Nat /\ h0 \in 1..p /\ n \in 1..L /\ Arranged(L, p, at)
      BY <1>1, <1>2, <1>4
    <3>2. ASSUME NEW N, NEW q, NEW j, NEW c, q \in Nat, j \in 1..p, c \in 1..N, Arranged(N, p, at), c = at[j].ir,
                 Progress(p, at, q, c - 1, a, b, on)
          PROVE  /\ j <= q => on = 0 /\ Progress(p, at, q, c, a, b, on)
                 /\ j > q => on = 1 /\ Follows(j, a) /\ Progress(p, at, q, c, j, b, on)
      BY <3>2, InclusionPassed, SMT
    <3> QED
      BY <2>1, <2>2, <3>1, <3>2
  <2> QED
    BY <1>1, <2>3
<1>10. Session(r, db)[n] = Execute(r, Session(r, db)[m], s[n])
  <2>1. \A i \in 1..L : Session(r, db)[i] = Execute(r, Session(r, db)[i - 1], r.installer[i])
    BY <1>0, SessionSteps DEF L, s
  <2> QED
    BY <1>4, <2>1 DEF s, m
<1> DEFINE d == Holding(M, h0, k, z, 1)
           next == Execute(r, d, s[n])
<1>11. Session(r, db)[n] = next
  BY <1>6, <1>7, <1>8, <1>9, <1>10
<1>12. next.failed /\ next.schema = d.schema /\ next.ledger = d.ledger
  <2> DEFINE line == s[n]
  <2>1. ~line.comment /\ line.kind = "ir" /\ line.of = Name(M[h0]) /\ h0 \in 1..h0 /\ h0 \in Nat
    BY <1>1, <1>2, <1>3 DEF n
  <2> HIDE DEF line
  <2>2. LET e == Holding(M, h0, k, z, 1)
            then == Execute(r, e, line)
        IN  then.failed /\ then.schema = e.schema /\ then.ledger = e.ledger
    BY ONLY <2>1, InclusionStops
  <2> QED
    BY <2>2 DEF line
<1>13. d.schema = db.schema /\ d.ledger = db.ledger
  BY DEF Holding, Left
<1> HIDE DEF d, next
<1>14. Session(r, db)[n].failed
  BY <1>11, <1>12
<1>15. Install(r, db) = Session(r, db)[n]
  <2>1. n \in 0..L
    BY <1>0, <1>4
  <2> QED
    BY <1>0, <1>14, <2>1, FailedStays DEF L, s
<1> QED
  BY <1>11, <1>12, <1>13, <1>15

(* A database is recorded in full if it has as many records as migrations. *)
LEMMA FullyRecordedIf ==
  ASSUME NEW F, NEW M, NEW p, Shipment(F, M, p), NEW a \in 0..p, NEW b \in 0..p, NEW db, Left(M, a, b, db)
  PROVE  (a = b => FullyRecorded(db)) /\ (Follows(a, b) => ~FullyRecorded(db))
<1>1. p \in Nat /\ \A i \in 1..p : M[i].version # None
  BY DEF Shipment
<1>2. db.schema = [i \in 1..a |-> Name(M[i])] /\ db.ledger = {VersionOf(M[i]) : i \in 1..b}
  BY DEF Left
<1>3. \A i \in 1..a : i \in 1..p /\ db.schema[i][1] = VersionOf(M[i])
  BY <1>1, <1>2 DEF Name, VersionOf
<1>4. ASSUME a = b PROVE FullyRecorded(db)
  BY <1>2, <1>3, <1>4 DEF FullyRecorded
<1>5. ASSUME Follows(a, b), FullyRecorded(db) PROVE FALSE
  <2>1. a \in 1..a /\ a \in 1..p /\ a \notin 1..b /\ \A i \in 1..b : i \in 1..p
    BY <1>1, <1>5 DEF Follows
  <2>2. VersionOf(M[a]) \in db.ledger
    BY <1>2, <1>3, <1>5, <2>1 DEF FullyRecorded
  <2>3. PICK i \in 1..b : VersionOf(M[a]) = VersionOf(M[i])
    BY <1>2, <2>2
  <2> QED
    BY <2>1, <2>3, NamesDiffer
<1> QED
  BY <1>4, <1>5

(* The versions of a database with all its records are those the           *)
(* validation expects, in their order.                                     *)
LEMMA LedgerValidates ==
  ASSUME NEW r \in Repositories, CheckHistory(r) = {}, NEW p, Shipment(r.files, ReadMigrations(r.files), p),
         NEW db, db.ledger = {VersionOf(ReadMigrations(r.files)[i]) : i \in 1..p}
  PROVE  Validates(r, db)
<1> DEFINE M == ReadMigrations(r.files)
           S == db.ledger
           v == [i \in 1..p |-> VersionOf(M[i])]
           precedes(x, y) == x < y
           w == InOrder(S, precedes)
<1>1. /\ p \in Nat /\ DOMAIN M = 1..p /\ \A i \in 1..p : VersionOf(M[i]) \in Nat
      /\ \A i, j \in 1..p : i < j => VersionOf(M[i]) < VersionOf(M[j])
  BY DEF Shipment
<1>2. r.declared = ShippedVersions(M)
  BY AcceptedPasses
<1>3. w = [n \in 1..Cardinality(S) |-> CHOOSE x \in S : Cardinality({y \in S : y < x}) = n - 1]
  BY DEF InOrder
<1>4. S = {VersionOf(M[i]) : i \in 1..p}
  OBVIOUS
<1> HIDE DEF M, S
<1>5. r.declared = v /\ \A i \in 1..p : v[i] = VersionOf(M[i])
  BY <1>1, <1>2 DEF ShippedVersions
<1>6. v \in [1..p -> S] /\ v \in [1..p -> Int] /\ S \in SUBSET Int
  BY <1>1, <1>4
<1> HIDE DEF v, w
<1>7. Ascent(v, p, S)
  <2>1. \A x \in S : \E i \in 1..p : v[i] = x
    BY <1>4, <1>5
  <2>2. \A i, j \in 1..p : i < j => v[i] < v[j]
    BY <1>1, <1>5
  <2> QED
    BY <1>1, <1>6, <2>1, <2>2 DEF Ascent
<1>8. IsFiniteSet(S)
  BY <1>6, <1>7, AscentCounts
<1>9. Ascent(w, Cardinality(S), S)
  BY <1>3, <1>6, <1>8, AscentOf
<1>10. v = w
  BY <1>6, <1>7, <1>9, AscentUnique
<1>11. v # None
  <2>1. Seq(Int) = UNION {[1..m -> Int] : m \in Nat}
    BY SeqDef
  <2>2. v \in Seq(Int)
    BY <1>1, <1>6, <2>1
  <2> QED
    BY <2>2, RepositoriesAssumption
<1> QED
  BY <1>5, <1>10, <1>11 DEF Validates, w, S

-----------------------------------------------------------------------------
(* The order of the migrations, whatever guards them.                      *)

Fields == {"schema", "ledger", "seeded", "apply", "failed"}

(* A line applies at most the migration it includes, which was not there.  *)
LEMMA SchemaGrows ==
  ASSUME NEW r, NEW d, DOMAIN d = Fields, NEW line
  PROVE  /\ DOMAIN Execute(r, d, line) = Fields
         /\ \/ Execute(r, d, line).schema = d.schema
            \/ /\ line.kind = "ir" /\ ~line.comment /\ ~Applied(d, line.of)
               /\ Execute(r, d, line).schema = Append(d.schema, line.of)
<1> DEFINE next == Execute(r, d, line)
<1>0. \A x : /\ DOMAIN [d EXCEPT !.apply = x] = Fields /\ [d EXCEPT !.apply = x].schema = d.schema
             /\ DOMAIN [d EXCEPT !.failed = x] = Fields /\ [d EXCEPT !.failed = x].schema = d.schema
             /\ DOMAIN [d EXCEPT !.seeded = x] = Fields /\ [d EXCEPT !.seeded = x].schema = d.schema
             /\ DOMAIN [d EXCEPT !.ledger = x] = Fields /\ [d EXCEPT !.ledger = x].schema = d.schema
             /\ DOMAIN [d EXCEPT !.schema = x] = Fields /\ [d EXCEPT !.schema = x].schema = x
  BY DEF Fields
<1> DEFINE more == Append(d.schema, line.of)
<1>1. \/ next = d
      \/ \E x : next = [d EXCEPT !.apply = x]
      \/ \E x : next = [d EXCEPT !.failed = x]
      \/ \E x : next = [d EXCEPT !.seeded = x]
      \/ \E x : next = [d EXCEPT !.ledger = x]
      \/ line.kind = "ir" /\ ~line.comment /\ ~Applied(d, line.of) /\ next = [d EXCEPT !.schema = more]
  <2>1. CASE d.failed \/ line.comment
    BY <2>1 DEF Execute
  <2>2. CASE ~(d.failed \/ line.comment) /\ line.kind = "if"
    BY <2>2 DEF Execute
  <2>3. CASE ~(d.failed \/ line.comment) /\ line.kind = "endif"
    BY <2>3 DEF Execute
  <2>4. CASE ~(d.failed \/ line.comment) /\ line.kind = "ir"
    BY <2>4 DEF Execute, Applicable
  <2>5. CASE ~(d.failed \/ line.comment) /\ line.kind = "seed"
    BY <2>5 DEF Execute
  <2>6. CASE ~(d.failed \/ line.comment) /\ line.kind = "insert"
    BY <2>6 DEF Execute
  <2>7. CASE ~(d.failed \/ line.comment) /\ line.kind \notin {"if", "endif", "ir", "seed", "insert"}
    BY <2>7 DEF Execute
  <2> QED
    BY <2>1, <2>2, <2>3, <2>4, <2>5, <2>6, <2>7
<1> HIDE DEF next, more
<1>2. /\ DOMAIN next = Fields
      /\ next.schema = d.schema \/ (line.kind = "ir" /\ ~line.comment /\ ~Applied(d, line.of) /\ next.schema = more)
  BY <1>0, <1>1
<1> QED
  BY <1>2 DEF next, more

\* The migrations of a schema, in order: the first k, and later ones whose
\* lines are among the first n.
Climbs(M, p, ir, k, n, schema, c, e) ==
    /\ c \in Nat /\ k <= c /\ e \in [1..c -> 1..p] /\ schema = [x \in 1..c |-> Name(M[e[x]])]
    /\ \A x, y \in 1..c : x < y => e[x] < e[y]
    /\ \A x \in 1..c : e[x] <= k \/ ir[e[x]] <= n
    /\ \A x \in 1..k : e[x] = x

(* The next migration of a session comes after those that are there.       *)
LEMMA ClimbsOn ==
  ASSUME NEW s, NEW F, NEW M, NEW p, Shipment(F, M, p), NEW ir, Inclusion(s, M, p, ir), Len(s) \in Nat,
         NEW k \in 0..p, NEW n \in 1..Len(s), NEW d, NEW c, NEW e, Climbs(M, p, ir, k, n - 1, d.schema, c, e),
         s[n].kind = "ir", ~s[n].comment, ~Applied(d, s[n].of)
  PROVE  \E c2, e2 : Climbs(M, p, ir, k, n, Append(d.schema, s[n].of), c2, e2)
<1>1. /\ c \in Nat /\ k <= c /\ e \in [1..c -> 1..p] /\ d.schema = [x \in 1..c |-> Name(M[e[x]])]
      /\ \A x, y \in 1..c : x < y => e[x] < e[y]
      /\ \A x \in 1..c : e[x] <= k \/ ir[e[x]] <= n - 1
      /\ \A x \in 1..k : e[x] = x
  BY DEF Climbs
<1>2. /\ ir \in [1..p -> 1..Len(s)] /\ \A i \in 1..p : Positions(s, Name(M[i])) = {ir[i]}
      /\ \A i, j \in 1..p : i < j => ir[i] < ir[j]
      /\ \A l \in 1..Len(s) : s[l].kind = "ir" /\ ~s[l].comment => \E i \in 1..p : l = ir[i]
  BY DEF Inclusion
<1>3. p \in Nat /\ k \in Nat
  BY DEF Shipment
<1>4. PICK i \in 1..p : n = ir[i]
  BY <1>2
<1>5. s[n].of = Name(M[i])
  <2>1. n \in Positions(s, Name(M[i]))
    BY <1>2, <1>4
  <2> QED
    BY <2>1 DEF Positions
<1>6. i > k
  <2> SUFFICES ASSUME i <= k PROVE FALSE
    BY <1>3
  <2>1. i \in 1..k /\ i \in 1..c
    BY <1>1, <1>3
  <2>2. d.schema[i] = Name(M[i]) /\ i \in DOMAIN d.schema
    BY <1>1, <2>1
  <2> QED
    BY <1>5, <2>2 DEF Applied
<1>7. \A x \in 1..c : e[x] < i
  <2> SUFFICES ASSUME NEW x \in 1..c, ~(e[x] < i) PROVE FALSE
    OBVIOUS
  <2>1. e[x] \in 1..p /\ (e[x] <= k \/ ir[e[x]] <= n - 1)
    BY <1>1
  <2>2. ir[e[x]] <= n - 1
    BY <1>3, <1>6, <2>1
  <2>3. e[x] = i \/ i < e[x]
    BY <1>3, <2>1
  <2>4. ir[e[x]] \in Nat /\ n \in Nat
    BY <1>2, <2>1
  <2> QED
    BY <1>2, <1>4, <2>1, <2>2, <2>3, <2>4
<1> DEFINE c2 == c + 1
           e2 == [x \in 1..c2 |-> IF x = c2 THEN i ELSE e[x]]
           t == Append(d.schema, s[n].of)
<1>8. /\ c2 \in Nat /\ k <= c2 /\ e2 \in [1..c2 -> 1..p] /\ e2[c2] = i /\ c2 \in 1..c2
      /\ \A x \in 1..c : e2[x] = e[x] /\ x \in 1..c2 /\ x # c2
      /\ \A x \in 1..c2 : x \in 1..c \/ x = c2
  BY <1>1, <1>3
<1>9. t = [x \in 1..c2 |-> Name(M[e2[x]])]
  <2> DEFINE N == [x \in 1..c2 |-> M[e2[x]]]
  <2>1. \A x \in 1..c2 : N[x] = M[e2[x]]
    OBVIOUS
  <2> HIDE DEF N, c2, e2
  <2>2. Append([x \in 1..c |-> Name(N[x])], Name(N[c + 1])) = [x \in 1..(c + 1) |-> Name(N[x])]
    BY <1>1, NamesAppended
  <2>3. d.schema = [x \in 1..c |-> Name(N[x])]
    BY <1>1, <1>8, <2>1
  <2>4. s[n].of = Name(N[c2])
    BY <1>5, <1>8, <2>1
  <2>5. [x \in 1..c2 |-> Name(N[x])] = [x \in 1..c2 |-> Name(M[e2[x]])]
    BY <2>1
  <2> QED
    BY <2>2, <2>3, <2>4, <2>5 DEF c2
<1> HIDE DEF c2, e2, t
<1>10. \A x, y \in 1..c2 : x < y => e2[x] < e2[y]
  <2> SUFFICES ASSUME NEW x \in 1..c2, NEW y \in 1..c2, x < y PROVE e2[x] < e2[y]
    OBVIOUS
  <2>1. c \in Nat /\ c2 \in Nat /\ c2 = c + 1 /\ (x \in 1..c \/ x = c2)
    BY <1>1, <1>8 DEF c2
  <2>2. x \in 1..c /\ (y \in 1..c \/ y = c2)
    BY <1>8, <2>1
  <2>3. CASE y \in 1..c
    BY <1>1, <1>8, <2>2, <2>3
  <2>4. CASE y = c2
    BY <1>7, <1>8, <2>2, <2>4
  <2> QED
    BY <2>2, <2>3, <2>4
<1>11. \A x \in 1..c2 : e2[x] <= k \/ ir[e2[x]] <= n
  <2> SUFFICES ASSUME NEW x \in 1..c2 PROVE e2[x] <= k \/ ir[e2[x]] <= n
    OBVIOUS
  <2>1. CASE x = c2
    BY <1>4, <1>8, <2>1
  <2>2. CASE x \in 1..c
    <3>1. e[x] \in 1..p /\ e2[x] = e[x]
      BY <1>1, <1>8, <2>2
    <3>2. ir[e[x]] \in Nat /\ n \in Nat
      BY <1>2, <3>1
    <3> QED
      BY <1>1, <2>2, <3>1, <3>2
  <2> QED
    BY <1>8, <2>1, <2>2
<1>12. \A x \in 1..k : e2[x] = x
  BY <1>1, <1>3, <1>8
<1>13. Climbs(M, p, ir, k, n, t, c2, e2)
  BY <1>8, <1>9, <1>10, <1>11, <1>12 DEF Climbs
<1> QED
  BY <1>13 DEF t

(* So it is after every line of a session that began with k migrations.    *)
LEMMA SessionClimbs ==
  ASSUME NEW r, NEW M, NEW p, Shipment(r.files, M, p), NEW ir, Inclusion(r.installer, M, p, ir), Len(r.installer) \in Nat,
         NEW k \in 0..p, NEW db, Left(M, k, k, db), NEW n \in 0..Len(r.installer)
  PROVE  \E c, e : Climbs(M, p, ir, k, n, Session(r, db)[n].schema, c, e)
<1> DEFINE L == Len(r.installer)
           S == Session(r, db)
           holds(m) == DOMAIN S[m] = Fields /\ \E c, e : Climbs(M, p, ir, k, m, S[m].schema, c, e)
           bad == {m \in 0..L : ~holds(m)}
<1>1. /\ S[0] = Database(db.schema, db.ledger, db.seeded)
      /\ \A m \in 1..L : S[m] = Execute(r, S[m - 1], r.installer[m])
  BY SessionSteps
<1>2. p \in Nat /\ k \in Nat
  BY DEF Shipment
<1> HIDE DEF S
<1>3. holds(0)
  <2>1. DOMAIN S[0] = Fields /\ S[0].schema = [x \in 1..k |-> Name(M[x])]
    BY <1>1 DEF Database, Fields, Left
  <2> DEFINE e == [x \in 1..k |-> x]
  <2>2. e \in [1..k -> 1..p] /\ \A x \in 1..k : e[x] = x
    BY <1>2
  <2>3. [x \in 1..k |-> Name(M[x])] = [x \in 1..k |-> Name(M[e[x]])]
    BY <2>2
  <2> HIDE DEF e
  <2>4. Climbs(M, p, ir, k, 0, S[0].schema, k, e)
    BY <1>2, <2>1, <2>2, <2>3 DEF Climbs
  <2> QED
    BY <2>1, <2>4
<1>4. ASSUME NEW m \in 1..L, holds(m - 1) PROVE holds(m)
  <2> DEFINE d == S[m - 1]
             line == r.installer[m]
  <2>1. PICK c, e : Climbs(M, p, ir, k, m - 1, d.schema, c, e)
    BY <1>4
  <2>2. DOMAIN d = Fields /\ S[m] = Execute(r, d, line)
    BY <1>1, <1>4
  <2>3. /\ DOMAIN S[m] = Fields
        /\ \/ S[m].schema = d.schema
           \/ line.kind = "ir" /\ ~line.comment /\ ~Applied(d, line.of) /\ S[m].schema = Append(d.schema, line.of)
    <3> HIDE DEF d, line
    <3> DEFINE next == Execute(r, d, line)
    <3>1. /\ DOMAIN next = Fields
          /\ \/ next.schema = d.schema
             \/ line.kind = "ir" /\ ~line.comment /\ ~Applied(d, line.of) /\ next.schema = Append(d.schema, line.of)
      BY <2>2, SchemaGrows
    <3>2. S[m] = next
      BY <2>2
    <3> HIDE DEF next
    <3> QED
      BY <3>1, <3>2
  <2>4. CASE S[m].schema = d.schema
    <3>1. \A x \in 1..c : e[x] <= k \/ ir[e[x]] <= m
      <4> SUFFICES ASSUME NEW x \in 1..c PROVE e[x] <= k \/ ir[e[x]] <= m
        OBVIOUS
      <4>1. e[x] \in 1..p /\ (e[x] <= k \/ ir[e[x]] <= m - 1)
        BY <2>1 DEF Climbs
      <4>2. ir[e[x]] \in Nat
        BY <4>1 DEF Inclusion
      <4> QED
        BY <4>1, <4>2
    <3>2. Climbs(M, p, ir, k, m, d.schema, c, e)
      BY <2>1, <3>1 DEF Climbs
    <3> QED
      BY <2>3, <2>4, <3>2
  <2>5. CASE S[m].schema # d.schema
    <3>1. line.kind = "ir" /\ ~line.comment /\ ~Applied(d, line.of) /\ S[m].schema = Append(d.schema, line.of)
      BY <2>3, <2>5
    <3> HIDE DEF d
    <3>2. \E c2, e2 : Climbs(M, p, ir, k, m, Append(d.schema, line.of), c2, e2)
      BY <2>1, <3>1, ClimbsOn
    <3> QED
      BY <2>3, <3>1, <3>2
  <2> QED
    BY <2>4, <2>5
<1> HIDE DEF L, holds
<1>5. bad = {}
  <2> SUFFICES ASSUME bad # {} PROVE FALSE
    OBVIOUS
  <2>0. L \in Nat
    BY DEF L
  <2>1. PICK m \in bad : \A l \in bad : m <= l
    <3>1. bad \in SUBSET Nat
      OBVIOUS
    <3> HIDE DEF bad
    <3> QED
      BY <3>1, LeastNat
  <2>2. m \in 0..L /\ ~holds(m)
    BY <2>1
  <2>3. m # 0
    BY <1>3, <2>2
  <2>4. m \in 1..L /\ m - 1 \in 0..L /\ ~(m <= m - 1)
    BY <2>0, <2>2, <2>3
  <2>5. holds(m - 1)
    BY <2>1, <2>4
  <2> QED
    BY <1>4, <2>2, <2>4, <2>5
<1> QED
  BY <1>5 DEF L, holds, S

(* A session of any accepted installer applies migrations in the order of  *)
(* their versions.                                                         *)
LEMMA InOrderOfVersions ==
  ASSUME NEW r \in Repositories, CheckHistory(r) = {}, NEW M, M = ReadMigrations(r.files), NEW p, Shipment(r.files, M, p),
         NEW k \in 0..p, NEW db, Left(M, k, k, db), NEW n \in 1..(Len(r.installer) + 1)
  PROVE  LET left == CutOff(r, db, n)
         IN  \A i, j \in DOMAIN left.schema : i < j => left.schema[i][1] < left.schema[j][1]
<1> DEFINE left == CutOff(r, db, n)
           L == Len(r.installer)
           m == IF Divisible(r, n) THEN n ELSE n - 1
<1>1. L \in Nat /\ DOMAIN r.installer = 1..L
  BY RepositoriesAssumption
<1>2. /\ p \in Nat /\ DOMAIN M = 1..p /\ \A i \in 1..p : M[i].version # None /\ VersionOf(M[i]) \in Nat
      /\ \A i, j \in 1..p : i < j => VersionOf(M[i]) < VersionOf(M[j])
  BY DEF Shipment
<1>3. m \in 0..L /\ left = Session(r, db)[m]
  <2>1. Divisible(r, n) => n \in 1..L
    BY <1>1 DEF Divisible
  <2> QED
    BY <1>1, <2>1 DEF CutOff
<1> HIDE DEF m, L
<1>4. PICK ir : Inclusion(r.installer, M, p, ir)
  <2>1. CheckIncludes(M, r.installer) = {}
    BY AcceptedPasses
  <2> QED
    BY <1>1, <1>2, <2>1, IncludedInOrder DEF L
<1>5. PICK c, e : Climbs(M, p, ir, k, m, left.schema, c, e)
  BY <1>1, <1>3, <1>4, SessionClimbs DEF L
<1> HIDE DEF left
<1>6. /\ e \in [1..c -> 1..p] /\ left.schema = [x \in 1..c |-> Name(M[e[x]])]
      /\ \A x, y \in 1..c : x < y => e[x] < e[y]
  BY <1>5 DEF Climbs
<1>7. \A x \in 1..c : e[x] \in 1..p /\ left.schema[x][1] = VersionOf(M[e[x]])
  BY <1>2, <1>6 DEF Name, VersionOf
<1>8. \A i, j \in DOMAIN left.schema : i < j => left.schema[i][1] < left.schema[j][1]
  BY <1>2, <1>6, <1>7
<1> QED
  BY <1>8 DEF left



(* The first k names of all.                                               *)
LEMMA NamesTaken ==
  ASSUME NEW M, NEW p \in Nat, NEW names, names = [i \in 1..p |-> Name(M[i])]
  PROVE  /\ Len(names) = p
         /\ \A k \in 0..p : SubSeq(names, 1, k) = [i \in 1..k |-> Name(M[i])]
<1> DEFINE S == {names[i] : i \in 1..p}
<1>1. names \in [1..p -> S] /\ \A i \in 1..p : names[i] = Name(M[i]) /\ names[i] \in S
  OBVIOUS
<1> HIDE DEF S
<1>2. Len(names) = p
  BY <1>1, LengthOf
<1>3. ASSUME NEW k \in 0..p PROVE SubSeq(names, 1, k) = [i \in 1..k |-> Name(M[i])]
  <2> DEFINE t == SubSeq(names, 1, k)
  <2>1. 1 \in Int /\ k \in Int /\ k \in Nat /\ \A i \in 1..k : names[i] \in S
    BY <1>1
  <2>2. /\ t \in Seq(S)
        /\ Len(t) = IF 1 <= k THEN k - 1 + 1 ELSE 0
        /\ \A i \in 1..(k - 1 + 1) : t[i] = names[1 + i - 1]
    BY <2>1, SubSeqProperties
  <2> HIDE DEF t
  <2>3. Len(t) = k
    BY <2>1, <2>2
  <2>4. \A i \in 1..k : t[i] = Name(M[i])
    <3> SUFFICES ASSUME NEW i \in 1..k PROVE t[i] = Name(M[i])
      OBVIOUS
    <3>1. i \in 1..(k - 1 + 1) /\ 1 + i - 1 = i /\ i \in 1..p
      OBVIOUS
    <3> QED
      BY <1>1, <2>2, <3>1
  <2>5. t \in [1..k -> S]
    BY <2>2, <2>3, LenProperties
  <2>6. t = [i \in 1..k |-> Name(M[i])]
    BY <2>4, <2>5
  <2> QED
    BY <2>6 DEF t
<1> QED
  BY <1>2, <1>3

(* The installation of an accepted history, on a release of it and after a *)
(* session that ended anywhere.                                            *)
LEMMA AcceptedInstalls ==
  ASSUME NEW r \in Repositories, CheckHistory(r) = {}, WellFormed(r), NEW M, M = ReadMigrations(r.files),
         NEW names, names = [i \in DOMAIN M |-> Name(M[i])], NEW p, Shipment(r.files, M, p), NEW k \in 0..p,
         NEW db, Left(M, k, k, db), NEW n \in 1..(Len(r.installer) + 1)
  PROVE  LET left == CutOff(r, db, n)
             next == Install(r, left)
         IN  /\ FullyRecorded(left) => ~next.failed /\ next.schema = names /\ Validates(r, next)
             /\ ~FullyRecorded(left) =>
                    /\ Between(r.installer, n) \/ Divisible(r, n)
                    /\ next.failed /\ next.schema = left.schema /\ next.ledger = left.ledger
<1> DEFINE left == CutOff(r, db, n)
           next == Install(r, left)
<1>1. Len(r.installer) \in Nat /\ DOMAIN r.installer = 1..Len(r.installer)
  BY RepositoriesAssumption
<1>2. p \in Nat /\ DOMAIN M = 1..p
  BY DEF Shipment
<1>3. Blocks(r.installer) /\ SeedsInPlace(r)
  BY DEF WellFormed
<1>4. PICK at : Layout(r.installer, M, p, at)
  BY <1>3, LaidOut
<1>5. Fit(r, M, p, at)
  BY <1>1, <1>3, <1>4, SeedsSupplied DEF Fit
<1>6. \E a \in 0..p, b \in 0..p : /\ Left(M, a, b, CutOff(r, db, n))
                                  /\ a = b \/ (Follows(a, b) /\ (Between(r.installer, n) \/ Divisible(r, n)))
  <2>1. /\ Fit(r, M, p, at) /\ DOMAIN r.installer = 1..Len(r.installer) /\ k \in 0..p /\ Left(M, k, k, db)
        /\ n \in 1..(Len(r.installer) + 1)
    BY <1>1, <1>5
  <2> QED
    BY ONLY <2>1, CutLeaves, ZenonT(60)
<1>7. PICK a \in 0..p, b \in 0..p : /\ Left(M, a, b, CutOff(r, db, n))
                                    /\ a = b \/ (Follows(a, b) /\ (Between(r.installer, n) \/ Divisible(r, n)))
  BY <1>6
<1>8. Left(M, a, b, left)
  BY <1>7
<1> HIDE DEF left
<1>9. (a = b => FullyRecorded(left)) /\ (Follows(a, b) => ~FullyRecorded(left))
  BY <1>8, FullyRecordedIf
<1> HIDE DEF next
<1>10. ASSUME FullyRecorded(left) PROVE ~next.failed /\ next.schema = names /\ Validates(r, next)
  <2>1. Left(M, a, a, left)
    BY <1>7, <1>8, <1>9, <1>10
  <2>2. /\ next.failed = FALSE /\ next.schema = [i \in 1..p |-> Name(M[i])]
        /\ next.ledger = {VersionOf(M[i]) : i \in 1..p}
    <3>1. Fit(r, M, p, at) /\ a \in 0..p /\ Left(M, a, a, left)
      BY <1>5, <1>7, <2>1
    <3>2. Completed(M, p, Install(r, left))
      BY ONLY <3>1, InstallEnds, ZenonT(60)
    <3> QED
      BY <3>2 DEF Completed, next
  <2>3. Validates(r, next)
    <3>1. \A d : d.ledger = {VersionOf(ReadMigrations(r.files)[i]) : i \in 1..p} => Validates(r, d)
      BY LedgerValidates
    <3> QED
      BY <2>2, <3>1
  <2> QED
    BY <1>2, <2>2, <2>3
<1>11. ASSUME ~FullyRecorded(left)
      PROVE  /\ Between(r.installer, n) \/ Divisible(r, n)
             /\ next.failed /\ next.schema = left.schema /\ next.ledger = left.ledger
  <2>1. Follows(a, b) /\ (Between(r.installer, n) \/ Divisible(r, n)) /\ Left(M, a, b, left)
    BY <1>7, <1>8, <1>9, <1>11
  <2>2. next.failed /\ next.schema = left.schema /\ next.ledger = left.ledger
    BY <1>5, <2>1, InstallStops DEF next
  <2> QED
    BY <2>1, <2>2
<1> QED
  BY <1>10, <1>11 DEF left, next

(* A release is a database with its migrations, records and seeds.         *)
LEMMA ReleaseLeft ==
  ASSUME NEW F, NEW M, NEW p, Shipment(F, M, p), NEW names, names = [i \in DOMAIN M |-> Name(M[i])], NEW k \in 0..Len(names),
         NEW db, db = Database(SubSeq(names, 1, k), {VersionOf(M[i]) : i \in 1..k}, UNION {M[i].seeds : i \in 1..k})
  PROVE  k \in 0..p /\ Left(M, k, k, db)
<1>1. p \in Nat /\ DOMAIN M = 1..p
  BY DEF Shipment
<1>2. names = [i \in 1..p |-> Name(M[i])]
  BY <1>1
<1>3. Len(names) = p /\ \A j \in 0..p : SubSeq(names, 1, j) = [i \in 1..j |-> Name(M[i])]
  BY <1>1, <1>2, NamesTaken
<1>4. k \in 0..p /\ SubSeq(names, 1, k) = [i \in 1..k |-> Name(M[i])]
  BY <1>1, <1>3
<1>5. /\ db.schema = SubSeq(names, 1, k) /\ db.ledger = {VersionOf(M[i]) : i \in 1..k}
      /\ db.seeded = UNION {M[i].seeds : i \in 1..k}
  BY DEF Database
<1> QED
  BY <1>4, <1>5 DEF Left

(* What the policy check guarantees of the installer: migrations in order  *)
(* whatever guards them, and if it has the form of install.sql a next      *)
(* session that completes the history or stops at the migration without a  *)
(* record (check and install.sql).                                         *)
THEOREM HistoryInstalls == Spec => []AcceptedHistoryInstalls
<1>1. ASSUME Decided, asked.kind = "history", told = {} PROVE AcceptedHistoryInstalls
  <2> DEFINE r == asked.repository
             M == ReadMigrations(r.files)
             names == [i \in DOMAIN M |-> Name(M[i])]
             release(k) == Database(SubSeq(names, 1, k), {VersionOf(M[i]) : i \in 1..k}, UNION {M[i].seeds : i \in 1..k})
             wellFormed == WellFormed(r)
             holds(left, next, n) ==
                /\ \A i, j \in DOMAIN left.schema : i < j => left.schema[i][1] < left.schema[j][1]
                /\ wellFormed =>
                    /\ FullyRecorded(left) => ~next.failed /\ next.schema = names /\ Validates(r, next)
                    /\ ~FullyRecorded(left) =>
                        /\ Between(r.installer, n) \/ Divisible(r, n)
                        /\ next.failed /\ next.schema = left.schema /\ next.ledger = left.ledger
  <2>1. r \in Repositories /\ CheckHistory(r) = {}
    BY <1>1 DEF Decided, HistoryDecided
  <2>2. ASSUME NEW k \in 0..Len(names), NEW n \in 1..(Len(r.installer) + 1)
        PROVE  holds(CutOff(r, release(k), n), Install(r, CutOff(r, release(k), n)), n)
    <3> DEFINE db == release(k)
    <3>1. M = ReadMigrations(r.files) /\ names = [i \in DOMAIN M |-> Name(M[i])]
      OBVIOUS
    <3>2. db = Database(SubSeq(names, 1, k), {VersionOf(M[i]) : i \in 1..k}, UNION {M[i].seeds : i \in 1..k})
      OBVIOUS
    <3>3. PICK p : Shipment(r.files, M, p)
      BY <2>1, VersionsIncrease
    <3> HIDE DEF r, M, names, db
    <3>4. k \in 0..p /\ Left(M, k, k, db)
      BY <2>2, <3>1, <3>2, <3>3, ReleaseLeft
    <3> DEFINE left == CutOff(r, db, n)
               next == Install(r, left)
    <3>5. \A i, j \in DOMAIN left.schema : i < j => left.schema[i][1] < left.schema[j][1]
      BY <2>1, <2>2, <3>1, <3>3, <3>4, InOrderOfVersions
    <3>6. ASSUME WellFormed(r)
          PROVE  /\ FullyRecorded(left) => ~next.failed /\ next.schema = names /\ Validates(r, next)
                 /\ ~FullyRecorded(left) =>
                        /\ Between(r.installer, n) \/ Divisible(r, n)
                        /\ next.failed /\ next.schema = left.schema /\ next.ledger = left.ledger
      BY <2>1, <2>2, <3>1, <3>3, <3>4, <3>6, AcceptedInstalls
    <3> HIDE DEF left, next
    <3>7. holds(left, next, n)
      BY <3>5, <3>6
    <3> QED
      BY <3>7 DEF left, next, db
  <2> HIDE DEF r, M, names, release, holds
  <2>3. \A k \in 0..Len(names), n \in 1..(Len(r.installer) + 1) :
            holds(CutOff(r, release(k), n), Install(r, CutOff(r, release(k), n)), n)
    BY <2>2
  <2> QED
    BY <2>3 DEF AcceptedHistoryInstalls, Between, holds, r, M, names, release
<1>2. Decided => AcceptedHistoryInstalls
  BY <1>1 DEF AcceptedHistoryInstalls
<1> QED
  BY <1>2, SpecDecided, PTL
=============================================================================
