------------------------------- MODULE Access -------------------------------
(***************************************************************************)
(* API credentials: their issuance (CredentialIssuanceService and its      *)
(* store), their verification (bearer_token, AuthenticationService and its *)
(* lookup) and the route policy enforced in front of every handler         *)
(* (Policed), over the aircraft_auth tables that operators change at any   *)
(* time.                                                                   *)
(*                                                                         *)
(* A token is a pair of the key and the secret drawn for it. SHA-256 of a  *)
(* token is the token itself: the digest identifies it. What the random    *)
(* source guarantees is the guard of Present: nobody presents a drawn      *)
(* token that was not handed out.                                          *)
(***************************************************************************)
EXTENDS Naturals, FiniteSets

CONSTANTS
    Request, Issuer,       \* HTTP requests; calls of issue
    Key, Secret,           \* what the entropy source can yield
    Principal, Enrolled,   \* principal ids a caller may name; the rows there are
    Policy,                \* the policies of the registered routes
    None

ASSUME EnrolledAssumption == Enrolled \subseteq Principal

(* RoutePolicy::required_scope and the closed vocabulary of scopes.        *)
Scope == {"CATALOG_READ", "MILITARY_READ", "CURATION_READ", "CURATION_WRITE", "ADMIN"}
RequiredScope == [Public |-> None, CatalogRead |-> "CATALOG_READ", MilitaryRead |-> "MILITARY_READ",
                  CurationRead |-> "CURATION_READ", CurationWrite |-> "CURATION_WRITE",
                  Admin |-> "ADMIN"]

ASSUME PolicyAssumption == Policy \subseteq DOMAIN RequiredScope

(* What a grant can name: the schema keeps it to the vocabulary, unless it *)
(* is written past its constraints.                                        *)
Grant == Scope \union {"outside"}

Token == Key \X Secret
KeyOf(t) == t[1]

(* What bearer_token and CredentialCandidate::parse refuse before anything *)
(* is looked up: no header or two, another scheme, a token that has not    *)
(* the length, the layout or the key of an issued one.                     *)
Unusable == {<<h>> : h \in {"absent", "repeated", "scheme", "length", "layout", "key"}}

VARIABLES
    row,        \* aircraft_auth.api_credentials: row[k] is None or a Row
    disabled,   \* principals.disabled_at is set
    scopes,     \* principal_scope_grants
    call,       \* call[i]: the progress of an issue call
    drawn,      \* history: every token whose bytes were drawn
    handed,     \* history: the clear credentials given to a caller
    stage, header, policy, record, answer,   \* of each request
    allowed, denied   \* history: authorized, not authorized, at some time since it arrived

vars == <<row, disabled, scopes, call, drawn, handed, stage, header, policy, record, answer,
          allowed, denied>>
requestVars == <<stage, header, policy, record, answer>>

Row == [principal : Enrolled, digest : Token, revoked : BOOLEAN, intact : BOOLEAN]
Idle == [at |-> "idle", token |-> None, principal |-> None]
Call == [at : {"idle", "drawn", "inserted", "issued", "refused", "lost"},
         token : Token \union {None}, principal : Principal \union {None}]
Record == [found : BOOLEAN, digest : Token \union {None}, revoked : BOOLEAN,
           disabled : BOOLEAN, principal : Enrolled \union {None}, scopes : SUBSET Scope]
Answer == {"401", "403", "429", "500", "503", "served"}

ASSUME NoneAssumption == None \notin Row \union Record \union Answer

TypeOK ==
    /\ row \in [Key -> Row \union {None}]
    /\ disabled \in [Enrolled -> BOOLEAN]
    /\ scopes \in [Enrolled -> SUBSET Grant]
    /\ call \in [Issuer -> Call]
    /\ drawn \subseteq Token /\ handed \subseteq drawn
    /\ stage \in [Request -> {"idle", "policed", "lookup", "judge", "handler", "done"}]
    /\ header \in [Request -> Unusable \union Token \union {None}]
    /\ policy \in [Request -> Policy \union {None}]
    /\ record \in [Request -> Record \union {None}]
    /\ answer \in [Request -> Answer \union {None}]
    /\ allowed \in [Request -> BOOLEAN] /\ denied \in [Request -> BOOLEAN]

Init ==
    /\ row = [k \in Key |-> None]
    /\ disabled = [p \in Enrolled |-> FALSE]
    /\ scopes = [p \in Enrolled |-> {"CATALOG_READ"}]
    /\ call = [i \in Issuer |-> Idle]
    /\ drawn = {} /\ handed = {}
    /\ stage = [r \in Request |-> "idle"]
    /\ header = [r \in Request |-> None]
    /\ policy = [r \in Request |-> None]
    /\ record = [r \in Request |-> None]
    /\ answer = [r \in Request |-> None]
    /\ allowed = [r \in Request |-> FALSE] /\ denied = [r \in Request |-> FALSE]

-----------------------------------------------------------------------------
(* What the tables say of a request at one instant.                        *)

Live(t) ==
    /\ row[KeyOf(t)] # None /\ row[KeyOf(t)].digest = t /\ ~row[KeyOf(t)].revoked
    /\ ~disabled[row[KeyOf(t)].principal]

Authorized(r) ==
    \/ RequiredScope[policy[r]] = None
    \/ /\ header[r] \in Token /\ Live(header[r])
       /\ RequiredScope[policy[r]] \in scopes[row[KeyOf(header[r])].principal]

Waiting(r) == stage[r] \in {"policed", "lookup", "judge", "handler"}

\* Every change of the tables, and an arrival, is seen by the requests.
Observe ==
    /\ allowed' = [r \in Request |-> allowed[r] \/ (Waiting(r)' /\ Authorized(r)')]
    /\ denied' = [r \in Request |-> denied[r] \/ (Waiting(r)' /\ ~Authorized(r)')]

-----------------------------------------------------------------------------
(* Issuance: IssueCredential::new has accepted the principal id and the    *)
(* label before issue is called.                                           *)

\* issue: two reads of the random source, then the token and its digest.
Draw(i) ==
    /\ call[i].at = "idle"
    /\ \E p \in Principal :
           \/ \E t \in Token :
                /\ call' = [call EXCEPT ![i] = [at |-> "drawn", token |-> t, principal |-> p]]
                /\ drawn' = drawn \union {t}
           \/ /\ call' = [call EXCEPT ![i] = [at |-> "refused", token |-> None, principal |-> p]]
              /\ UNCHANGED drawn
    /\ UNCHANGED <<row, disabled, scopes, handed, requestVars, allowed, denied>>

(* persist's INSERT, in a transaction.  The primary key and the foreign    *)
(* key refuse it; a unique check waits for another transaction that holds  *)
(* the key, and so does this step.                                         *)
Insert(i) ==
    /\ call[i].at = "drawn"
    /\ \A j \in Issuer \ {i} : call[j].at = "inserted" => KeyOf(call[j].token) # KeyOf(call[i].token)
    /\ \/ /\ row[KeyOf(call[i].token)] = None /\ call[i].principal \in Enrolled
          /\ call' = [call EXCEPT ![i].at = "inserted"]
       \/ call' = [call EXCEPT ![i].at = "refused"]   \* a constraint, or the database fails
    /\ UNCHANGED <<row, disabled, scopes, drawn, handed, requestVars, allowed, denied>>

\* What COMMIT makes durable.
Stored(i) == [row EXCEPT ![KeyOf(call[i].token)] =
                [principal |-> call[i].principal, digest |-> call[i].token,
                 revoked |-> FALSE, intact |-> TRUE]]

\* Fault: the clear credential is returned whether or not the commit failed.
Commit_ignoringTheResult(i) ==
    /\ call[i].at = "inserted"
    /\ call' = [call EXCEPT ![i].at = "issued"]
    /\ handed' = handed \union {call[i].token}
    /\ row' = Stored(i) \/ UNCHANGED row
    /\ UNCHANGED <<disabled, scopes, drawn, requestVars>>
    /\ Observe

\* persist commits a row that decoded and issue hands the clear credential
\* out; a failed decode or commit rolls back; and the answer to a commit that
\* took effect can be lost, which issue reports as a failure.
Commit(i) ==
    /\ call[i].at = "inserted"
    /\ \/ /\ row' = Stored(i)
          /\ call' = [call EXCEPT ![i].at = "issued"]
          /\ handed' = handed \union {call[i].token}
       \/ /\ call' = [call EXCEPT ![i].at = "refused"]
          /\ UNCHANGED <<row, handed>>
       \/ /\ row' = Stored(i)
          /\ call' = [call EXCEPT ![i].at = "lost"]
          /\ UNCHANGED handed
    /\ UNCHANGED <<disabled, scopes, drawn, requestVars>>
    /\ Observe

-----------------------------------------------------------------------------
(* Operators work on the tables themselves.                                *)

Revoke(k) ==
    /\ row[k] # None /\ ~row[k].revoked
    /\ row' = [row EXCEPT ![k].revoked = TRUE]
    /\ UNCHANGED <<disabled, scopes>>

Disable(p) ==
    /\ disabled' = [disabled EXCEPT ![p] = ~@]
    /\ UNCHANGED <<row, scopes>>

\* A grant is one of the vocabulary, or one the schema forbids.
Regrant(p) ==
    /\ \E s \in SUBSET {"CATALOG_READ", "ADMIN", "outside"} :
           s # scopes[p] /\ scopes' = [scopes EXCEPT ![p] = s]
    /\ UNCHANGED <<row, disabled>>

\* A digest the schema forbids, written past its constraints.
Damage(k) ==
    /\ row[k] # None /\ row[k].intact
    /\ row' = [row EXCEPT ![k].intact = FALSE]
    /\ UNCHANGED <<disabled, scopes>>

Operate ==
    /\ (\E k \in Key : Revoke(k) \/ Damage(k)) \/ (\E p \in Enrolled : Disable(p) \/ Regrant(p))
    /\ UNCHANGED <<call, drawn, handed, requestVars>>
    /\ Observe

-----------------------------------------------------------------------------
(* Requests.                                                               *)

Moves(r, s) == stage' = [stage EXCEPT ![r] = s] /\ UNCHANGED <<header, policy, answer>>

\* The answer is given and the request, with what was read for it, is dropped.
Says(r, a) ==
    /\ stage' = [stage EXCEPT ![r] = "done"]
    /\ answer' = [answer EXCEPT ![r] = a]
    /\ header' = [header EXCEPT ![r] = None]
    /\ policy' = [policy EXCEPT ![r] = None]

\* A request reaches Policed with some header on some route.
Present(r) ==
    /\ stage[r] = "idle"
    /\ \E h \in Unusable \union {t \in Token : t \in handed \/ t \notin drawn}, q \in Policy :
           header' = [header EXCEPT ![r] = h] /\ policy' = [policy EXCEPT ![r] = q]
    /\ stage' = [stage EXCEPT ![r] = "policed"]
    /\ UNCHANGED <<row, disabled, scopes, call, drawn, handed, record, answer>>
    /\ Observe

\* Policed, up to the lookup: a public route needs no credential, a header
\* that is not one issued token is refused without a lookup.
Authenticate(r) ==
    /\ stage[r] = "policed"
    /\ \/ RequiredScope[policy[r]] = None /\ Moves(r, "handler")
       \/ RequiredScope[policy[r]] # None /\ header[r] \in Unusable /\ Says(r, "401")
       \/ RequiredScope[policy[r]] # None /\ header[r] \in Token /\ Moves(r, "lookup")
    /\ UNCHANGED <<row, disabled, scopes, call, drawn, handed, record, allowed, denied>>

NoRow == [found |-> FALSE, digest |-> None, revoked |-> FALSE, disabled |-> FALSE,
          principal |-> None, scopes |-> {}]

\* record_from_row over the verification projection: every fact as of one
\* statement.
Projection(k) ==
    IF row[k] = None THEN NoRow
    ELSE [found |-> TRUE, digest |-> row[k].digest, revoked |-> row[k].revoked,
          disabled |-> disabled[row[k].principal], principal |-> row[k].principal,
          scopes |-> scopes[row[k].principal]]

\* Fault: a lookup that fails is taken for one that finds nothing.
Resolve_failureIsNoRow(r) ==
    /\ stage[r] = "lookup"
    /\ record' = [record EXCEPT ![r] = NoRow]
    /\ Moves(r, "judge")
    /\ UNCHANGED <<row, disabled, scopes, call, drawn, handed, allowed, denied>>

\* What the verification projection can represent: a digest of its length,
\* and for every credential of a principal grants of the vocabulary only.
Readable(k) == row[k].intact /\ scopes[row[k].principal] \subseteq Scope

\* SqlxCredentialLookup::resolve: the statement fails, or returns what the
\* schema forbids, or its projection.
Resolve(r) ==
    /\ stage[r] = "lookup"
    /\ LET k == KeyOf(header[r])
       IN  \/ Says(r, "503") /\ UNCHANGED record
           \/ /\ row[k] # None /\ ~Readable(k)
              /\ Says(r, "500") /\ UNCHANGED record
           \/ /\ row[k] # None => Readable(k)
              /\ record' = [record EXCEPT ![r] = Projection(k)] /\ Moves(r, "judge")
    /\ UNCHANGED <<row, disabled, scopes, call, drawn, handed, allowed, denied>>

\* Fault: the grants are compared before anything is said of revocation.
Accepted_unrevoked(r) ==
    record[r].found /\ record[r].digest = header[r] /\ ~record[r].disabled

\* AuthenticationService::authenticate: the comparison, then the flags.
Accepted(r) ==
    /\ record[r].found /\ record[r].digest = header[r]
    /\ ~record[r].revoked /\ ~record[r].disabled

\* The effective scopes are the principal's grants.
Permitted(r) == RequiredScope[policy[r]] \in record[r].scopes

\* Policed, after the lookup: reject, spend a token of the rate limit (or be
\* refused for want of one, or of a bucket), and only then compare the scope.
Judge(r) ==
    /\ stage[r] = "judge"
    /\ \/ ~Accepted(r) /\ Says(r, "401")
       \/ Accepted(r) /\ (Says(r, "429") \/ Says(r, "503"))
       \/ Accepted(r) /\ ~Permitted(r) /\ Says(r, "403")
       \/ Accepted(r) /\ Permitted(r) /\ Moves(r, "handler")
    /\ record' = [record EXCEPT ![r] = None]
    /\ UNCHANGED <<row, disabled, scopes, call, drawn, handed, allowed, denied>>

Handle(r) ==
    /\ stage[r] = "handler"
    /\ Says(r, "served")
    /\ UNCHANGED <<row, disabled, scopes, call, drawn, handed, record, allowed, denied>>

-----------------------------------------------------------------------------
Next ==
    \/ \E i \in Issuer : Draw(i) \/ Insert(i) \/ Commit(i)
    \/ Operate
    \/ \E r \in Request : Present(r) \/ Authenticate(r) \/ Resolve(r) \/ Judge(r) \/ Handle(r)

Spec == Init /\ [][Next]_vars

-----------------------------------------------------------------------------
(* Properties.                                                             *)

\* A handler behind a scope runs only for a request that was authorized at
\* one instant since it arrived: a live credential, its principal enabled and
\* the scope granted, all at once, whatever operators change meanwhile.
ServedIsAuthorized == \A r \in Request : answer[r] = "served" => allowed[r]

\* A caller is told 401 or 403 only if, at some instant since its request
\* arrived, it was not authorized: a database failure, a damaged row or a
\* spent quota is never blamed on the credential.
RefusalHasCause == \A r \in Request : answer[r] \in {"401", "403"} => denied[r]

\* A clear credential in a caller's hands has its row, with its digest and the
\* principal it was asked for; so a key is never handed out twice.
HandedIsStored ==
    \A i \in Issuer : call[i].at = "issued" =>
        /\ row[KeyOf(call[i].token)] # None
        /\ row[KeyOf(call[i].token)].digest = call[i].token
        /\ row[KeyOf(call[i].token)].principal = call[i].principal

-----------------------------------------------------------------------------
(* The inductive invariant behind the properties.                          *)

\* The history of a request that still waits covers the tables as they are.
Witnessed ==
    \A r \in Request : Waiting(r) =>
        /\ policy[r] \in Policy
        /\ Authorized(r) => allowed[r]
        /\ ~Authorized(r) => denied[r]

\* The projection a request carries to its judgement was true of the tables
\* at one instant, whatever they say by now; so is what let it pass.
JudgementIsWitnessed ==
    \A r \in Request :
        /\ stage[r] \in {"lookup", "judge"} =>
              header[r] \in Token /\ RequiredScope[policy[r]] # None
        /\ stage[r] = "judge" =>
              /\ record[r] # None
              /\ Accepted(r) /\ Permitted(r) => allowed[r]
              /\ ~(Accepted(r) /\ Permitted(r)) => denied[r]
        /\ stage[r] = "handler" => allowed[r]

\* A transaction that inserted a key has it to itself until it ends.
InsertedIsExclusive ==
    \A i \in Issuer :
        /\ call[i].at \in {"drawn", "inserted", "issued"} => call[i].token \in drawn
        /\ call[i].at = "inserted" =>
              /\ call[i].principal \in Enrolled
              /\ row[KeyOf(call[i].token)] = None
              /\ \A j \in Issuer \ {i} : call[j].at = "inserted" =>
                     KeyOf(call[j].token) # KeyOf(call[i].token)

AccessInv ==
    /\ TypeOK
    /\ Witnessed
    /\ JudgementIsWitnessed
    /\ InsertedIsExclusive
    /\ ServedIsAuthorized
    /\ RefusalHasCause
    /\ HandedIsStored
=============================================================================
