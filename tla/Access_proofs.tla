---------------------------- MODULE Access_proofs ----------------------------
(***************************************************************************)
(* Proofs about Access, for every number of requests, issue calls, keys,   *)
(* secrets, principals and policies.                                       *)
(*                                                                         *)
(* AccessInv is inductive.  Its heart is that a request carries a          *)
(* projection of the tables from the lookup to the judgement: by then the  *)
(* tables may say otherwise, and what makes the answer right is that they  *)
(* said so at one instant since the request arrived.                       *)
(***************************************************************************)
EXTENDS Access, TLAPS

(* A header that parses no further is not a token, whatever keys and       *)
(* secrets are.                                                            *)
LEMMA UnusableIsNoToken == \A h \in Unusable : h \notin Token
  BY DEF Unusable, Token

(* Empty tables and idle callers satisfy the invariant.                    *)
LEMMA AccessInit == Init => AccessInv
<1> SUFFICES ASSUME Init PROVE AccessInv
  OBVIOUS
<1> USE DEF Init
<1>1. TypeOK
  BY DEF TypeOK, Call, Idle, Scope, Grant
<1>2. Witnessed /\ JudgementIsWitnessed
  BY DEF Witnessed, JudgementIsWitnessed, Waiting
<1>3. InsertedIsExclusive /\ HandedIsStored
  BY DEF InsertedIsExclusive, HandedIsStored, Idle
<1>4. ServedIsAuthorized /\ RefusalHasCause
  BY NoneAssumption DEF ServedIsAuthorized, RefusalHasCause, Answer
<1> QED
  BY <1>1, <1>2, <1>3, <1>4 DEF AccessInv

-----------------------------------------------------------------------------
(* Whatever changes the tables brings the histories up to date, and keeps  *)
(* what they hold already.                                                 *)
LEMMA ObserveWitnesses ==
  ASSUME TypeOK, Observe
  PROVE  \A r \in Request :
           /\ allowed'[r] \in BOOLEAN /\ denied'[r] \in BOOLEAN
           /\ allowed[r] => allowed'[r]
           /\ denied[r] => denied'[r]
           /\ Waiting(r)' /\ Authorized(r)' => allowed'[r]
           /\ Waiting(r)' /\ ~Authorized(r)' => denied'[r]
  BY DEF TypeOK, Observe

(* A step that leaves the tables, a request and its histories alone leaves *)
(* its authorization alone.                                                *)
LEMMA SameTables ==
  ASSUME UNCHANGED <<row, disabled, scopes>>, NEW r \in Request,
         header'[r] = header[r], policy'[r] = policy[r]
  PROVE  Authorized(r)' = Authorized(r)
  BY DEF Authorized, Live, KeyOf, Token, RequiredScope

(* What a lookup returns is not the absence of a record.                   *)
LEMMA RecordIsNotNone == None \notin Record
  BY NoneAssumption

(* Every step keeps the invariant.                                         *)
LEMMA AccessNext == AccessInv /\ [Next]_vars => AccessInv'
<1> SUFFICES ASSUME AccessInv, [Next]_vars PROVE AccessInv'
  OBVIOUS
<1>0. TypeOK /\ Witnessed /\ JudgementIsWitnessed /\ InsertedIsExclusive
      /\ ServedIsAuthorized /\ RefusalHasCause /\ HandedIsStored
  BY DEF AccessInv
<1>1. ASSUME NEW i \in Issuer, Draw(i) PROVE AccessInv'
  <2> USE <1>0, <1>1 DEF Draw, requestVars
  <2>1. TypeOK'
    BY DEF TypeOK, Call
  <2>2. \A j \in Issuer : j # i => call'[j] = call[j]
    BY DEF TypeOK
  <2>3. call'[i].at \in {"drawn", "refused"} /\ (call'[i].at = "drawn" => call'[i].token \in drawn')
    BY DEF TypeOK
  <2>4. InsertedIsExclusive' /\ HandedIsStored'
    BY <2>2, <2>3 DEF InsertedIsExclusive, HandedIsStored
  <2>5. Witnessed'
    BY SameTables DEF Witnessed, Waiting
  <2>6. JudgementIsWitnessed' /\ ServedIsAuthorized' /\ RefusalHasCause'
    BY DEF JudgementIsWitnessed, Accepted, Permitted, ServedIsAuthorized, RefusalHasCause
  <2> QED
    BY <2>1, <2>4, <2>5, <2>6 DEF AccessInv
<1>2. ASSUME NEW i \in Issuer, Insert(i) PROVE AccessInv'
  <2> USE <1>0, <1>2 DEF Insert, requestVars
  <2>1. TypeOK'
    BY DEF TypeOK, Call
  <2>2. \A j \in Issuer : j # i => call'[j] = call[j]
    BY DEF TypeOK
  <2>3. /\ call'[i].at \in {"inserted", "refused"}
        /\ call'[i].token = call[i].token /\ call'[i].principal = call[i].principal
    BY DEF TypeOK, Call
  <2>4. InsertedIsExclusive'
    <3>1. call'[i].at = "inserted" =>
             row[KeyOf(call[i].token)] = None /\ call[i].principal \in Enrolled
      BY DEF TypeOK, Call
    <3> QED
      BY <2>2, <2>3, <3>1 DEF InsertedIsExclusive
  <2>5. HandedIsStored'
    BY <2>2, <2>3 DEF HandedIsStored
  <2>6. Witnessed'
    BY SameTables DEF Witnessed, Waiting
  <2>7. JudgementIsWitnessed' /\ ServedIsAuthorized' /\ RefusalHasCause'
    BY DEF JudgementIsWitnessed, Accepted, Permitted, ServedIsAuthorized, RefusalHasCause
  <2> QED
    BY <2>1, <2>4, <2>5, <2>6, <2>7 DEF AccessInv
<1>3. ASSUME NEW i \in Issuer, Commit(i) PROVE AccessInv'
  <2> USE <1>0, <1>3 DEF Commit, requestVars
  <2> DEFINE k == KeyOf(call[i].token)
  <2>0. /\ call[i].at = "inserted" /\ call[i].token \in drawn /\ call[i].token \in Token
        /\ call[i].principal \in Enrolled /\ k \in Key /\ row[k] = None
    BY DEF TypeOK, InsertedIsExclusive, KeyOf, Token
  <2>1. TypeOK'
    <3>1. Stored(i) \in [Key -> Row \union {None}]
      BY <2>0 DEF TypeOK, Stored, Row
    <3>2. call' \in [Issuer -> Call]
      BY <2>0 DEF TypeOK, Call
    <3>3. handed' \subseteq drawn
      BY <2>0 DEF TypeOK
    <3> QED
      BY <3>1, <3>2, <3>3 DEF TypeOK, Observe
  <2>2. /\ \A j \in Issuer : j # i => call'[j] = call[j]
        /\ call'[i].at \in {"issued", "refused", "lost"}
        /\ call'[i].token = call[i].token /\ call'[i].principal = call[i].principal
        /\ call'[i].at = "issued" => row' = Stored(i)
    BY DEF TypeOK, Call
  <2>3. /\ row' \in {row, Stored(i)}
        /\ \A l \in Key : l # k => row'[l] = row[l]
    BY <2>0 DEF Stored, TypeOK
  <2>4. InsertedIsExclusive'
    <3>1. \A j \in Issuer : call[j].at = "inserted" => KeyOf(call[j].token) \in Key
      BY DEF InsertedIsExclusive, KeyOf, Token, TypeOK
    <3>2. \A j \in Issuer : j # i /\ call[j].at = "inserted" => KeyOf(call[j].token) # k
      BY <2>0 DEF InsertedIsExclusive
    <3> QED
      BY <2>2, <2>3, <3>1, <3>2 DEF InsertedIsExclusive
  <2>5. HandedIsStored'
    <3>1. \A j \in Issuer : call[j].at = "issued" => KeyOf(call[j].token) # k
      BY <2>0 DEF HandedIsStored
    <3>2. /\ Stored(i)[k] # None /\ Stored(i)[k].digest = call[i].token
          /\ Stored(i)[k].principal = call[i].principal
      <4>1. [principal |-> call[i].principal, digest |-> call[i].token,
             revoked |-> FALSE, intact |-> TRUE] \in Row
        BY <2>0 DEF Row
      <4> QED
        BY <2>0, <4>1, NoneAssumption DEF Stored, TypeOK
    <3>3. \A j \in Issuer : call[j].at = "issued" => KeyOf(call[j].token) \in Key
      BY DEF InsertedIsExclusive, KeyOf, Token, TypeOK
    <3> QED
      BY <2>2, <2>3, <3>1, <3>2, <3>3 DEF HandedIsStored
  <2>6. Witnessed'
    BY ObserveWitnesses DEF Witnessed, Waiting
  <2>7. JudgementIsWitnessed' /\ ServedIsAuthorized' /\ RefusalHasCause'
    BY ObserveWitnesses
       DEF JudgementIsWitnessed, Accepted, Permitted, ServedIsAuthorized, RefusalHasCause
  <2> QED
    BY <2>1, <2>4, <2>5, <2>6, <2>7 DEF AccessInv
<1>4. ASSUME Operate PROVE AccessInv'
  <2> USE <1>0, <1>4 DEF Operate, requestVars
  <2>0. ASSUME NEW k \in Key, Revoke(k) \/ Damage(k)
        PROVE  /\ row' \in [Key -> Row \union {None}] /\ UNCHANGED <<disabled, scopes>>
               /\ row[k] \in Row /\ row'[k] \in Row
               /\ row'[k].digest = row[k].digest /\ row'[k].principal = row[k].principal
               /\ \A l \in Key : l # k => row'[l] = row[l]
    <3>1. row[k] \in Row
      BY <2>0 DEF TypeOK, Revoke, Damage
    <3>2. CASE Revoke(k)
      <4>1. row' = [row EXCEPT ![k] = [row[k] EXCEPT !.revoked = TRUE]]
        BY <3>2 DEF Revoke
      <4>2. [row[k] EXCEPT !.revoked = TRUE] \in Row
        BY <3>1 DEF Row
      <4> QED
        BY <3>1, <3>2, <4>1, <4>2 DEF TypeOK, Revoke, Row
    <3>3. CASE Damage(k)
      <4>1. row' = [row EXCEPT ![k] = [row[k] EXCEPT !.intact = FALSE]]
        BY <3>3 DEF Damage
      <4>2. [row[k] EXCEPT !.intact = FALSE] \in Row
        BY <3>1 DEF Row
      <4> QED
        BY <3>1, <3>3, <4>1, <4>2 DEF TypeOK, Damage, Row
    <3> QED
      BY <2>0, <3>2, <3>3
  <2>1. TypeOK'
    <3>1. row' \in [Key -> Row \union {None}]
      BY <2>0 DEF TypeOK, Disable, Regrant
    <3>2. disabled' \in [Enrolled -> BOOLEAN]
      BY <2>0 DEF TypeOK, Disable, Regrant
    <3>3. scopes' \in [Enrolled -> SUBSET Grant]
      BY <2>0 DEF TypeOK, Disable, Regrant, Scope, Grant
    <3> QED
      BY <3>1, <3>2, <3>3 DEF TypeOK, Observe
  <2>2. \A k \in Key : /\ row'[k] = None <=> row[k] = None
                       /\ row[k] # None => /\ row'[k].digest = row[k].digest
                                           /\ row'[k].principal = row[k].principal
    <3>1. CASE \E k \in Key : Revoke(k) \/ Damage(k)
      BY <2>0, <3>1, NoneAssumption
    <3>2. CASE \E p \in Enrolled : Disable(p) \/ Regrant(p)
      BY <3>2 DEF Disable, Regrant
    <3> QED
      BY <3>1, <3>2
  <2>3. InsertedIsExclusive'
    BY <2>2 DEF InsertedIsExclusive, KeyOf, Token, TypeOK
  <2>4. HandedIsStored'
    <3>1. \A j \in Issuer : call[j].at = "issued" => KeyOf(call[j].token) \in Key
      BY DEF InsertedIsExclusive, KeyOf, Token, TypeOK
    <3> QED
      BY <2>2, <3>1 DEF HandedIsStored
  <2>5. Witnessed'
    BY ObserveWitnesses DEF Witnessed, Waiting
  <2>6. JudgementIsWitnessed' /\ ServedIsAuthorized' /\ RefusalHasCause'
    BY ObserveWitnesses
       DEF JudgementIsWitnessed, Accepted, Permitted, ServedIsAuthorized, RefusalHasCause
  <2> QED
    BY <2>1, <2>3, <2>4, <2>5, <2>6 DEF AccessInv
<1>5. ASSUME NEW r \in Request, Present(r) PROVE AccessInv'
  <2> USE <1>0, <1>5 DEF Present
  <2>1. TypeOK'
    BY DEF TypeOK, Observe
  <2>2. InsertedIsExclusive' /\ HandedIsStored'
    BY DEF InsertedIsExclusive, HandedIsStored
  <2>3. /\ \A q \in Request : q # r => stage'[q] = stage[q] /\ header'[q] = header[q] /\ policy'[q] = policy[q]
        /\ stage'[r] = "policed" /\ policy'[r] \in Policy
    BY DEF TypeOK
  <2>4. Witnessed'
    BY <2>3, ObserveWitnesses DEF Witnessed, Waiting
  <2>5. JudgementIsWitnessed' /\ ServedIsAuthorized' /\ RefusalHasCause'
    BY <2>3, ObserveWitnesses
       DEF JudgementIsWitnessed, Accepted, Permitted, ServedIsAuthorized, RefusalHasCause
  <2> QED
    BY <2>1, <2>2, <2>4, <2>5 DEF AccessInv
<1>6. ASSUME NEW r \in Request, Authenticate(r) PROVE AccessInv'
  <2> USE <1>0, <1>6 DEF Authenticate, Moves, Says
  <2>1. TypeOK'
    BY DEF TypeOK, Answer
  <2>2. InsertedIsExclusive' /\ HandedIsStored'
    BY DEF InsertedIsExclusive, HandedIsStored
  <2>3. \A q \in Request : q # r => /\ stage'[q] = stage[q] /\ header'[q] = header[q]
                                    /\ policy'[q] = policy[q] /\ answer'[q] = answer[q]
    BY DEF TypeOK
  <2>4. Witnessed'
    <3>1. ASSUME NEW q \in Request, Waiting(q)', q # r
          PROVE  policy'[q] \in Policy /\ (Authorized(q)' => allowed'[q]) /\ (~Authorized(q)' => denied'[q])
      BY <2>3, <3>1, SameTables DEF Witnessed, Waiting
    <3>2. ASSUME Waiting(r)'
          PROVE  policy'[r] \in Policy /\ (Authorized(r)' => allowed'[r]) /\ (~Authorized(r)' => denied'[r])
      <4>1. header'[r] = header[r] /\ policy'[r] = policy[r]
        BY <3>2 DEF TypeOK, Waiting
      <4> QED
        BY <4>1, SameTables DEF Witnessed, Waiting
    <3> QED
      BY <3>1, <3>2 DEF Witnessed
  <2>5. JudgementIsWitnessed'
    <3>1. RequiredScope[policy[r]] = None => allowed[r]
      BY DEF Witnessed, Waiting, Authorized
    <3> QED
      BY <2>3, <3>1 DEF JudgementIsWitnessed, Accepted, Permitted, TypeOK
  <2>6. ServedIsAuthorized' /\ RefusalHasCause'
    <3>1. RequiredScope[policy[r]] # None /\ header[r] \in Unusable => denied[r]
      BY UnusableIsNoToken DEF Witnessed, Waiting, Authorized
    <3> QED
      BY <2>3, <3>1 DEF ServedIsAuthorized, RefusalHasCause, TypeOK
  <2> QED
    BY <2>1, <2>2, <2>4, <2>5, <2>6 DEF AccessInv
<1>7. ASSUME NEW r \in Request, Resolve(r) PROVE AccessInv'
  <2> USE <1>0, <1>7 DEF Resolve
  <2> DEFINE k == KeyOf(header[r])
  <2>0. /\ header[r] \in Token /\ k \in Key /\ RequiredScope[policy[r]] # None /\ policy[r] \in Policy
        /\ Authorized(r) => allowed[r]
        /\ ~Authorized(r) => denied[r]
    BY DEF JudgementIsWitnessed, KeyOf, Token, Witnessed, Waiting
  <2>1. ASSUME row[k] # None => Readable(k)
        PROVE  Projection(k) \in Record
    <3>1. CASE row[k] = None
      BY <3>1 DEF Projection, NoRow, Record
    <3>2. CASE row[k] # None
      <4>1. row[k] \in Row
        BY <2>0, <3>2 DEF TypeOK
      <4>2. scopes[row[k].principal] \subseteq Scope
        BY <2>1, <3>2 DEF Readable
      <4> QED
        BY <3>2, <4>1, <4>2 DEF Projection, Record, Row, TypeOK
    <3> QED
      BY <3>1, <3>2
  <2>2. TypeOK'
    BY <2>1 DEF TypeOK, Answer, Moves, Says
  <2>3. InsertedIsExclusive' /\ HandedIsStored'
    BY DEF InsertedIsExclusive, HandedIsStored
  <2>4. \A q \in Request : q # r => /\ stage'[q] = stage[q] /\ header'[q] = header[q]
                                    /\ policy'[q] = policy[q] /\ answer'[q] = answer[q]
                                    /\ record'[q] = record[q]
    BY DEF TypeOK, Moves, Says
  <2>5. \/ stage'[r] = "done" /\ answer'[r] \in {"500", "503"}
        \/ /\ stage'[r] = "judge" /\ header'[r] = header[r] /\ policy'[r] = policy[r]
           /\ answer'[r] = answer[r] /\ record'[r] = Projection(k) /\ Projection(k) \in Record
    BY <2>1 DEF TypeOK, Moves, Says
  <2>6. Witnessed'
    <3>1. ASSUME NEW q \in Request, Waiting(q)'
          PROVE  policy'[q] \in Policy /\ (Authorized(q)' => allowed'[q]) /\ (~Authorized(q)' => denied'[q])
      <4>1. /\ header'[q] = header[q] /\ policy'[q] = policy[q] /\ Waiting(q)
        BY <2>4, <2>5, <3>1 DEF Waiting
      <4> QED
        BY <4>1, SameTables DEF Witnessed
    <3> QED
      BY <3>1 DEF Witnessed
  <2>7. ASSUME stage'[r] = "judge"
        PROVE  record'[r] # None /\ (Accepted(r)' /\ Permitted(r)' <=> Authorized(r))
    <3>1. record'[r] # None
      BY <2>5, <2>7, RecordIsNotNone
    <3>2. CASE row[k] = None
      <4>1. ~record'[r].found
        BY <2>5, <2>7, <3>2 DEF Projection, NoRow
      <4>2. ~Authorized(r)
        BY <2>0, <3>2 DEF Authorized, Live
      <4> QED
        BY <3>1, <4>1, <4>2 DEF Accepted
    <3>3. CASE row[k] # None
      <4> DEFINE p == row[k].principal
      <4>1. /\ record'[r].found /\ record'[r].digest = row[k].digest
            /\ record'[r].revoked = row[k].revoked /\ record'[r].disabled = disabled[p]
            /\ record'[r].scopes = scopes[p]
        BY <2>5, <2>7, <3>3 DEF Projection
      <4>2. header'[r] = header[r] /\ policy'[r] = policy[r]
        BY <2>5, <2>7
      <4>3. Accepted(r)' <=> Live(header[r])
        BY <3>3, <4>1, <4>2 DEF Accepted, Live
      <4>4. Permitted(r)' <=> RequiredScope[policy[r]] \in scopes[p]
        BY <4>1, <4>2 DEF Permitted
      <4> QED
        BY <2>0, <3>1, <4>3, <4>4 DEF Authorized
    <3> QED
      BY <3>1, <3>2, <3>3
  <2>8. JudgementIsWitnessed'
    BY <2>0, <2>4, <2>5, <2>7 DEF JudgementIsWitnessed, Accepted, Permitted
  <2>9. ServedIsAuthorized' /\ RefusalHasCause'
    BY <2>4, <2>5 DEF ServedIsAuthorized, RefusalHasCause
  <2> QED
    BY <2>2, <2>3, <2>6, <2>8, <2>9 DEF AccessInv
<1>8. ASSUME NEW r \in Request, Judge(r) PROVE AccessInv'
  <2> USE <1>0, <1>8 DEF Judge
  <2>1. TypeOK'
    BY DEF TypeOK, Answer, Moves, Says
  <2>2. InsertedIsExclusive' /\ HandedIsStored'
    BY DEF InsertedIsExclusive, HandedIsStored
  <2>3. \A q \in Request : q # r => /\ stage'[q] = stage[q] /\ header'[q] = header[q]
                                    /\ policy'[q] = policy[q] /\ answer'[q] = answer[q]
                                    /\ record'[q] = record[q]
    BY DEF TypeOK, Moves, Says
  <2>4. \/ /\ stage'[r] = "done" /\ answer'[r] \in {"401", "403", "429", "503"}
           /\ answer'[r] \in {"401", "403"} => ~(Accepted(r) /\ Permitted(r))
        \/ /\ stage'[r] = "handler" /\ header'[r] = header[r] /\ policy'[r] = policy[r]
           /\ answer'[r] = answer[r] /\ Accepted(r) /\ Permitted(r)
    BY DEF TypeOK, Moves, Says
  <2>5. /\ Accepted(r) /\ Permitted(r) => allowed[r]
        /\ ~(Accepted(r) /\ Permitted(r)) => denied[r]
    BY DEF JudgementIsWitnessed
  <2>6. Witnessed'
    <3>1. ASSUME NEW q \in Request, Waiting(q)'
          PROVE  policy'[q] \in Policy /\ (Authorized(q)' => allowed'[q]) /\ (~Authorized(q)' => denied'[q])
      <4>1. /\ header'[q] = header[q] /\ policy'[q] = policy[q] /\ Waiting(q)
        BY <2>3, <2>4, <3>1 DEF Waiting
      <4> QED
        BY <4>1, SameTables DEF Witnessed
    <3> QED
      BY <3>1 DEF Witnessed
  <2>7. JudgementIsWitnessed'
    BY <2>3, <2>4, <2>5 DEF JudgementIsWitnessed, Accepted, Permitted
  <2>8. ServedIsAuthorized' /\ RefusalHasCause'
    BY <2>3, <2>4, <2>5 DEF ServedIsAuthorized, RefusalHasCause
  <2> QED
    BY <2>1, <2>2, <2>6, <2>7, <2>8 DEF AccessInv
<1>9. ASSUME NEW r \in Request, Handle(r) PROVE AccessInv'
  <2> USE <1>0, <1>9 DEF Handle, Says
  <2>1. TypeOK'
    BY DEF TypeOK, Answer
  <2>2. InsertedIsExclusive' /\ HandedIsStored'
    BY DEF InsertedIsExclusive, HandedIsStored
  <2>3. /\ \A q \in Request : q # r => /\ stage'[q] = stage[q] /\ header'[q] = header[q]
                                       /\ policy'[q] = policy[q] /\ answer'[q] = answer[q]
        /\ stage'[r] = "done" /\ answer'[r] = "served" /\ allowed[r]
    BY DEF TypeOK, JudgementIsWitnessed
  <2>4. Witnessed'
    <3>1. ASSUME NEW q \in Request, Waiting(q)'
          PROVE  policy'[q] \in Policy /\ (Authorized(q)' => allowed'[q]) /\ (~Authorized(q)' => denied'[q])
      <4>1. /\ header'[q] = header[q] /\ policy'[q] = policy[q] /\ Waiting(q)
        BY <2>3, <3>1 DEF Waiting
      <4> QED
        BY <4>1, SameTables DEF Witnessed
    <3> QED
      BY <3>1 DEF Witnessed
  <2>5. JudgementIsWitnessed' /\ ServedIsAuthorized' /\ RefusalHasCause'
    BY <2>3 DEF JudgementIsWitnessed, Accepted, Permitted, ServedIsAuthorized, RefusalHasCause
  <2> QED
    BY <2>1, <2>2, <2>4, <2>5 DEF AccessInv
<1>10. CASE UNCHANGED vars
  <2> USE <1>0, <1>10 DEF vars, requestVars
  <2>1. TypeOK' /\ InsertedIsExclusive' /\ HandedIsStored'
    BY DEF TypeOK, InsertedIsExclusive, HandedIsStored
  <2>2. Witnessed'
    BY SameTables DEF Witnessed, Waiting
  <2>3. JudgementIsWitnessed' /\ ServedIsAuthorized' /\ RefusalHasCause'
    BY DEF JudgementIsWitnessed, Accepted, Permitted, ServedIsAuthorized, RefusalHasCause
  <2> QED
    BY <2>1, <2>2, <2>3 DEF AccessInv
<1> QED
  BY <1>1, <1>2, <1>3, <1>4, <1>5, <1>6, <1>7, <1>8, <1>9, <1>10 DEF Next

(* The invariant holds throughout.                                         *)
THEOREM AccessInvariant == Spec => []AccessInv
  BY AccessInit, AccessNext, PTL DEF Spec

(* Whatever operators revoke, disable or regrant between the lookup of a   *)
(* credential and its judgement, and however many requests are under way,  *)
(* Policed lets a handler run only for a request that was authorized at    *)
(* one instant since it arrived.                                           *)
THEOREM HandlersAreAuthorized == Spec => []ServedIsAuthorized
<1>1. AccessInv => ServedIsAuthorized
  BY DEF AccessInv
<1> QED
  BY <1>1, AccessInvariant, PTL

(* A 401 or a 403 always has its cause in the tables: database failures,   *)
(* damaged rows and the rate limit are never answered with one.            *)
THEOREM RefusalsAreCaused == Spec => []RefusalHasCause
<1>1. AccessInv => RefusalHasCause
  BY DEF AccessInv
<1> QED
  BY <1>1, AccessInvariant, PTL

(* Every credential handed out is stored, whatever keys concurrent issue   *)
(* calls draw and however their commits end.                               *)
THEOREM CredentialsAreStored == Spec => []HandedIsStored
<1>1. AccessInv => HandedIsStored
  BY DEF AccessInv
<1> QED
  BY <1>1, AccessInvariant, PTL
=============================================================================
