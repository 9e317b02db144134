---------------------------- MODULE Curation_proofs ----------------------------
(***************************************************************************)
(* Proofs about Curation, for every set of curators, assertions, entities  *)
(* and fields.                                                             *)
(*                                                                         *)
(* CurationInv is inductive under Spec: the lock of a field keeps what a   *)
(* decision checked true until it commits, and the unique index entry of a *)
(* variant keeps a second snapshot out.  RecordInv is inductive under      *)
(* FreshSpec, and DecidedInv under Spec again.                             *)
(***************************************************************************)
EXTENDS Curation, FiniteSetTheorems, TLAPS

USE AssertionAssumption, MaxRequestsAssumption

(* Two assertions never back the same row of the measurements, and what    *)
(* backs a snapshot backs no measurement.                                  *)
LEMMA RowsApart ==
  /\ \A a, b \in Assertion : Row(a) = b => a = b
  /\ \A a \in Assertion : FieldOf[a] \in Measured => Row(a) = a /\ EntityOf[a] \notin Market
  /\ \A a \in Assertion : Row(a) \in Market <=> EntityOf[a] \in Market
  /\ \A a \in Assertion : EntityOf[a] \in Market => Row(a) = EntityOf[a]
  BY RowAssumption DEF Row

(* The view shows fields.                                                  *)
LEMMA ServedKeys ==
  ASSUME NEW canon, NEW present, present \subseteq Assertion
  PROVE  Served(canon, present) \subseteq Keys
  BY DEF Served, Keys

(* No decision is under way.                                               *)
LEMMA CurationInit == Init => CurationInv /\ RecordInv
<1> SUFFICES ASSUME Init PROVE CurationInv /\ RecordInv
  OBVIOUS
<1> USE DEF Init
<1>1. TypeOK
  BY DEF TypeOK, Status, Decision, Flag, Keys, InTransaction
<1>2. DecisionsStand
  BY DEF DecisionsStand, InTransaction
<1>3. \A c \in Curator : FlagFollowsVerdict(c)
  BY DEF FlagFollowsVerdict, InTransaction
<1>4. IndexHeld
  BY DEF IndexHeld, Publishing
<1>5. MeasurementFollowsDecision
  BY DEF MeasurementFollowsDecision
<1>6. RecordInv
  BY DEF RecordInv, Served
<1> QED
  BY <1>1, <1>2, <1>3, <1>4, <1>5, <1>6 DEF CurationInv

(* A decision starts: the field is locked and the decision is allowed.     *)
LEMMA DecideKeeps ==
  ASSUME CurationInv, NEW c \in Curator, NEW a \in Assertion, NEW d \in Decision, Decide(c, a, d)
  PROVE  CurationInv'
<1>0. TypeOK /\ DecisionsStand /\ (\A e \in Curator : FlagFollowsVerdict(e)) /\ IndexHeld
      /\ MeasurementFollowsDecision
  BY DEF CurationInv
<1>1. /\ pc'[c] = "decided" /\ target'[c] = a /\ verdict'[c] = d
      /\ \A e \in Curator \ {c} : pc'[e] = pc[e] /\ target'[e] = target[e] /\ verdict'[e] = verdict[e]
      /\ UNCHANGED <<store, view, flag, refresh, importer>>
  BY <1>0 DEF Decide, GoTo, TypeOK
<1> USE DEF store, refresh, importer
<1>2. TypeOK'
  <2>1. /\ pc' \in [Curator -> InTransaction \union
                  {"idle", "reading", "rebuilding", "installing", "settling"}]
        /\ target' \in [Curator -> Assertion \union {None}] /\ verdict' \in [Curator -> Decision]
    BY <1>0 DEF Decide, GoTo, TypeOK, InTransaction
  <2> QED
    BY <1>0, <1>1, <2>1 DEF TypeOK
<1>3. DecisionsStand'
  <2>1. a \in Present /\ Present' = Present
    BY <1>1 DEF Decide, Present
  <2>2. d = "ACCEPTED" => \A b \in Assertion \ {a} : Key(b) = Key(a) => status[b] # "ACCEPTED"
    BY DEF Decide, Refused
  <2>3. \A e \in Curator : pc[e] \in InTransaction => Key(target[e]) # Key(a)
    BY DEF Decide, FieldLocked
  <2> QED
    BY <1>0, <1>1, <2>1, <2>2, <2>3 DEF DecisionsStand, Key
<1>4. \A e \in Curator : FlagFollowsVerdict(e)'
  BY <1>0, <1>1 DEF FlagFollowsVerdict, Intended
<1>5. IndexHeld'
  BY <1>0, <1>1 DEF IndexHeld, Publishing, Row
<1>6. MeasurementFollowsDecision'
  BY <1>0, <1>1 DEF MeasurementFollowsDecision, Key
<1> QED
  BY <1>2, <1>3, <1>4, <1>5, <1>6 DEF CurationInv

(* A decision judges the unit of its row, and writes the flag of the row.  *)
LEMMA FlagKeeps ==
  ASSUME CurationInv, NEW c \in Curator, Evaluate(c) \/ SkipFlag(c) \/ WriteFlag(c)
  PROVE  CurationInv'
<1>0. TypeOK /\ DecisionsStand /\ (\A e \in Curator : FlagFollowsVerdict(e)) /\ IndexHeld
      /\ MeasurementFollowsDecision
  BY DEF CurationInv
<1>1. /\ pc[c] \in {"decided", "evaluated"} /\ pc'[c] \in {"evaluated", "applied"}
      /\ \A e \in Curator \ {c} : pc'[e] = pc[e] /\ flag'[e] = flag[e]
      /\ UNCHANGED <<store, view, target, verdict, refresh, importer>>
  BY <1>0 DEF Evaluate, SkipFlag, WriteFlag, GoTo, TypeOK, decision
<1> USE DEF store, refresh, importer
<1>a. pc[c] \in InTransaction /\ target[c] \in Assertion
  BY <1>0, <1>1 DEF TypeOK, InTransaction
<1>2. TypeOK'
  <2>1. pc' \in [Curator -> InTransaction \union
                  {"idle", "reading", "rebuilding", "installing", "settling"}]
    BY <1>0 DEF Evaluate, SkipFlag, WriteFlag, GoTo, TypeOK, InTransaction
  <2>2. flag' \in [Curator -> Flag]
    BY <1>0 DEF Evaluate, SkipFlag, WriteFlag, decision, TypeOK, Flag
  <2>3. \A e \in Curator : pc'[e] \in InTransaction => target'[e] # None
    BY <1>0, <1>1, <1>a DEF TypeOK
  <2> QED
    BY <1>0, <1>1, <2>1, <2>2, <2>3 DEF TypeOK
<1>3. DecisionsStand'
  <2>1. \A e \in Curator : pc'[e] \in InTransaction => pc[e] \in InTransaction
    BY <1>1, <1>a
  <2> QED
    BY <1>0, <1>1, <2>1 DEF DecisionsStand, Present, Key
<1>4. \A e \in Curator : FlagFollowsVerdict(e)'
  <2> SUFFICES ASSUME NEW e \in Curator, FieldOf[target[e]] \in Measured PROVE FlagFollowsVerdict(e)'
    BY <1>1 DEF FlagFollowsVerdict
  <2>1. CASE e # c
    BY <1>0, <1>1, <2>1 DEF FlagFollowsVerdict, Intended
  <2>2. CASE e = c /\ Evaluate(c)
    <3>1. pc'[c] = "evaluated" /\ flag'[c] = Intended(c)
      BY <1>0, <1>a, <2>2, RowsApart DEF Evaluate, Backs, ShouldPublish, Intended, GoTo, TypeOK
    <3> QED
      BY <1>1, <2>2, <3>1 DEF FlagFollowsVerdict, Intended
  <2>3. CASE e = c /\ SkipFlag(c)
    <3>1. pc'[c] = "applied" /\ flag'[c] = "keep" /\ flag[c] = Intended(c)
      BY <1>0, <1>a, <2>3 DEF SkipFlag, GoTo, TypeOK, FlagFollowsVerdict
    <3>2. target[c] \in canonical <=> verdict[c] = "ACCEPTED"
      BY <1>a, <2>3, <3>1, RowsApart DEF SkipFlag, FlagStands, Intended
    <3> QED
      BY <1>1, <2>3, <3>1, <3>2 DEF FlagFollowsVerdict
  <2>4. CASE e = c /\ WriteFlag(c)
    <3>1. pc'[c] = "applied" /\ flag'[c] = flag[c] /\ flag[c] = Intended(c)
      BY <1>0, <1>a, <2>4 DEF WriteFlag, GoTo, TypeOK, FlagFollowsVerdict, decision
    <3> QED
      BY <1>1, <2>4, <3>1 DEF FlagFollowsVerdict, Intended
  <2> QED
    BY <2>1, <2>2, <2>3, <2>4
<1>5. IndexHeld'
  <2>1. \A e \in Curator \ {c} : Publishing(e)' <=> Publishing(e)
    BY <1>1 DEF Publishing, Row
  <2>2. CASE Publishing(c)'
    <3>1. WriteFlag(c) /\ flag[c] = "set" /\ Row(target[c]) \in Market
      BY <1>0, <1>1, <2>2 DEF Publishing, Evaluate, SkipFlag, WriteFlag, GoTo, TypeOK, decision, Row
    <3>2. Writing(c) \intersect Market = {} /\ canonical \intersect Market = {}
      BY <3>1 DEF WriteFlag
    <3>3. \A e \in Curator \ {c} : Publishing(e) => Row(target[e]) \in Writing(c)
      BY DEF Publishing, Writing
    <3>4. \A e \in Curator \ {c} : ~Publishing(e)
      BY <3>2, <3>3 DEF Publishing
    <3> QED
      BY <1>1, <2>1, <3>2, <3>4 DEF IndexHeld
  <2>3. CASE ~Publishing(c)'
    BY <1>0, <1>1, <2>1, <2>3 DEF IndexHeld
  <2> QED
    BY <2>2, <2>3
<1>6. MeasurementFollowsDecision'
  BY <1>0, <1>1 DEF MeasurementFollowsDecision, Key
<1> QED
  BY <1>2, <1>3, <1>4, <1>5, <1>6 DEF CurationInv

(* What a commit makes of the assertion, of its row and of the others.     *)
LEMMA CommitEffect ==
  ASSUME CurationInv, NEW c \in Curator, Commit(c)
  PROVE  /\ target[c] \in Present /\ verdict[c] \in Decision
         /\ status'[target[c]] = verdict[c]
         /\ \A b \in Assertion \ {target[c]} : status'[b] = status[b]
         /\ Present' = Present
         /\ flag[c] = "set" => canonical' = canonical \union {Row(target[c])}
         /\ flag[c] = "clear" => canonical' = canonical \ {Row(target[c])}
         /\ flag[c] = "keep" => canonical' = canonical
         /\ flag[c] \in Flag
         /\ pc[c] = "applied" /\ pc'[c] \in {"reading", "idle"}
         /\ \A e \in Curator \ {c} : /\ pc'[e] = pc[e] /\ target'[e] = target[e]
                                     /\ verdict'[e] = verdict[e] /\ flag'[e] = flag[e]
         /\ UNCHANGED <<view, refresh, importer>>
<1>0. TypeOK /\ DecisionsStand
  BY DEF CurationInv
<1>1. /\ target[c] \in Present /\ verdict[c] \in Decision /\ flag[c] \in Flag
      /\ pc[c] = "applied" /\ pc'[c] \in {"reading", "idle"}
      /\ \A e \in Curator \ {c} : pc'[e] = pc[e]
      /\ UNCHANGED <<view, refresh, importer>>
  BY <1>0 DEF Commit, DecisionsStand, TypeOK, InTransaction, GoTo
<1>2. \A e \in Curator \ {c} : target'[e] = target[e] /\ verdict'[e] = verdict[e] /\ flag'[e] = flag[e]
  BY <1>0 DEF Commit, EndTransaction, TypeOK
<1>3. status'[target[c]] = verdict[c] /\ \A b \in Assertion \ {target[c]} : status'[b] = status[b]
  BY <1>0, <1>1 DEF Commit, TypeOK, Present
<1>4. Present' = Present
  BY <1>1, <1>3 DEF Present, Decision
<1>5. /\ flag[c] = "set" => canonical' = canonical \union {Row(target[c])}
      /\ flag[c] = "clear" => canonical' = canonical \ {Row(target[c])}
      /\ flag[c] = "keep" => canonical' = canonical
  BY DEF Commit
<1> QED
  BY <1>1, <1>2, <1>3, <1>4, <1>5

(* A decision that commits leaves measurement and views as they should be. *)
LEMMA CommitKeeps ==
  ASSUME CurationInv, NEW c \in Curator, Commit(c)
  PROVE  CurationInv'
<1>0. TypeOK /\ DecisionsStand /\ (\A e \in Curator : FlagFollowsVerdict(e)) /\ IndexHeld
      /\ MeasurementFollowsDecision
  BY DEF CurationInv
<1> DEFINE a == target[c]
<1>1. /\ a \in Present /\ a \in Assertion /\ verdict[c] \in Decision
      /\ status'[a] = verdict[c]
      /\ \A b \in Assertion \ {a} : status'[b] = status[b]
      /\ Present' = Present
      /\ flag[c] = "set" => canonical' = canonical \union {Row(a)}
      /\ flag[c] = "clear" => canonical' = canonical \ {Row(a)}
      /\ flag[c] = "keep" => canonical' = canonical
      /\ flag[c] \in {"set", "clear", "keep"}
      /\ pc[c] = "applied" /\ pc'[c] \in {"reading", "idle"}
      /\ \A e \in Curator \ {c} : /\ pc'[e] = pc[e] /\ target'[e] = target[e]
                                  /\ verdict'[e] = verdict[e] /\ flag'[e] = flag[e]
      /\ UNCHANGED <<view, refresh, importer>>
  BY CommitEffect DEF Present, Flag
<1>2. /\ pc[c] \in InTransaction /\ pc'[c] \notin InTransaction
      /\ \A e \in Curator \ {c} : pc[e] \in InTransaction => Key(target[e]) # Key(a) /\ target[e] # a
                                                            /\ target[e] \in Assertion
  <2>1. pc[c] \in InTransaction /\ pc'[c] \notin InTransaction
    BY <1>1 DEF InTransaction
  <2> QED
    BY <1>0, <2>1 DEF DecisionsStand, Present
<1>3. \A b \in Assertion \ {a} : b \in canonical' <=> b \in canonical
  BY <1>1, RowsApart
<1> HIDE DEF a
<1>4. TypeOK'
  <2>1. /\ pc' \in [Curator -> InTransaction \union
                  {"idle", "reading", "rebuilding", "installing", "settling"}]
        /\ target' \in [Curator -> Assertion \union {None}] /\ verdict' \in [Curator -> Decision]
        /\ flag' \in [Curator -> Flag]
    BY <1>0 DEF Commit, EndTransaction, GoTo, TypeOK, Decision, Flag
  <2>2. status' \in [Assertion -> Status]
    BY <1>0, <1>1 DEF Commit, TypeOK, Status
  <2>3. canonical' \subseteq Rows
    BY <1>0, <1>1 DEF TypeOK, Rows
  <2>4. /\ lastRequest' \in 0 .. MaxRequests /\ lastRequest <= lastRequest'
        /\ pending' \subseteq 1 .. lastRequest'
    BY <1>0 DEF Commit, TypeOK
  <2>5. flags' \subseteq Keys
    BY <1>0 DEF Commit, TypeOK
  <2>6. \A e \in Curator : pc'[e] \in InTransaction => target'[e] # None
    BY <1>0, <1>1, <1>2 DEF TypeOK
  <2> QED
    BY <1>0, <1>1, <2>1, <2>2, <2>3, <2>4, <2>5, <2>6 DEF TypeOK, refresh, importer
<1>5. DecisionsStand'
  <2>1. \A e \in Curator : pc'[e] \in InTransaction =>
           /\ e # c /\ pc[e] \in InTransaction /\ target'[e] = target[e] /\ verdict'[e] = verdict[e]
    BY <1>1, <1>2
  <2>2. imported' \subseteq Assertion \ Present'
    BY <1>0, <1>1 DEF DecisionsStand, importer
  <2>3. \A e \in Curator : pc'[e] \in InTransaction =>
          /\ target'[e] \in Present'
          /\ verdict'[e] = "ACCEPTED" =>
                \A b \in Assertion \ {target'[e]} :
                    Key(b) = Key(target'[e]) => status'[b] # "ACCEPTED"
    BY <1>0, <1>1, <1>2, <2>1 DEF DecisionsStand
  <2>4. \A e, f \in Curator :
          pc'[e] \in InTransaction /\ pc'[f] \in InTransaction /\ Key(target'[e]) = Key(target'[f])
              => e = f
    BY <1>0, <2>1 DEF DecisionsStand
  <2> QED
    BY <2>2, <2>3, <2>4 DEF DecisionsStand, Key
<1>6. \A e \in Curator : FlagFollowsVerdict(e)'
  <2> SUFFICES ASSUME NEW e \in Curator, pc'[e] \in InTransaction PROVE FlagFollowsVerdict(e)'
    BY DEF FlagFollowsVerdict
  <2>1. e # c /\ pc[e] \in InTransaction /\ target[e] \in Assertion \ {a}
    BY <1>1, <1>2
  <2>2. target[e] \in canonical' <=> target[e] \in canonical
    BY <1>3, <2>1
  <2> QED
    BY <1>0, <1>1, <2>1, <2>2 DEF FlagFollowsVerdict, Intended
<1>7. IndexHeld'
  <2>1. \A e \in Curator : Publishing(e)' => e # c /\ Publishing(e)
    BY <1>1 DEF Publishing, Row
  <2>2. CASE flag[c] = "set" /\ Row(a) \in Market
    <3>1. Publishing(c)
      BY <1>1, <2>2 DEF Publishing, a
    <3>2. canonical \intersect Market = {} /\ \A e \in Curator : ~Publishing(e)'
      BY <1>0, <2>1, <3>1 DEF IndexHeld
    <3> QED
      BY <1>1, <2>2, <3>2 DEF IndexHeld
  <2>3. CASE ~(flag[c] = "set" /\ Row(a) \in Market)
    <3>1. canonical' \intersect Market \subseteq canonical \intersect Market
      BY <1>1, <2>3
    <3> QED
      BY <1>0, <2>1, <3>1 DEF IndexHeld
  <2> QED
    BY <2>2, <2>3
<1>8. MeasurementFollowsDecision'
  <2>1. ASSUME NEW b \in Assertion, FieldOf[b] \in Measured
        PROVE  b \in canonical' <=> status'[b] = "ACCEPTED"
    <3>1. CASE b # a
      BY <1>0, <1>1, <1>3, <2>1, <3>1 DEF MeasurementFollowsDecision
    <3>2. CASE b = a
      <4>1. Row(a) = a /\ FlagFollowsVerdict(c)
        BY <1>0, <2>1, <3>2, RowsApart
      <4> QED
        BY <1>1, <1>2, <2>1, <3>2, <4>1 DEF FlagFollowsVerdict, Intended, a
    <3> QED
      BY <3>1, <3>2
  <2>2. ASSUME NEW b1 \in Assertion, NEW b2 \in Assertion,
               status'[b1] = "ACCEPTED", status'[b2] = "ACCEPTED", Key(b1) = Key(b2)
        PROVE  b1 = b2
    <3>1. verdict[c] = "ACCEPTED" => \A b \in Assertion \ {a} : Key(b) = Key(a) => status[b] # "ACCEPTED"
      BY <1>0, <1>2 DEF DecisionsStand, a
    <3> QED
      BY <1>0, <1>1, <2>2, <3>1 DEF MeasurementFollowsDecision
  <2> QED
    BY <2>1, <2>2 DEF MeasurementFollowsDecision, Key
<1> QED
  BY <1>4, <1>5, <1>6, <1>7, <1>8 DEF CurationInv

(* A decision that is given up, and the steps of a refresh, leave every    *)
(* other decision as it is.                                                *)
LEMMA OthersKeep ==
  ASSUME CurationInv, NEW c \in Curator,
         \/ GiveUp(c) \/ CurateRefresh(c) \/ ReadOutstanding(c) \/ StartRebuild(c)
         \/ InstallRebuilt(c) \/ Settle(c) \/ RefreshFails(c)
  PROVE  CurationInv'
<1>0. TypeOK /\ DecisionsStand /\ (\A e \in Curator : FlagFollowsVerdict(e)) /\ IndexHeld
      /\ MeasurementFollowsDecision
  BY DEF CurationInv
<1>1. /\ UNCHANGED <<status, canonical, importer>>
      /\ pc'[c] \in {"idle", "reading", "rebuilding", "installing", "settling"}
      /\ \A e \in Curator \ {c} : pc'[e] = pc[e]
  BY <1>0 DEF GiveUp, CurateRefresh, ReadOutstanding, StartRebuild, InstallRebuilt, Settle,
              RefreshFails, GoTo, TypeOK, store
<1>2. \A e \in Curator \ {c} : target'[e] = target[e] /\ verdict'[e] = verdict[e] /\ flag'[e] = flag[e]
  BY <1>0 DEF GiveUp, CurateRefresh, ReadOutstanding, StartRebuild, InstallRebuilt, Settle,
              RefreshFails, EndTransaction, TypeOK, decision
<1>3. pc'[c] \notin InTransaction /\ Present' = Present
  BY <1>1 DEF InTransaction, Present
<1>4. TypeOK'
  <2>1. /\ pc' \in [Curator -> InTransaction \union
                  {"idle", "reading", "rebuilding", "installing", "settling"}]
    BY <1>0 DEF GiveUp, CurateRefresh, ReadOutstanding, StartRebuild, InstallRebuilt, Settle,
                RefreshFails, GoTo, TypeOK
  <2>2. /\ target' \in [Curator -> Assertion \union {None}] /\ verdict' \in [Curator -> Decision]
        /\ flag' \in [Curator -> Flag]
    BY <1>0 DEF GiveUp, CurateRefresh, ReadOutstanding, StartRebuild, InstallRebuilt, Settle,
                RefreshFails, EndTransaction, TypeOK, decision, Decision, Flag
  <2>3. /\ lastRequest' = lastRequest /\ pending' \subseteq pending /\ flags' = flags
    BY DEF GiveUp, CurateRefresh, ReadOutstanding, StartRebuild, InstallRebuilt, Settle,
           RefreshFails, store
  <2>4. outstanding' \in [Curator -> SUBSET (1 .. MaxRequests)]
    <3>1. pending \subseteq 1 .. MaxRequests
      BY <1>0 DEF TypeOK
    <3> QED
      BY <1>0, <3>1 DEF GiveUp, CurateRefresh, ReadOutstanding, StartRebuild, InstallRebuilt, Settle,
                        RefreshFails, TypeOK, refresh
  <2>5. rebuilt' \in [Curator -> SUBSET Keys] /\ view' \subseteq Keys
    <3>1. Served(canonical, Present) \subseteq Keys
      BY ServedKeys DEF Present
    <3> QED
      BY <1>0, <3>1 DEF GiveUp, CurateRefresh, ReadOutstanding, StartRebuild, InstallRebuilt, Settle,
                        RefreshFails, TypeOK, refresh
  <2>6. \A e \in Curator : pc'[e] \in InTransaction => target'[e] # None
    BY <1>0, <1>1, <1>2, <1>3 DEF TypeOK
  <2> QED
    BY <1>0, <1>1, <2>1, <2>2, <2>3, <2>4, <2>5, <2>6 DEF TypeOK, importer
<1>5. \A e \in Curator : pc'[e] \in InTransaction =>
         /\ e # c /\ pc[e] \in InTransaction /\ pc'[e] = pc[e] /\ target'[e] = target[e]
         /\ verdict'[e] = verdict[e] /\ flag'[e] = flag[e]
  BY <1>1, <1>2, <1>3
<1>6. DecisionsStand'
  BY <1>0, <1>1, <1>3, <1>5 DEF DecisionsStand, Key, importer
<1>7. \A e \in Curator : FlagFollowsVerdict(e)'
  BY <1>0, <1>1, <1>5 DEF FlagFollowsVerdict, Intended
<1>8. IndexHeld'
  <2>1. \A e \in Curator : Publishing(e)' => Publishing(e)
    BY <1>5 DEF Publishing, Row, InTransaction
  <2> QED
    BY <1>0, <1>1, <2>1 DEF IndexHeld
<1>9. MeasurementFollowsDecision'
  BY <1>0, <1>1 DEF MeasurementFollowsDecision, Key
<1> QED
  BY <1>4, <1>6, <1>7, <1>8, <1>9 DEF CurationInv

(* An import brings assertions nobody has decided, and decides nothing.    *)
LEMMA ImportKeeps ==
  ASSUME CurationInv, Import
  PROVE  CurationInv'
<1>0. TypeOK /\ DecisionsStand /\ (\A e \in Curator : FlagFollowsVerdict(e)) /\ IndexHeld
      /\ MeasurementFollowsDecision
  BY DEF CurationInv
<1>1. UNCHANGED <<canonical, pending, lastRequest, pc, decision, refresh>>
  BY DEF Import, ImportStage, ImportStartRefresh, ImportRefreshed, ImportCommit, ImportAbort, ImportEnds,
         store
<1> USE DEF decision, refresh
<1>2. /\ \A a \in Assertion : status'[a] = status[a] \/ (status[a] = "ABSENT" /\ status'[a] = "PENDING")
      /\ Present \subseteq Present' /\ Present' \subseteq Present \union imported
      /\ (Present' = Present /\ status' = status) \/ imported' = {}
  <2>1. CASE ImportCommit
    <3>1. /\ imported \subseteq Assertion \ Present /\ imported' = {}
          /\ status' = [a \in Assertion |-> IF a \in imported THEN "PENDING" ELSE status[a]]
      BY <1>0, <2>1 DEF ImportCommit, ImportEnds, DecisionsStand
    <3> QED
      BY <1>0, <3>1 DEF Present, TypeOK
  <2>2. CASE ~ImportCommit
    <3>1. status' = status
      BY <2>2 DEF Import, ImportStage, ImportStartRefresh, ImportRefreshed, ImportAbort, store
    <3> QED
      BY <3>1 DEF Present
  <2> QED
    BY <2>1, <2>2
<1>3. imported' \subseteq Assertion \ Present'
  <2>1. CASE imported' = imported /\ Present' = Present
    BY <1>0, <2>1 DEF DecisionsStand
  <2>2. CASE imported' = {}
    BY <2>2
  <2>3. CASE \E A \in SUBSET (Assertion \ Present) : ImportStage(A)
    BY <2>3 DEF ImportStage, store, Present
  <2> QED
    BY <1>2, <2>1, <2>2, <2>3 DEF Import, ImportStartRefresh, ImportRefreshed, ImportCommit, ImportAbort, ImportEnds,
                             store, Present
<1>4. TypeOK'
  <2>1. status' \in [Assertion -> Status] /\ flags' \subseteq Keys
    BY <1>0 DEF Import, ImportStage, ImportStartRefresh, ImportRefreshed, ImportCommit, ImportAbort,
                TypeOK, Status, Keys, store
  <2>2. view' \subseteq Keys /\ captured' \subseteq Keys
    <3>1. Served(canonical, Present \union imported) \subseteq Keys
      BY <1>0, ServedKeys DEF Present, TypeOK
    <3> QED
      BY <1>0, <3>1 DEF Import, ImportStage, ImportStartRefresh, ImportRefreshed, ImportCommit,
                        ImportAbort, ImportEnds, TypeOK
  <2>3. import' \in {"idle", "staged", "refreshing", "refreshed"}
    BY <1>0 DEF Import, ImportStage, ImportStartRefresh, ImportRefreshed, ImportCommit, ImportAbort,
                ImportEnds, TypeOK
  <2> QED
    BY <1>0, <1>1, <1>3, <2>1, <2>2, <2>3 DEF TypeOK
<1>5. DecisionsStand'
  <2>1. \A c \in Curator : pc[c] \in InTransaction => target[c] \in Present'
    BY <1>0, <1>2 DEF DecisionsStand
  <2>2. \A b \in Assertion : status'[b] = "ACCEPTED" => status[b] = "ACCEPTED"
    BY <1>2
  <2> QED
    BY <1>0, <1>1, <1>3, <2>1, <2>2 DEF DecisionsStand, Key
<1>6. \A c \in Curator : FlagFollowsVerdict(c)'
  BY <1>0, <1>1 DEF FlagFollowsVerdict, Intended
<1>7. IndexHeld'
  BY <1>0, <1>1 DEF IndexHeld, Publishing, Row
<1>8. MeasurementFollowsDecision'
  BY <1>0, <1>1, <1>2 DEF MeasurementFollowsDecision, Key
<1> QED
  BY <1>4, <1>5, <1>6, <1>7, <1>8 DEF CurationInv

(* Whatever curators and imports do, CurationInv is kept.                  *)
LEMMA CurationStep == CurationInv /\ [Next]_vars => CurationInv'
<1> SUFFICES ASSUME CurationInv, [Next]_vars PROVE CurationInv'
  OBVIOUS
<1>1. CASE UNCHANGED vars
  BY <1>1 DEF vars, store, decision, refresh, importer, CurationInv, TypeOK, DecisionsStand, Present,
              FlagFollowsVerdict, Intended, IndexHeld, Publishing, Row, MeasurementFollowsDecision, Key
<1> QED
  BY <1>1, DecideKeeps, FlagKeeps, CommitKeeps, OthersKeep, ImportKeeps DEF Next, Curate

(* The invariant holds throughout.                                         *)
THEOREM CurationInvariant == Spec => []CurationInv
  BY CurationInit, CurationStep, PTL DEF Spec

(* A field has at most one accepted assertion, and a measurement is        *)
(* published exactly while its own assertion is accepted, however many     *)
(* curators decide at once.                                                *)
THEOREM MeasurementsFollow == Spec => []MeasurementFollowsDecision
<1>1. CurationInv => MeasurementFollowsDecision
  BY DEF CurationInv
<1> QED
  BY <1>1, CurationInvariant, PTL

(* Two curators never publish two snapshots of the variant.                *)
THEOREM OneSnapshot == Spec => []OneSnapshotPublished
<1>1. CurationInv => OneSnapshotPublished
  <2> SUFFICES ASSUME CurationInv PROVE OneSnapshotPublished
    OBVIOUS
  <2> DEFINE published == canonical \intersect Market
  <2>1. \A r, s \in published : r = s
    BY DEF CurationInv, IndexHeld
  <2>2. CASE published = {}
    BY <2>2, FS_EmptySet DEF OneSnapshotPublished
  <2>3. CASE published # {}
    <3>1. PICK r \in published : TRUE
      BY <2>3
    <3>2. published = {r}
      BY <2>1, <3>1
    <3>3. Cardinality({r}) = 1
      BY FS_Singleton
    <3> QED
      BY <3>2, <3>3 DEF OneSnapshotPublished
  <2> QED
    BY <2>2, <2>3
<1> QED
  BY <1>1, CurationInvariant, PTL

-----------------------------------------------------------------------------
(* The store a step leaves alone: what the view should show, and the       *)
(* requests nobody is about to close, stay what they were.                 *)
LEMMA RecordStays ==
  ASSUME RecordInv, UNCHANGED <<canonical, view, pending, lastRequest>>, Present' = Present,
         \A e \in Curator : pc'[e] = "settling" => pc[e] = "settling" /\ outstanding'[e] = outstanding[e],
         \A e \in Curator : outstanding'[e] \subseteq 1 .. lastRequest,
         import' = "refreshed" =>
            \/ import = "refreshed" /\ UNCHANGED <<captured, imported>>
            \/ captured' = Served(canonical, Present' \union imported')
  PROVE  RecordInv'
<1>1. Unsettled \subseteq Unsettled'
  BY DEF Unsettled
<1>2. (view # Served(canonical, Present))' => view # Served(canonical, Present)
  BY DEF Served
<1>3. (import = "refreshed" /\ captured # Served(canonical, Present \union imported))'
         => import = "refreshed" /\ captured # Served(canonical, Present \union imported)
  BY DEF Served
<1> QED
  BY <1>1, <1>2, <1>3 DEF RecordInv

(* A decision that changes a row leaves a request nobody has read; one     *)
(* that changes none leaves the view as true as it was.                    *)
LEMMA CommitRecords ==
  ASSUME CurationInv, RecordInv, NEW c \in Curator, Commit(c)
  PROVE  RecordInv'
<1>0. TypeOK
  BY DEF CurationInv
<1>1. /\ Present' = Present /\ flag[c] \in {"set", "clear", "keep"}
      /\ flag[c] = "keep" => canonical' = canonical
      /\ pc'[c] \in {"reading", "idle"} /\ \A e \in Curator \ {c} : pc'[e] = pc[e]
      /\ UNCHANGED <<view, outstanding, import, imported, captured>>
  BY CommitEffect DEF Flag, refresh, importer
<1>2. CASE flag[c] = "keep"
  <2>1. UNCHANGED <<canonical, view, pending, lastRequest>>
    BY <1>1, <1>2 DEF Commit
  <2>2. \A e \in Curator : pc'[e] = "settling" => pc[e] = "settling" /\ outstanding'[e] = outstanding[e]
    BY <1>1
  <2>3. \A e \in Curator : outstanding'[e] \subseteq 1 .. lastRequest
    BY <1>1 DEF RecordInv
  <2> QED
    BY <1>1, <2>1, <2>2, <2>3, RecordStays
<1>3. CASE flag[c] # "keep"
  <2>1. lastRequest \in Nat /\ lastRequest' = lastRequest + 1 /\ lastRequest' \in pending'
    BY <1>0, <1>3 DEF Commit, TypeOK
  <2>2. \A e \in Curator : outstanding'[e] \subseteq 1 .. lastRequest
    BY <1>1 DEF RecordInv
  <2>3. lastRequest' \in Unsettled'
    BY <2>1, <2>2 DEF Unsettled
  <2>4. \A e \in Curator : outstanding'[e] \subseteq 1 .. lastRequest'
    BY <2>1, <2>2
  <2> QED
    BY <2>3, <2>4 DEF RecordInv
<1> QED
  BY <1>1, <1>2, <1>3

(* A refresh closes only what it read before it computed the view, and the *)
(* view it installs is what the rows say.                                  *)
LEMMA RefreshRecords ==
  ASSUME CurationInv, RecordInv, FreshSnapshot, NEW c \in Curator,
         \/ CurateRefresh(c) \/ ReadOutstanding(c) \/ StartRebuild(c)
         \/ InstallRebuilt(c) \/ Settle(c) \/ RefreshFails(c)
  PROVE  RecordInv'
<1>0. TypeOK
  BY DEF CurationInv
<1>1. UNCHANGED <<status, canonical, lastRequest, import, imported, captured>> /\ Present' = Present
  BY DEF CurateRefresh, ReadOutstanding, StartRebuild, InstallRebuilt, Settle, RefreshFails, store,
         importer, Present
<1>2. \A e \in Curator : outstanding'[e] \subseteq 1 .. lastRequest
  BY <1>0 DEF CurateRefresh, ReadOutstanding, StartRebuild, InstallRebuilt, Settle, RefreshFails,
              TypeOK, refresh, RecordInv
<1>3. CASE CurateRefresh(c) \/ ReadOutstanding(c) \/ StartRebuild(c) \/ RefreshFails(c)
  <2>1. UNCHANGED <<view, pending>>
    BY <1>3 DEF CurateRefresh, ReadOutstanding, StartRebuild, RefreshFails, store
  <2>2. \A e \in Curator : pc'[e] = "settling" => pc[e] = "settling" /\ outstanding'[e] = outstanding[e]
    BY <1>0, <1>3 DEF CurateRefresh, ReadOutstanding, StartRebuild, RefreshFails, GoTo, TypeOK, refresh
  <2> QED
    BY <1>1, <1>2, <2>1, <2>2, RecordStays
<1>4. CASE InstallRebuilt(c)
  <2>1. view' = Served(canonical, Present) /\ import' # "refreshed"
    BY <1>0, <1>1, <1>4 DEF InstallRebuilt, FreshSnapshot, GoTo, TypeOK
  <2>2. Served(canonical, Present)' = Served(canonical, Present)
    BY <1>1 DEF Served
  <2> QED
    BY <1>1, <1>2, <2>1, <2>2 DEF RecordInv
<1>5. CASE Settle(c)
  <2>1. Unsettled \subseteq Unsettled'
    BY <1>0, <1>5 DEF Unsettled, Settle, GoTo, TypeOK
  <2>2. (view # Served(canonical, Present))' => view # Served(canonical, Present)
    BY <1>1, <1>5 DEF Served, Settle
  <2>3. (import = "refreshed" /\ captured # Served(canonical, Present \union imported))'
           => import = "refreshed" /\ captured # Served(canonical, Present \union imported)
    BY <1>1 DEF Served
  <2> QED
    BY <1>1, <1>2, <2>1, <2>2, <2>3 DEF RecordInv
<1> QED
  BY <1>3, <1>4, <1>5

(* An import installs what it captured, which a decision committed since   *)
(* may have overtaken: that decision's request is still there.             *)
LEMMA ImportRecords ==
  ASSUME CurationInv, RecordInv, FreshSnapshot, Import
  PROVE  RecordInv'
<1>0. TypeOK /\ imported \subseteq Assertion
  BY DEF CurationInv, TypeOK
<1>1. UNCHANGED <<canonical, pending, lastRequest, pc, outstanding>>
  BY DEF Import, ImportStage, ImportStartRefresh, ImportRefreshed, ImportCommit, ImportAbort, ImportEnds,
         store, refresh
<1>2. /\ \A e \in Curator : pc'[e] = "settling" => pc[e] = "settling" /\ outstanding'[e] = outstanding[e]
      /\ \A e \in Curator : outstanding'[e] \subseteq 1 .. lastRequest
  BY <1>1 DEF RecordInv
<1>3. CASE ImportCommit
  <2>1. view' = captured /\ import = "refreshed" /\ import' = "idle" /\ Present' = Present \union imported
    BY <1>0, <1>3 DEF ImportCommit, ImportEnds, Present, TypeOK
  <2>2. Served(canonical, Present)' = Served(canonical, Present \union imported)
    BY <1>1, <2>1 DEF Served
  <2>3. Unsettled' = Unsettled
    BY <1>1 DEF Unsettled
  <2> QED
    BY <1>1, <1>2, <2>1, <2>2, <2>3 DEF RecordInv
<1>4. CASE ~ImportCommit
  <2>1. UNCHANGED <<status, view>> /\ Present' = Present
    BY <1>4 DEF Import, ImportStage, ImportStartRefresh, ImportRefreshed, ImportAbort, store, Present
  <2>2. import' = "refreshed" => import = "refreshing" /\ UNCHANGED <<captured, imported>>
    BY <1>4 DEF Import, ImportStage, ImportStartRefresh, ImportRefreshed, ImportAbort, ImportEnds
  <2>3. import' = "refreshed" => captured' = Served(canonical, Present' \union imported')
    BY <2>1, <2>2 DEF FreshSnapshot
  <2> QED
    BY <1>1, <1>2, <2>1, <2>2, <2>3, RecordStays
<1> QED
  BY <1>3, <1>4

(* Every step keeps the record of stale views.                             *)
LEMMA RecordStep ==
  CurationInv /\ RecordInv /\ [Next /\ FreshSnapshot]_vars => RecordInv'
<1> SUFFICES ASSUME CurationInv, RecordInv, [Next /\ FreshSnapshot]_vars PROVE RecordInv'
  OBVIOUS
<1>1. CASE UNCHANGED vars
  BY <1>1 DEF vars, store, refresh, importer, RecordInv, Unsettled, Served, Present
<1>2. ASSUME NEW c \in Curator,
             (\E a \in Assertion, d \in Decision : Decide(c, a, d))
                \/ Evaluate(c) \/ SkipFlag(c) \/ WriteFlag(c) \/ GiveUp(c)
      PROVE  RecordInv'
  <2>1. UNCHANGED <<store, view, refresh, importer>>
    BY <1>2 DEF Decide, Evaluate, SkipFlag, WriteFlag, GiveUp
  <2>2. \A e \in Curator : pc'[e] = "settling" => pc[e] = "settling"
    BY <1>2 DEF CurationInv, TypeOK, Decide, Evaluate, SkipFlag, WriteFlag, GiveUp, GoTo
  <2> QED
    BY <2>1, <2>2, RecordStays DEF store, refresh, importer, Present, RecordInv
<1> QED
  BY <1>1, <1>2, CommitRecords, RefreshRecords, ImportRecords DEF Next, Curate

(* A stale view is always on record, provided that a refresh has its view  *)
(* before anything else commits (FreshSpec).                               *)
THEOREM StaleViewsAreRecorded == FreshSpec => []StaleIsRecorded
<1>1. Init => CurationInv /\ RecordInv
  BY CurationInit
<1>2. CurationInv /\ RecordInv /\ [Next /\ FreshSnapshot]_vars => (CurationInv /\ RecordInv)'
  <2>1. [Next /\ FreshSnapshot]_vars => [Next]_vars
    OBVIOUS
  <2> QED
    BY <2>1, CurationStep, RecordStep
<1>3. CurationInv /\ RecordInv => StaleIsRecorded
  BY DEF RecordInv, StaleIsRecorded, Unsettled
<1> QED
  BY <1>1, <1>2, <1>3, PTL DEF FreshSpec

-----------------------------------------------------------------------------
(* No step takes a row or a decision of an assertion back.                 *)
DecisionsLast ==
  \A a \in Present : a \in Present' /\ (status[a] \in Decision => status'[a] \in Decision)

LEMMA DecidedStays ==
  ASSUME DecisionsLast, NEW k, Decided(k)
  PROVE  Decided(k)'
<1>1. PICK b \in Present : Key(b) = k /\ status[b] \in Decision
  BY DEF Decided
<1>2. b \in Present' /\ status'[b] \in Decision
  BY <1>1 DEF DecisionsLast
<1> QED
  BY <1>1, <1>2 DEF Decided, Key

(* A decision that nobody touches has seen what it had seen.               *)
LEMMA SawStays ==
  ASSUME DecisionsLast, NEW c \in Curator, SawDecided(c),
         pc'[c] = pc[c], target'[c] = target[c], flag'[c] = flag[c]
  PROVE  SawDecided(c)'
  BY DecidedStays DEF SawDecided, Key

(* A step that publishes no snapshot.                                      *)
LEMMA NothingPublished ==
  ASSUME DecidedInv, DecisionsLast, canonical' \intersect Market \subseteq canonical,
         \A c \in Curator : SawDecided(c)'
  PROVE  DecidedInv'
<1>1. Initial \subseteq Present'
  BY DEF DecidedInv, DecisionsLast
<1>2. PublishedIsDecided'
  <2> SUFFICES ASSUME NEW a \in Initial, EntityOf[a] \in canonical' \intersect Market PROVE Decided(Key(a))'
    BY DEF PublishedIsDecided, Key, Decided
  <2>1. Decided(Key(a))
    BY DEF DecidedInv, PublishedIsDecided
  <2> QED
    BY <2>1, DecidedStays DEF Key
<1> QED
  BY <1>1, <1>2 DEF DecidedInv

(* What a decision judges to be publishable has no undecided field.        *)
LEMMA JudgedDecided ==
  ASSUME DecidedInv, NEW c \in Curator, Publishable(c, EntityOf[target[c]]),
         NEW a \in Initial, EntityOf[a] = EntityOf[target[c]]
  PROVE  Key(a) = Key(target[c]) \/ Decided(Key(a))
<1>1. a \in Present
  BY DEF DecidedInv
<1>2. PICK b \in Present : EntityOf[b] = EntityOf[a] /\ FieldOf[b] = FieldOf[a] /\ Seen(c, b) = "ACCEPTED"
  BY <1>1 DEF Publishable
<1>3. Key(b) = Key(a)
  BY <1>2 DEF Key
<1>4. CASE b = target[c]
  BY <1>3, <1>4
<1>5. CASE b # target[c]
  BY <1>2, <1>3, <1>5 DEF Seen, Decided, Decision
<1> QED
  BY <1>4, <1>5

(* A decision commits: its row is published with fields that are decided.  *)
LEMMA DecidedCommit ==
  ASSUME CurationInv, DecidedInv, NEW c \in Curator, Commit(c)
  PROVE  DecidedInv'
<1>0. SawDecided(c) /\ PublishedIsDecided
  BY DEF DecidedInv
<1>1. DecisionsLast
  <2> SUFFICES ASSUME NEW a \in Present PROVE a \in Present' /\ (status[a] \in Decision => status'[a] \in Decision)
    BY DEF DecisionsLast
  <2>1. a \in Present' /\ a \in Assertion
    BY CommitEffect DEF Present
  <2>2. CASE a = target[c]
    BY <2>1, <2>2, CommitEffect
  <2>3. CASE a # target[c]
    BY <2>1, <2>3, CommitEffect
  <2> QED
    BY <2>1, <2>2, <2>3
<1>2. \A d \in Curator : SawDecided(d)'
  <2> SUFFICES ASSUME NEW d \in Curator PROVE SawDecided(d)'
    OBVIOUS
  <2>1. CASE d = c
    BY <2>1, CommitEffect DEF SawDecided, InTransaction
  <2>2. CASE d # c
    <3>1. SawDecided(d) /\ pc'[d] = pc[d] /\ target'[d] = target[d] /\ flag'[d] = flag[d]
      BY <2>2, CommitEffect DEF DecidedInv
    <3> QED
      BY <1>1, <3>1, SawStays
  <2> QED
    BY <2>1, <2>2
<1>3. CASE flag[c] = "set" /\ EntityOf[target[c]] \in Market
  <2>1. /\ target[c] \in Assertion /\ canonical' = canonical \union {EntityOf[target[c]]}
        /\ target[c] \in Present' /\ status'[target[c]] \in Decision
    BY <1>3, CommitEffect, RowsApart DEF Present
  <2>2. ASSUME NEW t \in Assertion, t = target[c] PROVE Decided(Key(t))'
    BY <2>1, <2>2 DEF Decided, Key
  <2>3. PublishedIsDecided'
    <3> SUFFICES ASSUME NEW a \in Initial, EntityOf[a] \in canonical' \intersect Market PROVE Decided(Key(a))'
      BY DEF PublishedIsDecided, Key, Decided
    <3>1. CASE EntityOf[a] = EntityOf[target[c]]
      <4>1. Key(a) = Key(target[c]) \/ Decided(Key(a))
        BY <1>0, <1>3, <3>1, CommitEffect DEF SawDecided, InTransaction
      <4>2. PICK t \in Assertion : t = target[c]
        BY <2>1
      <4>3. CASE Key(a) = Key(t)
        BY <2>2, <4>2, <4>3 DEF Decided, Key
      <4>4. CASE Decided(Key(a))
        BY <1>1, <4>4, DecidedStays DEF Key
      <4> QED
        BY <4>1, <4>2, <4>3, <4>4
    <3>2. CASE EntityOf[a] # EntityOf[target[c]]
      <4>1. Decided(Key(a))
        BY <1>0, <2>1, <3>2 DEF PublishedIsDecided
      <4> QED
        BY <1>1, <4>1, DecidedStays DEF Key
    <3> QED
      BY <3>1, <3>2
  <2> QED
    BY <1>1, <1>2, <2>3 DEF DecidedInv, DecisionsLast
<1>4. CASE ~(flag[c] = "set" /\ EntityOf[target[c]] \in Market)
  <2>1. canonical' \intersect Market \subseteq canonical
    BY <1>4, CommitEffect, RowsApart DEF Flag, Present
  <2> QED
    BY <1>1, <1>2, <2>1, NothingPublished
<1> QED
  BY <1>3, <1>4

(* Every step keeps an undecided field from being published.               *)
LEMMA DecidedStep ==
  ASSUME CurationInv, DecidedInv, [Next]_vars
  PROVE  DecidedInv'
<1>0. TypeOK /\ DecisionsStand /\ \A c \in Curator : SawDecided(c)
  BY DEF CurationInv, DecidedInv
<1>1. CASE UNCHANGED vars
  <2>1. UNCHANGED <<status, canonical, pc, target, flag>>
    BY <1>1 DEF vars, store, decision
  <2>2. DecisionsLast
    BY <2>1 DEF DecisionsLast, Present
  <2> QED
    BY <1>0, <2>1, <2>2, SawStays, NothingPublished
<1>2. ASSUME NEW c \in Curator,
             \/ \E a \in Assertion, d \in Decision : Decide(c, a, d)
             \/ Evaluate(c) \/ SkipFlag(c) \/ WriteFlag(c)
             \/ GiveUp(c) \/ CurateRefresh(c) \/ ReadOutstanding(c) \/ StartRebuild(c)
             \/ InstallRebuilt(c) \/ Settle(c) \/ RefreshFails(c)
      PROVE  DecidedInv'
  <2>1. /\ UNCHANGED <<status, canonical>>
        /\ \A d \in Curator \ {c} : pc'[d] = pc[d] /\ target'[d] = target[d] /\ flag'[d] = flag[d]
    BY <1>0, <1>2 DEF Decide, Evaluate, SkipFlag, WriteFlag, GiveUp, CurateRefresh, ReadOutstanding,
                      StartRebuild, InstallRebuilt, Settle, RefreshFails, EndTransaction, GoTo, TypeOK,
                      store, decision
  <2>2. DecisionsLast
    BY <2>1 DEF DecisionsLast, Present
  <2>3. SawDecided(c)'
    <3>1. CASE pc'[c] \notin InTransaction \/ pc'[c] = "decided" \/ flag'[c] = "keep"
      BY <3>1 DEF SawDecided
    <3>2. CASE Evaluate(c)
      <4>1. UNCHANGED target
        BY <3>2 DEF Evaluate
      <4>2. ASSUME flag'[c] = "set", EntityOf[target[c]] \in Market
            PROVE  Publishable(c, EntityOf[target[c]])
        BY <1>0, <3>2, <4>2 DEF Evaluate, TypeOK, ShouldPublish
      <4>3. SUFFICES ASSUME flag'[c] = "set", EntityOf[target[c]] \in Market,
                            NEW a \in Initial, EntityOf[a] = EntityOf[target[c]]
                     PROVE  Key(a) = Key(target[c]) \/ Decided(Key(a))'
        BY <4>1 DEF SawDecided, Key, Decided
      <4>4. Key(a) = Key(target[c]) \/ Decided(Key(a))
        BY <4>2, <4>3, JudgedDecided
      <4> QED
        BY <2>2, <4>4, DecidedStays DEF Key
    <3>3. CASE WriteFlag(c)
      <4>1. pc[c] = "evaluated" /\ pc'[c] = "applied" /\ target'[c] = target[c] /\ flag'[c] = flag[c]
        BY <1>0, <3>3 DEF WriteFlag, GoTo, TypeOK, decision
      <4> QED
        BY <1>0, <2>2, <4>1, DecidedStays DEF SawDecided, InTransaction, Key
    <3>4. CASE ~(Evaluate(c) \/ WriteFlag(c))
      <4>1. pc'[c] \notin InTransaction \/ pc'[c] = "decided" \/ flag'[c] = "keep"
        BY <1>0, <1>2, <3>4 DEF Decide, SkipFlag, GiveUp, CurateRefresh, ReadOutstanding, StartRebuild,
                                InstallRebuilt, Settle, RefreshFails, GoTo, TypeOK, InTransaction
      <4> QED
        BY <3>1, <4>1
    <3> QED
      BY <3>2, <3>3, <3>4
  <2>4. \A d \in Curator : SawDecided(d)'
    BY <1>0, <2>1, <2>2, <2>3, SawStays
  <2> QED
    BY <2>1, <2>2, <2>4, NothingPublished
<1>3. CASE Import
  <2>1. UNCHANGED <<canonical, pc, target, flag>>
    BY <1>3 DEF Import, ImportStage, ImportStartRefresh, ImportRefreshed, ImportCommit, ImportAbort,
                ImportEnds, store, decision
  <2>2. \A a \in Present : a \in Assertion /\ status'[a] = status[a]
    BY <1>0, <1>3 DEF Import, ImportStage, ImportStartRefresh, ImportRefreshed, ImportCommit, ImportAbort,
                      store, DecisionsStand, Present
  <2>3. DecisionsLast
    BY <2>2 DEF DecisionsLast, Present
  <2> QED
    BY <1>0, <2>1, <2>3, SawStays, NothingPublished
<1> QED
  BY <1>1, <1>2, <1>3, DecidedCommit DEF Next, Curate

(* Of what was asserted on a snapshot from the beginning, no field that    *)
(* nobody ever decided is published with it, for any number of curators    *)
(* and whatever later imports add (publish_decision).                      *)
THEOREM PublishedFieldsAreDecided == Spec => []PublishedIsDecided
<1>1. Init => CurationInv /\ DecidedInv
  <2> SUFFICES ASSUME Init PROVE CurationInv /\ DecidedInv
    OBVIOUS
  <2>1. Initial \subseteq Present
    BY DEF Init, Present
  <2>2. (\A c \in Curator : SawDecided(c)) /\ PublishedIsDecided
    BY DEF Init, SawDecided, InTransaction, PublishedIsDecided
  <2> QED
    BY <2>1, <2>2, CurationInit DEF DecidedInv
<1>2. CurationInv /\ DecidedInv /\ [Next]_vars => (CurationInv /\ DecidedInv)'
  BY CurationStep, DecidedStep
<1>3. DecidedInv => PublishedIsDecided
  BY DEF DecidedInv
<1> QED
  BY <1>1, <1>2, <1>3, PTL DEF Spec
=============================================================================
