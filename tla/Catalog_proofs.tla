---------------------------- MODULE Catalog_proofs ----------------------------
(***************************************************************************)
(* Proofs about Catalog and the imports of Promotion it is composed with,  *)
(* for every set of imports, batches of records, days, clients and page    *)
(* size.                                                                   *)
(*                                                                         *)
(* RowInv speaks of the rows, committed and about to be, and is kept by    *)
(* every upsert whose value is RowOk, and by the end of an import.         *)
(* ControlInv follows an import through its batch.  ScanInv follows a      *)
(* client through the pages.                                               *)
(***************************************************************************)
EXTENDS Catalog, FiniteSetTheorems, SequenceTheorems, TLAPS

USE RecordAssumption, BatchAssumption, NullAssumption, LimitAssumption, SlugAssumption

(* The rows of each kind.                                                  *)
LEMMA RowKinds ==
  /\ \A m \in Maker : <<"organization", Slugify[m]>> \in Row /\ <<"family", Slugify[m]>> \in Row
  /\ \A r \in Records : <<"model", ModelSlug(r)>> \in Row
  /\ \A k \in Key : <<"variant", k>> \in Row
  /\ \A k \in Key, d \in Day : <<"valuation", <<k, d>>>> \in Row /\ <<"costs", <<k, d>>>> \in Row
  /\ \A e \in Engine : <<"engine", e>> \in Row
  /\ \A k \in Key, e \in Engine : <<"powerplant", <<k, e>>>> \in Row
  /\ <<"source", "scraped">> \in Row
  BY DEF Row

(* A variant row is keyed by its ingest key.                               *)
LEMMA VariantRows ==
  ASSUME NEW row \in Row, row[1] = "variant"
  PROVE  row[2] \in Key /\ row = <<"variant", row[2]>>
  BY DEF Row

(* A powerplant row names an engine.                                       *)
LEMMA PowerplantRows ==
  ASSUME NEW row \in Row, row[1] = "powerplant"
  PROVE  row[2][2] \in Engine /\ row = <<"powerplant", row[2]>>
  BY DEF Row

(* The fields of a record.                                                 *)
LEMMA Fields ==
  ASSUME NEW r \in Records
  PROVE  /\ r.key \in Key /\ r.maker \in Maker /\ (r.engine # Null => r.engine \in Engine)
         /\ r.start \in Year /\ r.end \in Year /\ r.engines \in EngineNumber
         /\ r.start # Null /\ r.end # Null => r.start <= r.end
         /\ \A i \in DOMAIN r.costs : r.costs[i] \in Amount
<1>1. r.key \in Key /\ r.maker \in Maker /\ (r.engine # Null => r.engine \in Engine)
  BY DEF Key, Maker, Engine
<1>2. r.start \in Year /\ r.end \in Year /\ r.engines \in EngineNumber
  BY DEF Year, EngineNumber
<1>3. r.start # Null /\ r.end # Null => r.start <= r.end
  OBVIOUS
<1>4. ASSUME NEW i \in DOMAIN r.costs
      PROVE  r.costs[i] \in Amount
  BY DEF Amount
<1> QED
  BY <1>1, <1>2, <1>3, <1>4

(* The record at hand.                                                     *)
LEMMA CurrentRecord ==
  ASSUME ControlInv, NEW t \in Import, at[t] \in Statements
  PROVE  /\ batch[t] \in Seq(Records) /\ done[t] \in Nat /\ done[t] + 1 \in DOMAIN batch[t]
         /\ Current(t) = batch[t][done[t] + 1] /\ Current(t) \in Records
         /\ done[t] < Len(batch[t]) /\ Len(batch[t]) \in Nat
<1>1. batch[t] \in Seq(Records) /\ done[t] < Len(batch[t]) /\ done[t] \in Nat
  BY DEF ControlInv, ControlTypeOK, Progress
<1>2. Len(batch[t]) \in Nat /\ DOMAIN batch[t] = 1 .. Len(batch[t])
  BY <1>1
<1>3. done[t] + 1 \in DOMAIN batch[t]
  BY <1>1, <1>2
<1> QED
  BY <1>1, <1>2, <1>3 DEF Current

-----------------------------------------------------------------------------
(***************************************************************************)
(* Upserts.                                                                *)
(***************************************************************************)
LEMMA Upserted ==
  ASSUME Shape, NEW t \in Import, NEW row, NEW v, Upsert(t, row, v)
  PROVE  /\ \A u \in Import \ {t} : mine'[u] = mine[u] /\ row \notin DOMAIN mine[u]
         /\ DOMAIN mine'[t] = DOMAIN mine[t] \union {row}
         /\ mine'[t][row] = v
         /\ \A other \in DOMAIN mine[t] \ {row} : mine'[t][other] = mine[t][other]
         /\ mine' = [u \in Import |-> mine'[u]]
<1> DEFINE f == [other \in {row} \union DOMAIN mine[t] |-> IF other = row THEN v ELSE mine[t][other]]
<1>1. mine' = [mine EXCEPT ![t] = f]
  BY DEF Upsert
<1>2. DOMAIN mine = Import
  BY DEF Shape
<1>3. mine'[t] = f /\ mine' = [u \in Import |-> mine'[u]]
      /\ \A u \in Import \ {t} : mine'[u] = mine[u]
  BY <1>1, <1>2
<1> QED
  BY <1>3 DEF Upsert, Busy

(* What an upsert may write.                                               *)
RowOk(t, row, v) ==
    /\ row \in Row /\ Written(t, row, v)

(* An upsert of such a value keeps every row as it should be.              *)
LEMMA UpsertKeeps ==
  ASSUME RowInv, NEW t \in Import, NEW row, NEW v, Upsert(t, row, v), RowOk(t, row, v), db' = db
  PROVE  RowInv'
<1>1. Shape' /\ RowsExclusive'
  <2>1. Shape /\ RowsExclusive /\ row \in Row
    BY DEF RowInv, RowOk
  <2>2. Shape'
    BY <2>1, Upserted DEF Shape
  <2>3. RowsExclusive'
    BY <2>1, Upserted DEF RowsExclusive
  <2> QED
    BY <2>2, <2>3
<1>2. ASSUME NEW u \in Import, NEW o \in DOMAIN mine'[u]
      PROVE  \/ o = row /\ u = t /\ mine'[u][o] = v
             \/ o \in DOMAIN mine[u] /\ mine'[u][o] = mine[u][o] /\ (o = row => u = t /\ FALSE)
  BY Upserted, <1>2 DEF RowInv
<1>3. ASSUME NEW o \in Row, NEW w, Apart(o, w), o[1] = "variant" /\ o # row /\ row[1] = "variant" => v.slug # w.slug
      PROVE  Apart(o, w)'
  <2> SUFFICES ASSUME o[1] = "variant", NEW other \in Row \ {o}, other[1] = "variant"
               PROVE  /\ db'[other] # Null => db'[other].slug # w.slug
                      /\ \A u \in Import : other \in DOMAIN mine'[u] => mine'[u][other].slug # w.slug
    BY DEF Apart
  <2> QED
    BY <1>2, <1>3 DEF Apart
<1>4. ASSUME NEW o \in Row, NEW w, w = db'[o], w # Null PROVE Committed(o, w)'
  <2>1. Committed(o, w)
    BY <1>4 DEF RowInv
  <2>2. o[1] = "variant" /\ o # row /\ row[1] = "variant" => v.slug # w.slug
    BY <1>4 DEF RowOk, Written, Apart
  <2>3. Apart(o, w)'
    BY <1>3, <2>1, <2>2 DEF Committed
  <2> QED
    BY <2>1, <2>3 DEF Committed
<1>5. ASSUME NEW u \in Import, NEW o \in DOMAIN mine'[u], NEW w, w = mine'[u][o] PROVE Written(u, o, w)'
  <2>1. Written(u, o, w) /\ o \in Row
    BY <1>2, <1>5 DEF RowInv, RowOk, Shape
  <2>2. o[1] = "variant" /\ o # row /\ row[1] = "variant" => v.slug # w.slug
    BY <1>2, <1>5, <2>1 DEF RowOk, Written, Apart
  <2>3. Apart(o, w)'
    BY <1>3, <2>1, <2>2 DEF Written
  <2>4. Standing(o, w)'
    BY <2>1 DEF Written, Standing
  <2>5. Guarded(u, o, w)'
    <3>1. DOMAIN mine[u] \subseteq DOMAIN mine'[u]
      BY Upserted DEF RowInv
    <3>2. Guarded(u, o, w)
      BY <2>1 DEF Written
    <3> QED
      BY <3>1, <3>2 DEF Guarded
  <2> QED
    BY <2>1, <2>3, <2>4, <2>5 DEF Written
<1>6. \A o \in Row : db'[o] # Null => Committed(o, db[o])'
  BY <1>4
<1>7. \A u \in Import : \A o \in DOMAIN mine'[u] : Written(u, o, mine[u][o])'
  BY <1>5
<1> QED
  BY <1>1, <1>6, <1>7 DEF RowInv

(* The end of an import: its rows are committed.                           *)
LEMMA CommitKeeps ==
  ASSUME RowInv, ControlInv, NEW t \in Import, Commit(t)
  PROVE  RowInv'
<1>1. /\ db' = [row \in Row |-> Seen(t, row)]
      /\ mine' = [mine EXCEPT ![t] = <<>>]
      /\ Shape /\ RowsExclusive
  BY DEF Commit, RowInv
<1>2. /\ mine'[t] = <<>> /\ DOMAIN mine'[t] = {} /\ mine' = [u \in Import |-> mine'[u]]
      /\ \A u \in Import \ {t} : mine'[u] = mine[u]
  BY <1>1 DEF Shape
<1>3. Shape' /\ RowsExclusive'
  BY <1>1, <1>2 DEF Shape, RowsExclusive
<1>4. ASSUME NEW o \in Row
      PROVE  \/ o \in DOMAIN mine[t] /\ db'[o] = mine[t][o]
             \/ o \notin DOMAIN mine[t] /\ db'[o] = db[o]
  BY <1>1 DEF Seen
<1>5. ASSUME NEW o \in Row, NEW w, Apart(o, w) PROVE Apart(o, w)'
  <2> SUFFICES ASSUME o[1] = "variant", NEW other \in Row \ {o}, other[1] = "variant"
               PROVE  /\ db'[other] # Null => db'[other].slug # w.slug
                      /\ \A u \in Import : other \in DOMAIN mine'[u] => mine'[u][other].slug # w.slug
    BY DEF Apart
  <2>1. /\ db[other] # Null => db[other].slug # w.slug
        /\ \A u \in Import : other \in DOMAIN mine[u] => mine[u][other].slug # w.slug
    BY <1>5 DEF Apart
  <2> QED
    BY <1>2, <1>4, <2>1
<1>6. ASSUME NEW o \in Row, NEW w, w = db'[o], w # Null PROVE Committed(o, w)'
  <2>1. CASE o \in DOMAIN mine[t] /\ w = mine[t][o]
    <3>1. Written(t, o, w)
      BY <2>1 DEF RowInv
    <3>2. o[1] = "variant" => \A l, m \in Primaries(w) : l = m
      BY <3>1 DEF Written
    <3> QED
      BY <1>5, <3>1, <3>2 DEF Written, Committed
  <2>2. CASE o \notin DOMAIN mine[t] /\ w = db[o]
    <3>1. Committed(o, w)
      BY <1>6, <2>2 DEF RowInv
    <3> QED
      BY <1>5, <3>1 DEF Committed
  <2> QED
    BY <1>4, <1>6, <2>1, <2>2
<1>7. ASSUME NEW u \in Import, NEW o \in DOMAIN mine'[u], NEW w, w = mine'[u][o] PROVE Written(u, o, w)'
  <2>1. /\ u # t /\ o \in DOMAIN mine[u] /\ w = mine[u][o] /\ o \in Row
    BY <1>1, <1>2, <1>7 DEF Shape
  <2>2. o \notin DOMAIN mine[t]
    BY <1>1, <2>1 DEF RowsExclusive
  <2>3. Written(u, o, w) /\ db'[o] = db[o] /\ mine'[u] = mine[u]
    BY <1>2, <1>4, <2>1, <2>2 DEF RowInv
  <2>4. Standing(o, w)' /\ Guarded(u, o, w)'
    BY <2>3 DEF Written, Standing, Guarded
  <2>5. Apart(o, w)'
    BY <1>5, <2>1, <2>3 DEF Written
  <2> QED
    BY <2>3, <2>4, <2>5 DEF Written
<1>8. \A o \in Row : db'[o] # Null => Committed(o, db[o])'
  BY <1>6
<1>9. \A u \in Import : \A o \in DOMAIN mine'[u] : Written(u, o, mine[u][o])'
  BY <1>7
<1> QED
  BY <1>3, <1>8, <1>9 DEF RowInv

(* A rollback takes the rows of one import away.                           *)
LEMMA AbortKeeps ==
  ASSUME RowInv, NEW t \in Import, Abort(t)
  PROVE  RowInv'
<1>1. /\ db' = db /\ mine' = [mine EXCEPT ![t] = <<>>] /\ Shape /\ RowsExclusive
  BY DEF Abort, RowInv
<1>2. /\ mine'[t] = <<>> /\ DOMAIN mine'[t] = {} /\ mine' = [u \in Import |-> mine'[u]]
      /\ \A u \in Import \ {t} : mine'[u] = mine[u]
  BY <1>1 DEF Shape
<1>3. Shape' /\ RowsExclusive'
  BY <1>1, <1>2 DEF Shape, RowsExclusive
<1>4. ASSUME NEW o \in Row, NEW w, Apart(o, w) PROVE Apart(o, w)'
  BY <1>1, <1>2, <1>4 DEF Apart
<1>5. ASSUME NEW o \in Row, NEW w, w = db'[o], w # Null PROVE Committed(o, w)'
  BY <1>1, <1>4, <1>5 DEF RowInv, Committed
<1>6. ASSUME NEW u \in Import, NEW o \in DOMAIN mine'[u], NEW w, w = mine'[u][o] PROVE Written(u, o, w)'
  <2>1. /\ u # t /\ o \in DOMAIN mine[u] /\ w = mine[u][o] /\ o \in Row /\ mine'[u] = mine[u]
    BY <1>1, <1>2, <1>6 DEF Shape
  <2>2. Written(u, o, w)
    BY <2>1 DEF RowInv
  <2>3. Apart(o, w)' /\ Standing(o, w)' /\ Guarded(u, o, w)'
    BY <1>1, <1>4, <2>1, <2>2 DEF Written, Standing, Guarded
  <2> QED
    BY <2>2, <2>3 DEF Written
<1>7. \A o \in Row : db'[o] # Null => Committed(o, db[o])'
  BY <1>5
<1>8. \A u \in Import : \A o \in DOMAIN mine'[u] : Written(u, o, mine[u][o])'
  BY <1>6
<1> QED
  BY <1>3, <1>7, <1>8 DEF RowInv

(* A curator changes who is primary, and only that.                        *)
LEMMA DemoteKeeps ==
  ASSUME RowInv, NEW k \in Key, Demote(k)
  PROVE  RowInv'
<1> DEFINE row == <<"variant", k>>
           old == db[row]
           new == [old EXCEPT !.links = {[m EXCEPT !.primary = FALSE] : m \in @}]
<1>1. /\ row \in Row /\ old # Null /\ mine' = mine /\ Shape /\ RowsExclusive
      /\ \A t \in Import : row \notin DOMAIN mine[t]
      /\ db' = [db EXCEPT ![row] = new]
  BY RowKinds DEF Demote, RowInv
<1>2. Committed(row, old) /\ old \in VariantRow
  BY <1>1 DEF RowInv, Committed, Sound
<1>3. /\ new \in VariantRow /\ new.slug = old.slug /\ new.start = old.start /\ new.end = old.end
      /\ Primaries(new) = {}
  <2>1. \A m \in Link : [m EXCEPT !.primary = FALSE] \in Link /\ [m EXCEPT !.primary = FALSE].primary = FALSE
    BY DEF Link
  <2>2. old.links \subseteq Link
    BY <1>2 DEF VariantRow
  <2> DEFINE links == {[m EXCEPT !.primary = FALSE] : m \in old.links}
  <2>3. links \subseteq Link /\ \A l \in links : ~l.primary
    BY <2>1, <2>2
  <2>4. new = [old EXCEPT !.links = links]
    OBVIOUS
  <2> HIDE DEF links
  <2>5. /\ new \in VariantRow /\ new.slug = old.slug /\ new.start = old.start /\ new.end = old.end
        /\ new.links = links
    BY <1>2, <2>3, <2>4 DEF VariantRow
  <2> QED
    BY <2>3, <2>5 DEF Primaries
<1> HIDE DEF row, old, new
<1>4. Shape' /\ RowsExclusive' /\ db'[row] = new /\ \A o \in Row \ {row} : db'[o] = db[o]
  BY <1>1 DEF Shape, RowsExclusive
<1>5. new # Null
  BY <1>3
<1>6. ASSUME NEW o \in Row, NEW w, Apart(o, w) PROVE Apart(o, w)'
  BY <1>1, <1>3, <1>4, <1>6 DEF Apart, old
<1>7. ASSUME NEW o \in Row, NEW w, w = db'[o], w # Null PROVE Committed(o, w)'
  <2>1. CASE o = row
    <3>1. w = new /\ o[1] = "variant" /\ o = row
      BY <1>4, <1>7, <2>1 DEF row
    <3>2. Sound(o, w)
      BY <1>2, <1>3, <3>1 DEF Committed, Sound
    <3>3. Apart(o, w)
      BY <1>2, <1>3, <3>1 DEF Committed, Apart
    <3> QED
      BY <1>3, <1>6, <3>1, <3>2, <3>3 DEF Committed
  <2>2. CASE o # row
    BY <1>4, <1>6, <1>7, <2>2 DEF RowInv, Committed
  <2> QED
    BY <2>1, <2>2
<1>8. ASSUME NEW u \in Import, NEW o \in DOMAIN mine'[u], NEW w, w = mine'[u][o] PROVE Written(u, o, w)'
  <2>1. /\ o \in DOMAIN mine[u] /\ w = mine[u][o] /\ o \in Row /\ o # row /\ db'[o] = db[o]
    BY <1>1, <1>4, <1>8 DEF Shape
  <2>2. Written(u, o, w)
    BY <2>1 DEF RowInv
  <2>3. Apart(o, w)' /\ Standing(o, w)' /\ Guarded(u, o, w)'
    BY <1>1, <1>6, <2>1, <2>2 DEF Written, Standing, Guarded
  <2> QED
    BY <2>2, <2>3 DEF Written
<1>9. \A o \in Row : db'[o] # Null => Committed(o, db[o])'
  BY <1>7
<1>10. \A u \in Import : \A o \in DOMAIN mine'[u] : Written(u, o, mine[u][o])'
  BY <1>8
<1> QED
  BY <1>4, <1>9, <1>10 DEF RowInv

-----------------------------------------------------------------------------
(***************************************************************************)
(* What the statements write.                                              *)
(***************************************************************************)
LEMMA PlainOk ==
  ASSUME RowInv, NEW t \in Import, NEW row \in Row, NEW v,
         row[1] \notin {"variant", "powerplant", "valuation", "costs"}
  PROVE  RowOk(t, row, v)
  BY DEF RowOk, Written, Sound, Apart, Standing, Guarded

(* A count may be written over any other.                                  *)
LEMMA PowerplantOk ==
  ASSUME RowInv, NEW t \in Import, NEW row \in Row, NEW v \in PowerplantRow, row[1] = "powerplant"
  PROVE  RowOk(t, row, v)
  BY DEF RowOk, Written, Sound, Apart, Standing, Guarded

(* A price is written where there is none.                                 *)
LEMMA ValuationOk ==
  ASSUME RowInv, NEW t \in Import, NEW row \in Row, row[1] = "valuation", NEW price
  PROVE  RowOk(t, row, Stands(Seen(t, row), price))
<1>1. row \in DOMAIN mine[t] => Standing(row, mine[t][row])
  BY DEF RowInv, Written
<1>2. db[row] # Null => Stands(Seen(t, row), price) = db[row]
  BY <1>1 DEF Standing, Stands, Coalesce, Seen
<1> QED
  BY <1>2 DEF RowOk, Written, Sound, Apart, Standing, Guarded

(* A cost snapshot is written over what it keeps.                          *)
LEMMA CostsOk ==
  ASSUME RowInv, NEW t \in Import, NEW row \in Row, row[1] = "costs", NEW v \in CostsRow,
         \A i \in CostItem \ Extra : Seen(t, row) # Null /\ Seen(t, row)[i] # Null => v[i] = Seen(t, row)[i]
  PROVE  RowOk(t, row, v)
<1>1. row \in DOMAIN mine[t] => Standing(row, mine[t][row]) /\ mine[t][row] \in CostsRow
  BY DEF RowInv, Written, Sound
<1>2. Standing(row, v)
  BY <1>1 DEF Standing, Seen
<1> QED
  BY <1>2 DEF RowOk, Written, Sound, Apart, Guarded

(* The links of a variant have one primary manufacturer.                   *)
LEMMA OnePrimary ==
  ASSUME NEW links \in SUBSET Link, NEW o \in {Slugify[m] : m \in Maker},
         \A l, m \in {x \in links : x.primary} : l = m
  PROVE  /\ Linked(links, o) \subseteq Link
         /\ \E l \in Link : {x \in Linked(links, o) : x.primary} = {l}
<1>1. CASE \E l \in links : l.primary
  BY <1>1 DEF Linked
<1>2. CASE ~ \E l \in links : l.primary
  <2> DEFINE p == [org |-> o, primary |-> TRUE]
  <2>1. p \in Link /\ p.primary
    BY DEF Link
  <2> HIDE DEF p
  <2>2. Linked(links, o) = {l \in links : l.org # o} \union {p}
    BY <1>2 DEF Linked, p
  <2>3. {x \in Linked(links, o) : x.primary} = {p}
    BY <1>2, <2>1, <2>2
  <2> QED
    BY <2>1, <2>2, <2>3
<1> QED
  BY <1>1, <1>2

(* What an import sees of a variant.                                       *)
LEMMA SeenVariant ==
  ASSUME RowInv, NEW t \in Import, NEW row \in Row, row[1] = "variant"
  PROVE  /\ Seen(t, row) = Null => row \notin DOMAIN mine[t] /\ db[row] = Null
         /\ Seen(t, row) # Null => /\ Sound(row, Seen(t, row)) /\ Apart(row, Seen(t, row))
                                   /\ Standing(row, Seen(t, row)) /\ Guarded(t, row, Seen(t, row))
                                   /\ \A l, m \in Primaries(Seen(t, row)) : l = m
<1>1. CASE row \in DOMAIN mine[t]
  <2>1. Written(t, row, mine[t][row]) /\ mine[t][row] # Null
    BY <1>1 DEF RowInv, Written, Sound
  <2> QED
    BY <1>1, <2>1 DEF Written, Seen
<1>2. CASE row \notin DOMAIN mine[t]
  <2>1. Seen(t, row) = db[row]
    BY <1>2 DEF Seen
  <2>2. db[row] # Null => Committed(row, db[row])
    BY DEF RowInv
  <2>3. db[row] # Null => Standing(row, db[row]) /\ Guarded(t, row, db[row])
    BY DEF Standing, Guarded
  <2> QED
    BY <1>2, <2>1, <2>2, <2>3 DEF Committed
<1> QED
  BY <1>1, <1>2

(* The slug of a new variant is nobody else's: what the import cannot see  *)
(* belongs to imports that do not have the model.                          *)
LEMMA NewSlug ==
  ASSUME RowInv, NEW t \in Import, NEW r \in Records, NEW v,
         <<"model", ModelSlug(r)>> \in DOMAIN mine[t],
         v.slug = SlugFor(t, r)
  PROVE  /\ Apart(<<"variant", r.key>>, v)
         /\ v.slug[1] = ModelSlug(r) /\ v.slug[2] \in {Null, r.key}
<1> DEFINE row == <<"variant", r.key>>
           m == ModelSlug(r)
<1>1. row \in Row /\ r.key \in Key /\ row[2] = r.key /\ r.key # Null
  BY RowKinds, Fields
<1>2. v.slug = <<m, Null>> \/ v.slug = <<m, r.key>>
  BY DEF SlugFor
<1>3. ASSUME NEW other \in Row \ {row}, other[1] = "variant"
      PROVE  /\ db[other] # Null => db[other].slug # v.slug
             /\ \A u \in Import : other \in DOMAIN mine[u] => mine[u][other].slug # v.slug
  <2>1. other[2] # r.key /\ other[2] \in Key
    BY <1>1, <1>3, VariantRows
  <2>2. CASE v.slug = <<m, r.key>>
    <3>1. db[other] # Null => db[other].slug[2] \in {Null, other[2]}
      BY <1>3 DEF RowInv, Committed, Sound
    <3>2. \A u \in Import : other \in DOMAIN mine[u] => mine[u][other].slug[2] \in {Null, other[2]}
      BY <1>3 DEF RowInv, Written, Sound
    <3>3. v.slug[2] = r.key
      BY <2>2
    <3> QED
      BY <1>1, <2>1, <3>1, <3>2, <3>3
  <2>3. CASE v.slug = <<m, Null>>
    <3>1. Seen(t, other) # Null => Seen(t, other).slug # <<m, Null>>
      <4>1. <<m, Null>> # <<m, r.key>>
        BY <1>1
      <4>2. ~ \E o \in Variants(t) : o[2] # r.key /\ Seen(t, o).slug = <<m, Null>>
        BY <2>3, <4>1 DEF SlugFor
      <4> QED
        BY <1>3, <2>1, <4>2 DEF Variants
    <3>2. ASSUME NEW u \in Import, other \in DOMAIN mine[u]
          PROVE  Written(u, other, mine[u][other]) /\ mine[u][other] # Null
      BY <1>3, <3>2 DEF RowInv, Written, Sound
    <3>3. db[other] # Null => db[other].slug # <<m, Null>>
      <4>1. CASE other \in DOMAIN mine[t]
        BY <1>3, <3>1, <3>2, <4>1 DEF Seen, Written, Standing
      <4>2. CASE other \notin DOMAIN mine[t]
        BY <3>1, <4>2 DEF Seen
      <4> QED
        BY <4>1, <4>2
    <3>4. ASSUME NEW u \in Import, other \in DOMAIN mine[u]
          PROVE  mine[u][other].slug # <<m, Null>>
      <4>1. CASE u = t
        BY <3>1, <3>2, <3>4, <4>1 DEF Seen
      <4>2. CASE u # t /\ db[other] # Null
        BY <1>3, <3>2, <3>3, <3>4, <4>2 DEF Written, Standing
      <4>3. CASE u # t /\ db[other] = Null
        <5>1. Guarded(u, other, mine[u][other])
          BY <3>2, <3>4 DEF Written
        <5>2. <<"model", m>> \notin DOMAIN mine[u]
          BY <4>3 DEF RowInv, RowsExclusive
        <5>3. mine[u][other].slug = <<m, Null>> => FALSE
          BY <1>3, <4>3, <5>1, <5>2 DEF Guarded
        <5> QED
          BY <5>3
      <4> QED
        BY <4>1, <4>2, <4>3
    <3> QED
      BY <2>3, <3>3, <3>4
  <2> QED
    BY <1>2, <2>2, <2>3
<1> QED
  BY <1>2, <1>3 DEF Apart

(* promote_variant writes a sound variant with a slug of its own.          *)
LEMMA VariantStep ==
  ASSUME RowInv, ControlInv, NEW t \in Import, PromoteVariant(t)
  PROVE  RowInv'
<1> DEFINE r == Current(t)
           row == <<"variant", r.key>>
           old == Seen(t, row)
           slug == IF old = Null THEN SlugFor(t, r) ELSE old.slug
           range == IF old = Null THEN [start |-> r.start, end |-> r.end] ELSE MergedRange(old, r)
           links == IF old = Null THEN {} ELSE old.links
           engines == IF old = Null THEN r.engines ELSE Coalesce(old.engines, r.engines)
           flagged == slug # <<ModelSlug(r), Null>> \/ (old # Null /\ old.flagged)
           v == [slug |-> slug, start |-> range.start, end |-> range.end, engines |-> engines,
                 links |-> Linked(links, org[t]), flagged |-> flagged]
<1>1. at[t] = "variant" /\ Upsert(t, row, v) /\ db' = db
  BY DEF PromoteVariant
<1>2. /\ r \in Records /\ org[t] \in {Slugify[m] : m \in Maker}
      /\ <<"model", ModelSlug(r)>> \in DOMAIN mine[t]
  BY <1>1, CurrentRecord DEF ControlInv, ControlTypeOK, Progress, Statements
<1>3. row \in Row /\ row[1] = "variant" /\ row[2] = r.key /\ r.key \in Key
  BY <1>2, RowKinds, Fields
<1> HIDE DEF r, row
<1>4. /\ old = Null => row \notin DOMAIN mine[t] /\ db[row] = Null
      /\ old # Null => /\ Sound(row, old) /\ Apart(row, old) /\ Standing(row, old) /\ Guarded(t, row, old)
                       /\ \A l, m \in Primaries(old) : l = m
  BY <1>3, SeenVariant
<1>5. old # Null => /\ old \in VariantRow /\ old.slug[2] \in {Null, row[2]}
                    /\ old.start # Null /\ old.end # Null => old.start <= old.end
  BY <1>3, <1>4 DEF Sound
<1>6. links \in SUBSET Link /\ \A l, m \in {x \in links : x.primary} : l = m
  <2>1. CASE old = Null
    BY <2>1
  <2>2. CASE old # Null
    BY <1>4, <1>5, <2>2 DEF VariantRow, Primaries
  <2> QED
    BY <2>1, <2>2
<1>7. Linked(links, org[t]) \subseteq Link /\ \E l \in Link : {x \in Linked(links, org[t]) : x.primary} = {l}
  <2> HIDE DEF links
  <2> QED
    BY <1>2, <1>6, OnePrimary
<1>8. /\ range.start \in Year /\ range.end \in Year
      /\ range.start # Null /\ range.end # Null => range.start <= range.end
  <2>1. /\ r.start \in Year /\ r.end \in Year /\ (r.start # Null /\ r.end # Null => r.start <= r.end)
    BY <1>2, Fields
  <2>2. CASE old = Null
    BY <2>1, <2>2
  <2>3. CASE old # Null
    <3>1. old.start \in Year /\ old.end \in Year
      BY <1>5, <2>3 DEF VariantRow
    <3> QED
      BY <1>5, <2>1, <2>3, <3>1 DEF MergedRange
  <2> QED
    BY <2>2, <2>3
<1>9. engines \in EngineNumber
  <2>1. r.engines \in EngineNumber
    BY <1>2, Fields
  <2>2. old # Null => old.engines \in EngineNumber
    BY <1>5 DEF VariantRow
  <2> QED
    BY <2>1, <2>2 DEF Coalesce
<1>10. flagged \in BOOLEAN
  <2>1. old # Null => old.flagged \in BOOLEAN
    BY <1>5 DEF VariantRow
  <2> QED
    BY <2>1
<1> HIDE DEF old
<1>11. /\ slug \in {ModelSlug(q) : q \in Records} \X (Key \union {Null}) /\ slug[2] \in {Null, row[2]}
       /\ \A w : w.slug = slug => Apart(row, w) /\ Standing(row, w) /\ Guarded(t, row, w)
  <2>1. CASE old = Null
    <3>1. slug = SlugFor(t, r)
      BY <2>1
    <3>2. slug = <<ModelSlug(r), r.key>> \/ slug = <<ModelSlug(r), Null>>
      BY <3>1 DEF SlugFor
    <3>3. ASSUME NEW w, w.slug = slug
          PROVE  Apart(row, w) /\ Standing(row, w) /\ Guarded(t, row, w)
      <4>1. Apart(row, w) /\ w.slug[1] = ModelSlug(r)
        BY <1>2, <3>1, <3>3, NewSlug DEF row
      <4>2. Standing(row, w) /\ Guarded(t, row, w)
        BY <1>2, <1>4, <2>1, <4>1 DEF Standing, Guarded
      <4> QED
        BY <4>1, <4>2
    <3> QED
      BY <1>2, <1>3, <3>2, <3>3
  <2>2. CASE old # Null
    <3>1. slug = old.slug
      BY <2>2
    <3>2. slug \in {ModelSlug(q) : q \in Records} \X (Key \union {Null}) /\ slug[2] \in {Null, row[2]}
      BY <1>5, <2>2, <3>1 DEF VariantRow
    <3>3. ASSUME NEW w, w.slug = slug
          PROVE  Apart(row, w) /\ Standing(row, w) /\ Guarded(t, row, w)
      BY <1>3, <1>4, <2>2, <3>1, <3>3 DEF Apart, Standing, Guarded
    <3> QED
      BY <3>2, <3>3
  <2> QED
    BY <2>1, <2>2
<1> HIDE DEF slug, range, links, engines, flagged
<1>12. /\ v \in VariantRow /\ v.slug = slug /\ v.links = Linked(links, org[t])
       /\ v.start = range.start /\ v.end = range.end
  BY <1>7, <1>8, <1>9, <1>10, <1>11 DEF VariantRow
<1> HIDE DEF v
<1>13. Sound(row, v) /\ (\E l \in Link : Primaries(v) = {l})
  BY <1>3, <1>7, <1>8, <1>11, <1>12 DEF Sound, Primaries
<1>14. RowOk(t, row, v)
  BY <1>3, <1>11, <1>12, <1>13 DEF RowOk, Written
<1> QED
  BY <1>1, <1>14, UpsertKeeps

(* Steps that write no row keep the rows.                                  *)
LEMMA NothingWritten ==
  ASSUME RowInv, mine' = mine, db' = db
  PROVE  RowInv'
<1>1. Shape' /\ RowsExclusive'
  BY DEF RowInv, Shape, RowsExclusive
<1>2. ASSUME NEW o, NEW w, Committed(o, w) PROVE Committed(o, w)'
  BY <1>2 DEF Committed, Apart
<1>3. ASSUME NEW u \in Import, NEW o, NEW w, Written(u, o, w) PROVE Written(u, o, w)'
  BY <1>3 DEF Written, Apart, Standing, Guarded
<1>4. ASSUME NEW o \in Row, NEW w, w = db'[o], w # Null PROVE Committed(o, w)'
  BY <1>2, <1>4 DEF RowInv
<1>5. ASSUME NEW u \in Import, NEW o \in DOMAIN mine'[u], NEW w, w = mine'[u][o] PROVE Written(u, o, w)'
  BY <1>3, <1>5 DEF RowInv
<1>6. \A o \in Row : db'[o] # Null => Committed(o, db[o])'
  BY <1>4
<1>7. \A u \in Import : \A o \in DOMAIN mine'[u] : Written(u, o, mine[u][o])'
  BY <1>5
<1> QED
  BY <1>1, <1>6, <1>7 DEF RowInv

(* Every statement keeps the rows.                                         *)
LEMMA StatementKeeps ==
  ASSUME RowInv, ControlInv, NEW t \in Import, Statement(t)
  PROVE  RowInv'
<1>0. ASSUME mine' = mine, db' = db PROVE RowInv'
  BY <1>0, NothingWritten
<1> DEFINE r == Current(t)
<1>1. at[t] \in Statements => r \in Records
  BY CurrentRecord
<1>2. CASE PromoteOrganization(t)
  <2>1. r \in Records
    BY <1>1, <1>2 DEF PromoteOrganization, Statements
  <2>2. <<"organization", Slugify[r.maker]>> \in Row
    BY <2>1, RowKinds, Fields
  <2>3. \A v : RowOk(t, <<"organization", Slugify[r.maker]>>, v)
    BY <2>2, PlainOk
  <2> QED
    BY <1>0, <1>2, <2>3, UpsertKeeps DEF PromoteOrganization
<1>3. CASE PromoteFamily(t)
  <2>1. r \in Records
    BY <1>1, <1>3 DEF PromoteFamily, Statements
  <2>2. <<"family", FamilySlug(r)>> \in Row
    BY <2>1, RowKinds, Fields DEF FamilySlug
  <2>3. RowOk(t, <<"family", FamilySlug(r)>>, org[t])
    BY <2>2, PlainOk
  <2> QED
    BY <1>3, <2>3, UpsertKeeps DEF PromoteFamily
<1>4. CASE PromoteModel(t)
  <2>1. r \in Records
    BY <1>1, <1>4 DEF PromoteModel, Statements
  <2>2. <<"model", ModelSlug(r)>> \in Row
    BY <2>1, RowKinds
  <2>3. RowOk(t, <<"model", ModelSlug(r)>>, FamilySlug(r))
    BY <2>2, PlainOk
  <2> QED
    BY <1>4, <2>3, UpsertKeeps DEF PromoteModel
<1>5. CASE PromoteVariant(t)
  BY <1>5, VariantStep
<1>6. CASE PromoteDocument(t)
  <2>1. RowOk(t, <<"source", "scraped">>, TRUE)
    BY RowKinds, PlainOk
  <2> QED
    BY <1>6, <2>1, UpsertKeeps DEF PromoteDocument
<1>7. CASE PromoteEngine(t)
  <2>1. r \in Records
    BY <1>1, <1>7 DEF PromoteEngine, Statements
  <2>2. CASE r.engine = Null
    BY <1>0, <1>7, <2>2 DEF PromoteEngine
  <2>3. CASE r.engine # Null
    <3>1. <<"engine", r.engine>> \in Row
      BY <2>1, <2>3, RowKinds, Fields
    <3>2. RowOk(t, <<"engine", r.engine>>, TRUE)
      BY <3>1, PlainOk
    <3> QED
      BY <1>7, <2>3, <3>2, UpsertKeeps DEF PromoteEngine
  <2> QED
    BY <2>2, <2>3
<1>8. CASE PromotePowerplant(t)
  <2> DEFINE row == <<"powerplant", <<r.key, r.engine>>>>
             v == [count |-> EngineCount(Seen(t, row), r)]
  <2>1. r \in Records /\ r.engine # Null
    BY <1>1, <1>8 DEF PromotePowerplant, Statements, ControlInv, ControlTypeOK, Progress
  <2>2. row \in Row /\ row[1] = "powerplant"
    BY <2>1, RowKinds, Fields
  <2>3. Upsert(t, row, v) /\ db' = db
    BY <1>8 DEF PromotePowerplant
  <2>4. Seen(t, row) # Null => Seen(t, row) \in PowerplantRow
    BY <2>2 DEF RowInv, Committed, Written, Sound, Seen
  <2> HIDE DEF row
  <2>5. v \in PowerplantRow
    <3>1. r.engines \in EngineNumber
      BY <2>1, Fields
    <3>2. EngineCount(Seen(t, row), r) \in EngineNumber
      BY <2>4, <3>1 DEF EngineCount, Coalesce, PowerplantRow
    <3> QED
      BY <3>2 DEF PowerplantRow
  <2> HIDE DEF v
  <2>6. RowOk(t, row, v)
    BY <2>2, <2>5, PowerplantOk
  <2> QED
    BY <2>3, <2>6, UpsertKeeps
<1>9. CASE PromoteValuation(t)
  <2>1. r \in Records /\ day[t] \in Day
    BY <1>1, <1>9 DEF PromoteValuation, Statements, ControlInv, ControlTypeOK
  <2>2. CASE r.price = Null
    BY <1>0, <1>9, <2>2 DEF PromoteValuation
  <2>3. CASE r.price # Null
    <3> DEFINE row == <<"valuation", <<r.key, day[t]>>>>
    <3>1. row \in Row /\ row[1] = "valuation"
      BY <2>1, RowKinds, Fields
    <3>2. Upsert(t, row, Stands(Seen(t, row), r.price)) /\ db' = db
      BY <1>9, <2>3 DEF PromoteValuation
    <3> HIDE DEF row
    <3> QED
      BY <3>1, <3>2, ValuationOk, UpsertKeeps
  <2> QED
    BY <2>2, <2>3
<1>10. CASE PromoteCosts(t)
  <2>1. r \in Records /\ day[t] \in Day
    BY <1>1, <1>10 DEF PromoteCosts, Statements, ControlInv, ControlTypeOK
  <2>2. CASE DOMAIN r.costs = {}
    BY <1>0, <1>10, <2>2 DEF PromoteCosts
  <2>3. CASE DOMAIN r.costs # {}
    <3> DEFINE row == <<"costs", <<r.key, day[t]>>>>
               old == Seen(t, row)
               oldOf(i) == IF old = Null THEN Null ELSE old[i]
               new(i) == IF ~(i \in DOMAIN r.costs) THEN oldOf(i)
                         ELSE IF i \in Extra THEN r.costs[i] ELSE Stands(oldOf(i), r.costs[i])
               v == [i \in CostItem |-> new(i)]
    <3>1. row \in Row /\ row[1] = "costs"
      BY <2>1, RowKinds, Fields
    <3>2. Upsert(t, row, v) /\ db' = db
      BY <1>10, <2>3 DEF PromoteCosts
    <3>3. \A i \in DOMAIN r.costs : r.costs[i] \in Amount
      BY <2>1, Fields
    <3>4. old # Null => old \in [CostItem -> Amount]
      BY <3>1 DEF RowInv, Committed, Written, Sound, Seen, CostsRow
    <3> HIDE DEF row, old
    <3>5. \A i \in CostItem : new(i) \in Amount
      <4>1. Null \in Amount
        BY DEF Amount
      <4> QED
        BY <3>3, <3>4, <4>1 DEF Stands, Coalesce
    <3>6. v \in CostsRow
      BY <3>5 DEF CostsRow
    <3>7. \A i \in CostItem \ Extra : old # Null /\ old[i] # Null => v[i] = old[i]
      BY DEF Stands, Coalesce
    <3> HIDE DEF v
    <3>8. RowOk(t, row, v)
      BY <3>1, <3>6, <3>7, CostsOk DEF old
    <3> QED
      BY <3>2, <3>8, UpsertKeeps
  <2> QED
    BY <2>2, <2>3
<1>11. CASE Commit(t)
  BY <1>11, CommitKeeps
<1> QED
  BY <1>2, <1>3, <1>4, <1>5, <1>6, <1>7, <1>8, <1>9, <1>10, <1>11 DEF Statement

-----------------------------------------------------------------------------
(***************************************************************************)
(* How far an import is.                                                   *)
(***************************************************************************)

(* An import is where it was as long as nobody touches what is its own.    *)
LEMMA OthersStay ==
  ASSUME NEW u \in Import, Progress(u),
         at'[u] = at[u], batch'[u] = batch[u], done'[u] = done[u], org'[u] = org[u],
         added'[u] = added[u], mine'[u] = mine[u],
         \A row \in DOMAIN mine[u] : db'[row] = db[row]
  PROVE  Progress(u)'
<1>1. PricesAsserted(u, Priced(u))'
  BY DEF Progress, PricesAsserted, Priced
<1>2. CountsStated(u, Engined(u))'
  <2>1. Engined(u)' = Engined(u)
    BY DEF Engined
  <2>2. ASSUME NEW row \in DOMAIN mine[u], NEW n, CountOf(u, row, n)
        PROVE  CountOf(u, row, n)'
    BY <2>2 DEF CountOf
  <2>3. \A row \in DOMAIN mine'[u] : row[1] = "powerplant" => CountOf(u, row, Engined(u))'
    BY <2>1, <2>2 DEF Progress, CountsStated
  <2> QED
    BY <2>1, <2>3 DEF Progress, CountsStated
<1>3. Current(u)' = Current(u)
  BY DEF Current
<1> QED
  BY <1>1, <1>2, <1>3 DEF Progress

(* The counts stand while no powerplant is written.                        *)
LEMMA CountsStay ==
  ASSUME NEW t \in Import, NEW n, CountsStated(t, n), batch'[t] = batch[t], db' = db,
         DOMAIN mine[t] \subseteq DOMAIN mine'[t],
         \A row \in DOMAIN mine'[t] : row[1] = "powerplant" =>
            row \in DOMAIN mine[t] /\ mine'[t][row] = mine[t][row]
  PROVE  CountsStated(t, n)'
<1>1. ASSUME NEW row \in DOMAIN mine'[t], row[1] = "powerplant" PROVE CountOf(t, row, n)'
  <2>1. CountOf(t, row, n)
    BY <1>1 DEF CountsStated
  <2>2. mine'[t][row] = mine[t][row]
    BY <1>1
  <2> QED
    BY <2>1, <2>2 DEF CountOf
<1> QED
  BY <1>1 DEF CountsStated

(* A record that states no count for a powerplant changes no count.        *)
LEMMA CountsPass ==
  ASSUME NEW t \in Import, NEW n \in Nat, CountsStated(t, n), DOMAIN mine[t] \subseteq Row,
         batch[t] \in Seq(Records), n + 1 \in DOMAIN batch[t], batch[t][n + 1].engine = Null
  PROVE  CountsStated(t, n + 1)
<1>0. \A i \in DOMAIN batch[t] : i <= n + 1 /\ batch[t][i].engine # Null => i <= n
  OBVIOUS
<1> SUFFICES ASSUME NEW row \in DOMAIN mine[t], row[1] = "powerplant" PROVE CountOf(t, row, n + 1)
  BY <1>0 DEF CountsStated
<1>1. CountOf(t, row, n)
  BY DEF CountsStated
<1>2. row[2] # <<batch[t][n + 1].key, batch[t][n + 1].engine>>
  <2>1. row[2][2] \in Engine
    BY PowerplantRows
  <2> QED
    BY <2>1 DEF Engine
<1>3. \A i \in DOMAIN batch[t] : i <= n + 1 <=> i <= n \/ i = n + 1
  OBVIOUS
<1>4. {i \in DOMAIN batch[t] : /\ i <= n + 1
                               /\ row[2] = <<batch[t][i].key, batch[t][i].engine>>
                               /\ batch[t][i].engines # Null}
       = {i \in DOMAIN batch[t] : /\ i <= n
                                  /\ row[2] = <<batch[t][i].key, batch[t][i].engine>>
                                  /\ batch[t][i].engines # Null}
  BY <1>2, <1>3
<1> QED
  BY <1>1, <1>4 DEF CountOf

(* The one it does state is the last.                                      *)
LEMMA CountsAdvance ==
  ASSUME NEW t \in Import, NEW n \in Nat, CountsStated(t, n),
         batch[t] \in Seq(Records), n + 1 \in DOMAIN batch[t], batch'[t] = batch[t], db' = db,
         NEW r, r = batch[t][n + 1], r.engine # Null,
         NEW row, row = <<"powerplant", <<r.key, r.engine>>>>,
         DOMAIN mine[t] \subseteq Row, DOMAIN mine'[t] = DOMAIN mine[t] \union {row},
         mine'[t][row] = [count |-> EngineCount(Seen(t, row), r)],
         \A other \in DOMAIN mine[t] \ {row} : mine'[t][other] = mine[t][other],
         row \in DOMAIN mine[t] => mine[t][row] # Null
  PROVE  CountsStated(t, n + 1)'
<1>0. /\ DOMAIN mine'[t] = DOMAIN mine[t] \union {row} /\ mine'[t][row] = [count |-> EngineCount(Seen(t, row), r)]
      /\ \A other \in DOMAIN mine[t] \ {row} : mine'[t][other] = mine[t][other]
      /\ DOMAIN mine[t] \subseteq Row
  OBVIOUS
<1>5. \A i \in DOMAIN batch[t] : (i <= n + 1 <=> i <= n \/ i = n + 1) /\ i \in Nat
  OBVIOUS
<1> SUFFICES ASSUME NEW o \in DOMAIN mine'[t], o[1] = "powerplant" PROVE CountOf(t, o, n + 1)'
  <2>1. \A i \in DOMAIN batch[t] : i <= n + 1 /\ batch[t][i].engine # Null =>
          <<"powerplant", <<batch[t][i].key, batch[t][i].engine>>>> \in DOMAIN mine'[t]
    BY <1>0, <1>5 DEF CountsStated
  <2> QED
    BY <2>1 DEF CountsStated
<1> DEFINE stated(k) == {i \in DOMAIN batch[t] : /\ i <= k
                                                 /\ o[2] = <<batch[t][i].key, batch[t][i].engine>>
                                                 /\ batch[t][i].engines # Null}
           before == IF db[o] = Null THEN Null ELSE db[o].count
<1>2. o \in DOMAIN mine[t] =>
        \/ stated(n) = {} /\ mine[t][o].count = before
        \/ \E i \in stated(n) : (\A j \in stated(n) : j <= i) /\ mine[t][o].count = batch[t][i].engines
  BY DEF CountsStated, CountOf
<1> SUFFICES \/ stated(n + 1) = {} /\ mine'[t][o].count = before
             \/ \E i \in stated(n + 1) : (\A j \in stated(n + 1) : j <= i)
                                         /\ mine'[t][o].count = batch[t][i].engines
  BY DEF CountOf
<1>3. CASE o # row
  <2>1. o \in DOMAIN mine[t] /\ mine'[t][o] = mine[t][o] /\ o = <<"powerplant", o[2]>>
    BY <1>0, <1>3, PowerplantRows
  <2>2. stated(n + 1) = stated(n)
    BY <1>3, <1>5, <2>1
  <2> HIDE DEF stated, before
  <2> QED
    BY <1>2, <2>1, <2>2
<1>4. CASE o = row
  <2>1. o[2] = <<r.key, r.engine>> /\ mine'[t][o].count = EngineCount(Seen(t, o), r)
    BY <1>0, <1>4
  <2>2. CASE r.engines # Null
    <3>1. stated(n + 1) = stated(n) \union {n + 1}
      BY <1>5, <2>1, <2>2
    <3>2. \A j \in stated(n) : j <= n + 1
      BY <1>5
    <3>3. mine'[t][o].count = batch[t][n + 1].engines
      BY <2>1, <2>2 DEF EngineCount, Coalesce
    <3> QED
      BY <3>1, <3>2, <3>3
  <2>3. CASE r.engines = Null
    <3>1. stated(n + 1) = stated(n)
      BY <1>5, <2>3
    <3>2. CASE o \in DOMAIN mine[t]
      <4>1. mine'[t][o].count = mine[t][o].count
        BY <1>4, <2>1, <2>3, <3>2 DEF EngineCount, Coalesce, Seen
      <4> HIDE DEF stated, before
      <4> QED
        BY <1>2, <3>1, <3>2, <4>1
    <3>3. CASE o \notin DOMAIN mine[t]
      <4>1. \A i \in DOMAIN batch[t] : i <= n /\ batch[t][i].engine # Null =>
              o # <<"powerplant", <<batch[t][i].key, batch[t][i].engine>>>>
        BY <3>3 DEF CountsStated
      <4>2. stated(n) = {}
        <5>1. ASSUME NEW i \in stated(n) PROVE FALSE
          <6>1. i \in DOMAIN batch[t] /\ i <= n /\ o[2] = <<batch[t][i].key, batch[t][i].engine>>
            OBVIOUS
          <6>2. batch[t][i].key = r.key /\ batch[t][i].engine = r.engine
            BY <2>1, <6>1
          <6> QED
            BY <1>4, <4>1, <6>1, <6>2
        <5> QED
          BY <5>1
      <4>3. mine'[t][o].count = before
        BY <2>1, <2>3, <3>3 DEF EngineCount, Coalesce, Seen
      <4> QED
        BY <3>1, <4>2, <4>3
    <3> QED
      BY <3>2, <3>3
  <2> QED
    BY <2>2, <2>3
<1> QED
  BY <1>3, <1>4

(* A step of one import, as the others see it.                             *)
Frame(t) ==
    /\ ControlTypeOK'
    /\ \A u \in Import \ {t} :
          /\ at'[u] = at[u] /\ batch'[u] = batch[u] /\ done'[u] = done[u] /\ org'[u] = org[u]
          /\ added'[u] = added[u] /\ mine'[u] = mine[u]
          /\ \A row \in DOMAIN mine[u] : db'[row] = db[row]

(* The import that moved is the only one to look at.                       *)
LEMMA FrameKeeps ==
  ASSUME ControlInv, NEW t \in Import, Frame(t), Progress(t)'
  PROVE  ControlInv'
<1>1. ASSUME NEW u \in Import, u # t PROVE Progress(u)'
  BY <1>1, OthersStay DEF ControlInv, Frame
<1> QED
  BY <1>1 DEF ControlInv, Frame

(* A statement that writes at most one row and goes on.                    *)
Goes1(t, s) ==
    /\ at' = [at EXCEPT ![t] = s]
    /\ batch' = batch /\ db' = db /\ day' = day
    /\ mine' = mine \/ \E row, v : Upsert(t, row, v)
    /\ done' = done \/ done' = [done EXCEPT ![t] = @ + 1]
    /\ org' = org \/ \E o : org' = [org EXCEPT ![t] = o]
    /\ added' = added \/ \E a : added' = [added EXCEPT ![t] = @ \union a]

(* Such a statement is a step of one import.                               *)
LEMMA GoesFrame ==
  ASSUME RowInv, ControlInv, NEW t \in Import, at[t] \in Statements,
         NEW s \in Statements \union {"commit"}, Goes1(t, s)
  PROVE  /\ Frame(t) /\ at'[t] = s /\ batch'[t] = batch[t] /\ batch[t] \in Batch /\ done'[t] \in Nat
         /\ DOMAIN mine[t] \subseteq DOMAIN mine'[t] /\ added[t] \subseteq added'[t]
<1>1. Shape /\ ControlTypeOK
  BY DEF RowInv, ControlInv
<1>2. /\ DOMAIN mine[t] \subseteq DOMAIN mine'[t]
      /\ \A u \in Import \ {t} : mine'[u] = mine[u]
  <2>1. CASE mine' = mine
    BY <2>1
  <2>2. ASSUME NEW row, NEW v, Upsert(t, row, v)
        PROVE  /\ DOMAIN mine[t] \subseteq DOMAIN mine'[t]
               /\ \A u \in Import \ {t} : mine'[u] = mine[u]
    BY <1>1, <2>2, Upserted
  <2> QED
    BY <2>1, <2>2 DEF Goes1
<1>3. /\ added' = [u \in Import |-> added'[u]] /\ added[t] \subseteq added'[t]
      /\ \A u \in Import \ {t} : added'[u] = added[u]
  BY <1>1 DEF Goes1, ControlTypeOK
<1>4. /\ org' = [u \in Import |-> org'[u]]
      /\ \A u \in Import \ {t} : org'[u] = org[u]
  BY <1>1 DEF Goes1, ControlTypeOK
<1>5. /\ done' \in [Import -> Nat] /\ done'[t] \in Nat
      /\ \A u \in Import \ {t} : done'[u] = done[u]
  BY <1>1 DEF Goes1, ControlTypeOK
<1>6. /\ at' \in [Import -> Statements \union {"idle", "commit", "committed", "aborted"}] /\ at'[t] = s
      /\ \A u \in Import \ {t} : at'[u] = at[u]
  BY <1>1 DEF Goes1, ControlTypeOK
<1>7. batch' = batch /\ batch[t] \in Batch /\ day' = day /\ db' = db
  BY DEF Goes1, ControlInv, Progress
<1>8. ControlTypeOK'
  BY <1>1, <1>3, <1>4, <1>5, <1>6, <1>7 DEF ControlTypeOK
<1> QED
  BY <1>2, <1>3, <1>4, <1>5, <1>6, <1>7, <1>8 DEF Frame

(* The prices asserted stay, and so do the counts when another row is      *)
(* written, or none.                                                       *)
LEMMA PricesStay ==
  ASSUME NEW t \in Import, NEW n, PricesAsserted(t, n), batch'[t] = batch[t], added[t] \subseteq added'[t]
  PROVE  PricesAsserted(t, n)'
  BY DEF PricesAsserted

(* The same for an upsert of another row, or none.                         *)
LEMMA CountsKept ==
  ASSUME Shape, NEW t \in Import, NEW n, CountsStated(t, n), batch'[t] = batch[t], db' = db,
         mine' = mine \/ \E row, v : row[1] # "powerplant" /\ Upsert(t, row, v)
  PROVE  CountsStated(t, n)'
<1>1. CASE mine' = mine
  BY <1>1, CountsStay
<1>2. ASSUME NEW row, NEW v, row[1] # "powerplant", Upsert(t, row, v) PROVE CountsStated(t, n)'
  <2>1. /\ DOMAIN mine'[t] = DOMAIN mine[t] \union {row}
        /\ \A other \in DOMAIN mine[t] \ {row} : mine'[t][other] = mine[t][other]
    BY <1>2, Upserted
  <2> QED
    BY <1>2, <2>1, CountsStay
<1> QED
  BY <1>1, <1>2

(* What is left to show of a statement.                                    *)
LEMMA Advances ==
  ASSUME RowInv, ControlInv, NEW t \in Import, at[t] \in Statements,
         NEW s \in Statements \union {"commit"}, Goes1(t, s),
         s \in Statements => done'[t] < Len(batch[t]),
         s = "commit" => done'[t] = Len(batch[t]),
         s \in {"family", "model", "variant"} => org'[t] \in {Slugify[m] : m \in Maker},
         s = "powerplant" => Current(t)'.engine # Null,
         s = "variant" => <<"model", ModelSlug(Current(t)')>> \in DOMAIN mine'[t],
         PricesAsserted(t, Priced(t))', CountsStated(t, Engined(t))'
  PROVE  ControlInv'
<1>1. Frame(t) /\ at'[t] = s /\ batch'[t] = batch[t] /\ batch[t] \in Batch
  BY GoesFrame
<1>2. s \notin {"idle", "committed", "aborted"}
  BY DEF Statements
<1>3. ModelSlug(Current(t))' = ModelSlug(Current(t)')
  BY DEF ModelSlug
<1>4. Progress(t)'
  BY <1>1, <1>2, <1>3 DEF Progress, Statements
<1> QED
  BY <1>1, <1>4, FrameKeeps

(* The statements before the engine leave what is promoted of the batch.   *)
LEMMA Unpromoted ==
  ASSUME RowInv, ControlInv, NEW t \in Import, at[t] \in Statements,
         NEW s \in Statements, Goes1(t, s), done' = done,
         mine' = mine \/ \E row, v : row[1] # "powerplant" /\ Upsert(t, row, v)
  PROVE  /\ Priced(t)' = Priced(t) => PricesAsserted(t, Priced(t))'
         /\ Engined(t)' = Engined(t) => CountsStated(t, Engined(t))'
         /\ done'[t] < Len(batch[t]) /\ Current(t)' = Current(t)
<1>1. Frame(t) /\ at'[t] = s /\ batch'[t] = batch[t] /\ added[t] \subseteq added'[t] /\ Shape
  BY GoesFrame DEF RowInv
<1>2. ASSUME NEW n, n = Priced(t), n = Priced(t)' PROVE PricesAsserted(t, Priced(t))'
  <2>1. PricesAsserted(t, n)
    BY <1>2 DEF ControlInv, Progress
  <2>2. PricesAsserted(t, n)'
    BY <1>1, <2>1, PricesStay
  <2> QED
    BY <1>2, <2>2
<1>3. ASSUME NEW n, n = Engined(t), n = Engined(t)' PROVE CountsStated(t, Engined(t))'
  <2>1. CountsStated(t, n)
    BY <1>3 DEF ControlInv, Progress
  <2>2. CountsStated(t, n)'
    BY <1>1, <2>1, CountsKept DEF Goes1
  <2> QED
    BY <1>3, <2>2
<1>4. done'[t] < Len(batch[t])
  BY CurrentRecord
<1>5. Current(t)' = Current(t)
  BY <1>1 DEF Current
<1> QED
  BY <1>2, <1>3, <1>4, <1>5

(* The statements up to the document promote no price and no engine.       *)
LEMMA IdentitySteps ==
  ASSUME RowInv, ControlInv, NEW t \in Import,
         PromoteOrganization(t) \/ PromoteFamily(t) \/ PromoteModel(t) \/ PromoteVariant(t)
         \/ PromoteDocument(t)
  PROVE  ControlInv'
<1>0. Shape
  BY DEF RowInv
<1>1. CASE PromoteOrganization(t)
  <2>1. at[t] = "organization" /\ at[t] \in Statements
    BY <1>1 DEF PromoteOrganization, Statements
  <2>2. Current(t) \in Records
    BY <2>1, CurrentRecord
  <2>3. \E o \in {Slugify[m] : m \in Maker} : org' = [org EXCEPT ![t] = o]
    <3>1. Slugify[Current(t).maker] \in {Slugify[m] : m \in Maker}
      BY <2>2, Fields
    <3>2. \A row \in Row : row[1] = "organization" => row[2] \in {Slugify[m] : m \in Maker}
      BY DEF Row
    <3> QED
      BY <1>1, <3>1, <3>2 DEF PromoteOrganization
  <2>4. mine' = mine \/ \E row, v : row[1] # "powerplant" /\ Upsert(t, row, v)
    BY <1>1 DEF PromoteOrganization
  <2>5. Goes1(t, "family")
    BY <1>1, <2>3, <2>4 DEF PromoteOrganization, Goes1, Goes
  <2>6. org'[t] \in {Slugify[m] : m \in Maker} /\ done' = done /\ "family" \in Statements /\ at'[t] = "family"
    BY <1>1, <2>3, <2>5 DEF PromoteOrganization, ControlInv, ControlTypeOK, Statements, Goes1
  <2>7. Priced(t)' = Priced(t) /\ Engined(t)' = Engined(t)
    BY <2>1, <2>6 DEF Priced, Engined
  <2> QED
    BY <2>1, <2>4, <2>5, <2>6, <2>7, Unpromoted, Advances
<1>2. CASE PromoteFamily(t)
  <2>1. at[t] = "family" /\ at[t] \in Statements /\ done' = done /\ org' = org
    BY <1>2 DEF PromoteFamily, Statements
  <2>2. \E row, v : row[1] # "powerplant" /\ Upsert(t, row, v)
    BY <1>2 DEF PromoteFamily
  <2>3. Goes1(t, "model")
    BY <1>2, <2>2 DEF PromoteFamily, Goes1, Goes
  <2>4. at'[t] = "model" /\ "model" \in Statements
    BY <2>3 DEF ControlInv, ControlTypeOK, Statements, Goes1
  <2>5. Priced(t)' = Priced(t) /\ Engined(t)' = Engined(t)
    BY <2>1, <2>4 DEF Priced, Engined
  <2>6. org'[t] \in {Slugify[m] : m \in Maker}
    BY <2>1 DEF ControlInv, Progress
  <2> QED
    BY <2>1, <2>2, <2>3, <2>4, <2>5, <2>6, Unpromoted, Advances
<1>3. CASE PromoteModel(t)
  <2> DEFINE m == <<"model", ModelSlug(Current(t))>>
             f == FamilySlug(Current(t))
  <2>1. at[t] = "model" /\ at[t] \in Statements /\ done' = done /\ org' = org /\ Upsert(t, m, f)
    BY <1>3 DEF PromoteModel, Statements
  <2>2. \E row, v : row[1] # "powerplant" /\ Upsert(t, row, v)
    BY <2>1
  <2>3. Goes1(t, "variant")
    BY <1>3, <2>2 DEF PromoteModel, Goes1, Goes
  <2>4. at'[t] = "variant" /\ "variant" \in Statements
    BY <2>3 DEF ControlInv, ControlTypeOK, Statements, Goes1
  <2>5. Priced(t)' = Priced(t) /\ Engined(t)' = Engined(t)
    BY <2>1, <2>4 DEF Priced, Engined
  <2>6. org'[t] \in {Slugify[x] : x \in Maker}
    BY <2>1 DEF ControlInv, Progress
  <2>7. Current(t)' = Current(t)
    BY <2>1, <2>2, <2>3, <2>4, Unpromoted
  <2> HIDE DEF m, f
  <2>8. m \in DOMAIN mine'[t]
    BY <1>0, <2>1, Upserted
  <2>9. <<"model", ModelSlug(Current(t)')>> \in DOMAIN mine'[t]
    BY <2>7, <2>8 DEF m
  <2> QED
    BY <2>1, <2>2, <2>3, <2>4, <2>5, <2>6, <2>9, Unpromoted, Advances
<1>4. CASE PromoteVariant(t)
  <2>1. at[t] = "variant" /\ at[t] \in Statements /\ done' = done /\ org' = org
    BY <1>4 DEF PromoteVariant, Statements
  <2>2. \E row, v : row[1] # "powerplant" /\ Upsert(t, row, v)
    BY <1>4 DEF PromoteVariant
  <2>3. Goes1(t, "document")
    BY <1>4, <2>2 DEF PromoteVariant, Goes1, Goes
  <2>4. at'[t] = "document" /\ "document" \in Statements
    BY <2>3 DEF ControlInv, ControlTypeOK, Statements, Goes1
  <2>5. Priced(t)' = Priced(t) /\ Engined(t)' = Engined(t)
    BY <2>1, <2>4 DEF Priced, Engined
  <2> QED
    BY <2>1, <2>2, <2>3, <2>4, <2>5, Unpromoted, Advances
<1>5. CASE PromoteDocument(t)
  <2>1. at[t] = "document" /\ at[t] \in Statements /\ done' = done /\ org' = org
    BY <1>5 DEF PromoteDocument, Statements
  <2>2. \E row, v : row[1] # "powerplant" /\ Upsert(t, row, v)
    BY <1>5 DEF PromoteDocument
  <2>3. Goes1(t, "engine")
    BY <1>5, <2>2 DEF PromoteDocument, Goes1, Goes
  <2>4. at'[t] = "engine" /\ "engine" \in Statements
    BY <2>3 DEF ControlInv, ControlTypeOK, Statements, Goes1
  <2>5. Priced(t)' = Priced(t) /\ Engined(t)' = Engined(t)
    BY <2>1, <2>4 DEF Priced, Engined
  <2> QED
    BY <2>1, <2>2, <2>3, <2>4, <2>5, Unpromoted, Advances
<1> QED
  BY <1>1, <1>2, <1>3, <1>4, <1>5

(* The engine, its number and the market.                                  *)
LEMMA EngineStep ==
  ASSUME RowInv, ControlInv, NEW t \in Import, PromoteEngine(t)
  PROVE  ControlInv'
<1> DEFINE r == Current(t)
           n == done[t]
<1>0. /\ at[t] = "engine" /\ at[t] \in Statements /\ done' = done /\ db' = db /\ batch' = batch /\ Shape
      /\ DOMAIN mine[t] \subseteq Row
  BY DEF PromoteEngine, Statements, RowInv, Shape
<1>1. /\ batch[t] \in Seq(Records) /\ n \in Nat /\ n + 1 \in DOMAIN batch[t] /\ r = batch[t][n + 1]
  BY <1>0, CurrentRecord
<1>2. Priced(t) = n /\ Engined(t) = n /\ CountsStated(t, n)
  <2>1. Priced(t) = n /\ Engined(t) = n
    BY <1>0, <1>1 DEF Priced, Engined
  <2> QED
    BY <2>1 DEF ControlInv, Progress
<1>3. CASE r.engine = Null
  <2>1. mine' = mine
    BY <1>3 DEF PromoteEngine
  <2>2. Goes1(t, "market")
    BY <1>3, <2>1 DEF PromoteEngine, Goes1, Goes
  <2>3. at'[t] = "market" /\ "market" \in Statements
    BY <2>2 DEF ControlInv, ControlTypeOK, Statements, Goes1
  <2>4. Priced(t)' = n /\ Engined(t)' = n + 1
    BY <1>0, <1>1, <2>3 DEF Priced, Engined
  <2>5. PricesAsserted(t, Priced(t))' /\ done'[t] < Len(batch[t])
    BY <1>0, <1>2, <2>1, <2>2, <2>3, <2>4, Unpromoted
  <2>6. ASSUME NEW k \in Nat, k = n PROVE CountsStated(t, Engined(t))'
    <3>1. CountsStated(t, k + 1)
      BY <1>0, <1>1, <1>2, <1>3, <2>6, CountsPass
    <3>2. CountsStated(t, k + 1)'
      BY <1>0, <2>1, <3>1, CountsKept
    <3> QED
      BY <2>4, <2>6, <3>2
  <2> QED
    BY <1>0, <1>1, <2>2, <2>3, <2>5, <2>6, Advances
<1>4. CASE r.engine # Null
  <2>1. \E row, v : row[1] # "powerplant" /\ Upsert(t, row, v)
    BY <1>4 DEF PromoteEngine
  <2>2. Goes1(t, "powerplant")
    BY <1>4, <2>1 DEF PromoteEngine, Goes1, Goes
  <2>3. at'[t] = "powerplant" /\ "powerplant" \in Statements
    BY <2>2 DEF ControlInv, ControlTypeOK, Statements, Goes1
  <2>4. Priced(t)' = Priced(t) /\ Engined(t)' = Engined(t)
    BY <1>0, <2>3 DEF Priced, Engined
  <2>5. Current(t)'.engine # Null
    BY <1>0, <1>4, <2>1, <2>2, <2>3, Unpromoted
  <2> QED
    BY <1>0, <2>1, <2>2, <2>3, <2>4, <2>5, Unpromoted, Advances
<1> QED
  BY <1>3, <1>4

(* The powerplant of the record has its count.                             *)
LEMMA PowerplantStep ==
  ASSUME RowInv, ControlInv, NEW t \in Import, PromotePowerplant(t)
  PROVE  ControlInv'
<1> DEFINE r == Current(t)
           n == done[t]
           row == <<"powerplant", <<r.key, r.engine>>>>
           v == [count |-> EngineCount(Seen(t, row), r)]
<1>0. /\ at[t] = "powerplant" /\ at[t] \in Statements /\ done' = done /\ db' = db /\ batch' = batch /\ Shape
      /\ DOMAIN mine[t] \subseteq Row /\ Upsert(t, row, v) /\ added' = added /\ r.engine # Null
  BY DEF PromotePowerplant, Statements, RowInv, Shape, ControlInv, Progress
<1>1. /\ batch[t] \in Seq(Records) /\ n \in Nat /\ n + 1 \in DOMAIN batch[t] /\ r = batch[t][n + 1]
      /\ n < Len(batch[t]) /\ r \in Records
  BY <1>0, CurrentRecord
<1>2. Priced(t) = n /\ Engined(t) = n /\ CountsStated(t, n) /\ PricesAsserted(t, n)
  <2>1. Priced(t) = n /\ Engined(t) = n
    BY <1>0, <1>1 DEF Priced, Engined
  <2> QED
    BY <2>1 DEF ControlInv, Progress
<1>3. Goes1(t, "market")
  BY <1>0 DEF PromotePowerplant, Goes1, Goes
<1>4. at'[t] = "market" /\ "market" \in Statements
  BY <1>3 DEF ControlInv, ControlTypeOK, Statements, Goes1
<1>5. Priced(t)' = n /\ Engined(t)' = n + 1
  BY <1>0, <1>1, <1>4 DEF Priced, Engined
<1>6. ASSUME NEW k \in Nat, k = n PROVE PricesAsserted(t, Priced(t))' /\ CountsStated(t, Engined(t))'
  <2>1. PricesAsserted(t, k)'
    BY <1>0, <1>2, <1>6, PricesStay
  <2>2. row \in Row /\ row[1] = "powerplant"
    BY <1>0, <1>1, RowKinds, Fields
  <2>3. row \in DOMAIN mine[t] => mine[t][row] # Null
    BY <2>2 DEF RowInv, Written, Sound
  <2> HIDE DEF v, row
  <2>4. /\ DOMAIN mine'[t] = DOMAIN mine[t] \union {row} /\ mine'[t][row] = v
        /\ \A other \in DOMAIN mine[t] \ {row} : mine'[t][other] = mine[t][other]
    BY <1>0, Upserted
  <2>5. CountsStated(t, k + 1)'
    BY <1>0, <1>1, <1>2, <1>6, <2>3, <2>4, CountsAdvance DEF v, row
  <2> QED
    BY <1>5, <1>6, <2>1, <2>5
<1> QED
  BY <1>0, <1>1, <1>3, <1>4, <1>6, Advances

(* The price of the record is asserted.                                    *)
LEMMA ValuationStep ==
  ASSUME RowInv, ControlInv, NEW t \in Import, PromoteValuation(t)
  PROVE  ControlInv'
<1> DEFINE r == Current(t)
           n == done[t]
<1>0. /\ at[t] = "market" /\ at[t] \in Statements /\ done' = done /\ db' = db /\ batch' = batch /\ Shape
      /\ org' = org
  BY DEF PromoteValuation, Statements, RowInv
<1>1. /\ batch[t] \in Seq(Records) /\ n \in Nat /\ n + 1 \in DOMAIN batch[t] /\ r = batch[t][n + 1]
      /\ n < Len(batch[t])
  BY <1>0, CurrentRecord
<1>2. mine' = mine \/ \E row, v : row[1] # "powerplant" /\ Upsert(t, row, v)
  BY DEF PromoteValuation
<1>3. added' = added \/ \E a : added' = [added EXCEPT ![t] = @ \union a]
  BY DEF PromoteValuation
<1>4. Goes1(t, "costs")
  BY <1>0, <1>2, <1>3 DEF PromoteValuation, Goes1, Goes
<1>5. at'[t] = "costs" /\ "costs" \in Statements /\ added[t] \subseteq added'[t]
  BY <1>0, <1>4, GoesFrame DEF Statements
<1>6. Priced(t)' = n + 1 /\ Engined(t)' = n + 1 /\ Priced(t) = n /\ Engined(t) = n + 1
  BY <1>0, <1>1, <1>5 DEF Priced, Engined
<1>7. CountsStated(t, Engined(t))'
  BY <1>0, <1>2, <1>4, <1>5, <1>6, Unpromoted
<1>8. r.price # Null => [import |-> t, key |-> r.key, field |-> "price"] \in added'[t]
  BY DEF PromoteValuation, ControlInv, ControlTypeOK, Says
<1>9. PricesAsserted(t, n) /\ \A i \in DOMAIN batch[t] : i <= n + 1 <=> i <= n \/ i = n + 1
  <2>1. PricesAsserted(t, n)
    BY <1>6 DEF ControlInv, Progress
  <2> QED
    BY <1>1, <2>1
<1>10. ASSUME NEW k \in Nat, k = n PROVE PricesAsserted(t, k + 1)'
  BY <1>0, <1>1, <1>5, <1>8, <1>9, <1>10 DEF PricesAsserted
<1>11. PricesAsserted(t, Priced(t))'
  BY <1>1, <1>6, <1>10
<1> QED
  BY <1>0, <1>1, <1>4, <1>5, <1>7, <1>11, Advances

(* The record is promoted, and the next one or the commit follows.         *)
LEMMA CostsStep ==
  ASSUME RowInv, ControlInv, NEW t \in Import, PromoteCosts(t)
  PROVE  ControlInv'
<1> DEFINE n == done[t]
           s == IF done[t] + 1 < Len(batch[t]) THEN "organization" ELSE "commit"
<1>0. /\ at[t] = "costs" /\ at[t] \in Statements /\ db' = db /\ batch' = batch /\ Shape
      /\ done' = [done EXCEPT ![t] = @ + 1] /\ org' = [org EXCEPT ![t] = Null]
      /\ at' = [at EXCEPT ![t] = s]
  BY DEF PromoteCosts, Goes, Statements, RowInv
<1>1. n \in Nat /\ n < Len(batch[t]) /\ Len(batch[t]) \in Nat /\ done'[t] = n + 1
  BY <1>0, CurrentRecord DEF ControlInv, ControlTypeOK
<1>2. mine' = mine \/ \E row, v : row[1] # "powerplant" /\ Upsert(t, row, v)
  BY DEF PromoteCosts
<1>3. added' = added \/ \E a : added' = [added EXCEPT ![t] = @ \union a]
  BY DEF PromoteCosts
<1>4. Goes1(t, s) /\ s \in Statements \union {"commit"}
  BY <1>0, <1>2, <1>3 DEF PromoteCosts, Goes1, Statements
<1> HIDE DEF s
<1>5. at'[t] = s /\ added[t] \subseteq added'[t]
  BY <1>0, <1>4, GoesFrame
<1>6. Priced(t)' = n + 1 /\ Engined(t)' = n + 1 /\ Priced(t) = n + 1 /\ Engined(t) = n + 1
  BY <1>0, <1>1, <1>5 DEF Priced, Engined, s
<1>7. ASSUME NEW k \in Nat, k = n + 1 PROVE PricesAsserted(t, Priced(t))' /\ CountsStated(t, Engined(t))'
  <2>1. PricesAsserted(t, k) /\ CountsStated(t, k)
    BY <1>6, <1>7 DEF ControlInv, Progress
  <2>2. PricesAsserted(t, k)' /\ CountsStated(t, k)'
    BY <1>0, <1>2, <1>5, <2>1, PricesStay, CountsKept
  <2> QED
    BY <1>6, <1>7, <2>2
<1>8. /\ s \in Statements => done'[t] < Len(batch[t])
      /\ s = "commit" => done'[t] = Len(batch[t])
      /\ s \notin {"family", "model", "variant", "powerplant"}
  BY <1>1 DEF s, Statements
<1>9. PricesAsserted(t, Priced(t))' /\ CountsStated(t, Engined(t))'
  BY <1>1, <1>7
<1> QED
  BY <1>0, <1>4, <1>8, <1>9, Advances

(* An import with nothing written and nothing promoted.                    *)
LEMMA NothingPromoted ==
  ASSUME NEW t \in Import, mine'[t] = <<>>, done'[t] = 0,
         at'[t] \in {"organization", "committed", "aborted"},
         batch'[t] = <<>> \/ batch'[t] \in Batch,
         at'[t] = "organization" => batch'[t] \in Batch
  PROVE  Progress(t)'
<1>1. /\ Priced(t)' = 0 /\ Engined(t)' = 0 /\ DOMAIN mine'[t] = {}
      /\ \A i \in DOMAIN batch'[t] : ~(i <= 0)
  <2>1. Priced(t)' = 0 /\ Engined(t)' = 0 /\ DOMAIN mine'[t] = {}
    BY DEF Priced, Engined
  <2>2. CASE batch'[t] = <<>>
    BY <2>1, <2>2
  <2>3. CASE batch'[t] \in Batch
    <3>1. batch'[t] \in Seq(Records)
      BY <2>3
    <3> QED
      BY <2>1, <3>1
  <2> QED
    BY <2>2, <2>3
<1>2. PricesAsserted(t, Priced(t))' /\ CountsStated(t, Engined(t))'
  BY <1>1 DEF PricesAsserted, CountsStated
<1>3. at'[t] = "organization" => done'[t] < Len(batch'[t])
  <2>1. ASSUME NEW b \in Batch PROVE 0 < Len(b)
    <3>1. b \in Seq(Records) /\ b # <<>>
      OBVIOUS
    <3> QED
      BY <3>1, EmptySeq, LenProperties
  <2> QED
    BY <2>1
<1> QED
  BY <1>2, <1>3 DEF Progress, Statements

(* An import starts with nothing.                                          *)
LEMMA StageStep ==
  ASSUME RowInv, ControlInv, NEW t \in Import, Stage(t)
  PROVE  RowInv' /\ ControlInv'
<1>1. PICK b \in Batch, d \in Day :
        /\ batch' = [batch EXCEPT ![t] = b] /\ day' = [day EXCEPT ![t] = d]
        /\ at' = [at EXCEPT ![t] = "organization"]
        /\ db' = db /\ mine' = mine /\ done' = done /\ org' = org /\ added' = added /\ at[t] = "idle"
  BY DEF Stage, Goes
<1>2. RowInv'
  BY <1>1, NothingWritten
<1>3. ControlTypeOK
  BY DEF ControlInv
<1>4. ControlTypeOK' /\ at'[t] = "organization" /\ batch'[t] = b
  BY <1>1, <1>3 DEF ControlTypeOK, Statements
<1>5. Frame(t)
  BY <1>1, <1>3, <1>4 DEF Frame, ControlTypeOK
<1>6. mine'[t] = <<>> /\ done'[t] = 0
  BY <1>1 DEF ControlInv, Progress
<1>7. Progress(t)'
  BY <1>4, <1>6, NothingPromoted
<1> QED
  BY <1>2, <1>5, <1>7, FrameKeeps

(* An import ends with nothing.                                            *)
LEMMA EndStep ==
  ASSUME RowInv, ControlInv, NEW t \in Import, Commit(t) \/ Abort(t)
  PROVE  RowInv' /\ ControlInv'
<1>1. RowInv'
  BY CommitKeeps, AbortKeeps
<1>2. PICK s \in {"committed", "aborted"} :
        /\ batch' = [batch EXCEPT ![t] = <<>>] /\ done' = [done EXCEPT ![t] = 0]
        /\ org' = [org EXCEPT ![t] = Null] /\ day' = [day EXCEPT ![t] = Null]
        /\ at' = [at EXCEPT ![t] = s] /\ mine' = [mine EXCEPT ![t] = <<>>]
        /\ added' = [added EXCEPT ![t] = {}]
  BY DEF Commit, Abort, Over, Goes
<1>3. ControlTypeOK /\ Shape /\ RowsExclusive
  BY DEF ControlInv, RowInv
<1>4. /\ ControlTypeOK' /\ at'[t] = s /\ batch'[t] = <<>> /\ done'[t] = 0 /\ mine'[t] = <<>>
  <2>1. /\ batch' \in [Import -> Batch \union {<<>>}] /\ done' \in [Import -> Nat]
        /\ at' \in [Import -> Statements \union {"idle", "commit", "committed", "aborted"}]
        /\ day' \in [Import -> Day \union {Null}]
        /\ org' = [u \in Import |-> org'[u]] /\ added' = [u \in Import |-> added'[u]]
    BY <1>2, <1>3 DEF ControlTypeOK
  <2>2. at'[t] = s /\ batch'[t] = <<>> /\ done'[t] = 0 /\ mine'[t] = <<>>
    BY <1>2, <1>3 DEF ControlTypeOK, Shape
  <2>3. \A u \in Import : at'[u] \in Statements => day'[u] \in Day
    BY <1>2, <1>3, <2>2 DEF ControlTypeOK, Statements
  <2> QED
    BY <2>1, <2>2, <2>3 DEF ControlTypeOK
<1>5. ASSUME NEW u \in Import \ {t}, NEW row \in DOMAIN mine[u] PROVE db'[row] = db[row]
  <2>1. row \in Row /\ row \notin DOMAIN mine[t]
    BY <1>3 DEF Shape, RowsExclusive
  <2> QED
    BY <2>1 DEF Commit, Abort, Seen
<1>6. Frame(t)
  BY <1>2, <1>3, <1>4, <1>5 DEF Frame, ControlTypeOK, Shape
<1>7. Progress(t)'
  BY <1>4, NothingPromoted
<1> QED
  BY <1>1, <1>6, <1>7, FrameKeeps

(* A curator touches no import.                                            *)
LEMMA DemoteStep ==
  ASSUME RowInv, ControlInv, NEW k \in Key, Demote(k)
  PROVE  RowInv' /\ ControlInv'
<1>1. RowInv'
  BY DemoteKeeps
<1>2. /\ \A t \in Import : <<"variant", k>> \notin DOMAIN mine[t]
      /\ \A row \in Row : row # <<"variant", k>> => db'[row] = db[row]
      /\ UNCHANGED <<mine, batch, done, at, org, evidence, added, day>> /\ Shape
  <2> DEFINE v == <<"variant", k>>
             new == [db[v] EXCEPT !.links = {[m EXCEPT !.primary = FALSE] : m \in @}]
  <2>1. db' = [db EXCEPT ![v] = new] /\ Shape
    BY DEF Demote, RowInv
  <2> HIDE DEF v, new
  <2>2. \A row \in Row : row # v => db'[row] = db[row]
    BY <2>1 DEF Shape
  <2> QED
    BY <2>1, <2>2 DEF Demote, v
<1>3. ASSUME NEW u \in Import PROVE Progress(u)'
  <2>1. \A row \in DOMAIN mine[u] : db'[row] = db[row]
    BY <1>2 DEF Shape
  <2> QED
    BY <1>2, <2>1, OthersStay DEF ControlInv
<1>4. ControlTypeOK'
  BY <1>2 DEF ControlInv, ControlTypeOK
<1> QED
  BY <1>1, <1>3, <1>4 DEF ControlInv

(* Clients write nothing of the imports'.                                  *)
LEMMA ReadStep ==
  ASSUME RowInv, ControlInv, UNCHANGED vars
  PROVE  RowInv' /\ ControlInv'
<1>1. RowInv'
  BY NothingWritten DEF vars
<1>2. ASSUME NEW u \in Import PROVE Progress(u)'
  BY OthersStay DEF ControlInv, vars
<1>3. ControlTypeOK'
  BY DEF ControlInv, ControlTypeOK, vars
<1> QED
  BY <1>1, <1>2, <1>3 DEF ControlInv

(* Every step of the system keeps the rows and the imports.                *)
LEMMA CatalogStep ==
  RowInv /\ ControlInv /\ [Write \/ Read]_catalogVars => RowInv' /\ ControlInv'
<1> SUFFICES ASSUME RowInv, ControlInv, [Write \/ Read]_catalogVars
             PROVE  RowInv' /\ ControlInv'
  OBVIOUS
<1>1. CASE Write
  <2>1. ASSUME NEW t \in Import, Stage(t) PROVE RowInv' /\ ControlInv'
    BY <2>1, StageStep
  <2>2. ASSUME NEW t \in Import, Statement(t) PROVE RowInv' /\ ControlInv'
    BY <2>2, StatementKeeps, IdentitySteps, EngineStep, PowerplantStep, ValuationStep, CostsStep, EndStep
       DEF Statement
  <2>3. ASSUME NEW t \in Import, Abort(t) PROVE RowInv' /\ ControlInv'
    BY <2>3, EndStep
  <2>4. ASSUME NEW k \in Key, Demote(k) PROVE RowInv' /\ ControlInv'
    BY <2>4, DemoteStep
  <2> QED
    BY <1>1, <2>1, <2>2, <2>3, <2>4 DEF Write
<1>2. CASE Read
  <2>1. UNCHANGED vars
    BY <1>2 DEF Read, Ask, Resolve, Page, Refilter
  <2> QED
    BY <2>1, ReadStep
<1>3. CASE UNCHANGED catalogVars
  BY <1>3, ReadStep DEF catalogVars
<1> QED
  BY <1>1, <1>2, <1>3

(* An empty catalog, with no import under way.                             *)
LEMMA CatalogStarts == CatalogInit => RowInv /\ ControlInv
<1> SUFFICES ASSUME CatalogInit PROVE RowInv /\ ControlInv
  OBVIOUS
<1>1. /\ db = [row \in Row |-> Null] /\ mine = [t \in Import |-> <<>>]
      /\ batch = [t \in Import |-> <<>>] /\ done = [t \in Import |-> 0]
      /\ at = [t \in Import |-> "idle"] /\ org = [t \in Import |-> Null]
      /\ added = [t \in Import |-> {}] /\ day = [t \in Import |-> Null]
  BY DEF CatalogInit, Init
<1>2. RowInv
  BY <1>1 DEF RowInv, Shape, RowsExclusive
<1>3. ControlTypeOK
  BY <1>1 DEF ControlTypeOK, Statements
<1>4. ASSUME NEW t \in Import PROVE Progress(t)
  <2>1. at[t] = "idle" /\ mine[t] = <<>> /\ batch[t] = <<>> /\ done[t] = 0
    BY <1>1
  <2> QED
    BY <2>1 DEF Progress, Statements, PricesAsserted, CountsStated
<1> QED
  BY <1>2, <1>3, <1>4 DEF ControlInv

(* The inductive invariant: whatever imports run together, no two have a   *)
(* row, every row is sound and keeps what is committed of it, whoever      *)
(* names a new variant after its model has the model, and an import has    *)
(* asserted and counted what its promoted records say.                     *)
THEOREM CatalogInvariant == CatalogSpec => [](RowInv /\ ControlInv)
  BY CatalogStarts, CatalogStep, PTL DEF CatalogSpec

(* Apart, of what an import sees.                                          *)
LEMMA RowInv_SlugsUnique == RowInv => VariantSlugsUnique
<1> SUFFICES ASSUME RowInv, NEW t \in Import, NEW k \in Key, NEW row \in Variants(t), row[2] # k
             PROVE  /\ db[<<"variant", k>>] # Null => db[<<"variant", k>>].slug # Seen(t, row).slug
                    /\ \A u \in Import \ {t} : <<"variant", k>> \in DOMAIN mine[u] =>
                          mine[u][<<"variant", k>>].slug # Seen(t, row).slug
  BY DEF VariantSlugsUnique
<1>1. row \in Row /\ row[1] = "variant" /\ Seen(t, row) # Null
  BY DEF Variants
<1>2. Apart(row, Seen(t, row))
  BY <1>1, SeenVariant
<1> DEFINE other == <<"variant", k>>
<1>3. other \in Row \ {row} /\ other[1] = "variant"
  BY RowKinds
<1> HIDE DEF other
<1>4. /\ db[other] # Null => db[other].slug # Seen(t, row).slug
      /\ \A u \in Import : other \in DOMAIN mine[u] => mine[u][other].slug # Seen(t, row).slug
  BY <1>1, <1>2, <1>3 DEF Apart
<1> QED
  BY <1>4 DEF other

(* No two variants get one slug, however many imports promote at once.     *)
THEOREM SlugsAreUnique == CatalogSpec => []VariantSlugsUnique
  BY CatalogInvariant, RowInv_SlugsUnique, PTL

(* What an import about to commit leaves in a powerplant.                  *)
CountLeft(t, row) ==
    LET stated == {i \in DOMAIN batch[t] : /\ row[2] = <<batch[t][i].key, batch[t][i].engine>>
                                           /\ batch[t][i].engines # Null}
    IN  \/ /\ stated = {}
           /\ mine[t][row].count = IF db[row] = Null THEN Null ELSE db[row].count
        \/ \E i \in stated : /\ \A j \in stated : j <= i
                             /\ mine[t][row].count = batch[t][i].engines

(* At the commit every record counts.                                      *)
LEMMA CountsLeft ==
  ASSUME NEW t \in Import, NEW row, CountOf(t, row, Len(batch[t])),
         \A i \in DOMAIN batch[t] : i <= Len(batch[t])
  PROVE  CountLeft(t, row)
<1> DEFINE stated == {i \in DOMAIN batch[t] : /\ row[2] = <<batch[t][i].key, batch[t][i].engine>>
                                              /\ batch[t][i].engines # Null}
           bounded == {i \in DOMAIN batch[t] : /\ i <= Len(batch[t])
                                               /\ row[2] = <<batch[t][i].key, batch[t][i].engine>>
                                               /\ batch[t][i].engines # Null}
           before == IF db[row] = Null THEN Null ELSE db[row].count
<1>1. stated = bounded
  OBVIOUS
<1>2. \/ bounded = {} /\ mine[t][row].count = before
      \/ \E i \in bounded : (\A j \in bounded : j <= i) /\ mine[t][row].count = batch[t][i].engines
  BY DEF CountOf
<1> SUFFICES \/ stated = {} /\ mine[t][row].count = before
             \/ \E i \in stated : (\A j \in stated : j <= i) /\ mine[t][row].count = batch[t][i].engines
  BY DEF CountLeft
<1> HIDE DEF bounded, before, stated
<1> QED
  BY <1>1, <1>2

(* Sound rows, one primary link, and the whole batch asserted and counted. *)
LEMMA Inv_Consistent == RowInv /\ ControlInv => PromotedIsConsistent
<1> SUFFICES ASSUME RowInv, ControlInv PROVE PromotedIsConsistent
  OBVIOUS
<1>1. ASSUME NEW t \in Import, NEW row \in Variants(t)
      PROVE  Seen(t, row).start # Null /\ Seen(t, row).end # Null => Seen(t, row).start <= Seen(t, row).end
  BY SeenVariant DEF Variants, Sound
<1>2. ASSUME NEW t \in Import, NEW row \in DOMAIN mine[t], row[1] = "variant"
      PROVE  Cardinality({l \in mine[t][row].links : l.primary}) = 1
  <2>1. \E l \in Link : {x \in mine[t][row].links : x.primary} = {l}
    BY <1>2 DEF RowInv, Written, Primaries
  <2> QED
    BY <2>1, FS_Singleton
<1>3. ASSUME NEW t \in Import, at[t] = "commit"
      PROVE  /\ \A i \in DOMAIN batch[t] : batch[t][i].price # Null =>
                   [import |-> t, key |-> batch[t][i].key, field |-> "price"] \in added[t]
             /\ \A row \in DOMAIN mine[t] : row[1] = "powerplant" => CountLeft(t, row)
  <2>1. done[t] = Len(batch[t]) /\ done[t] \in Nat /\ batch[t] \in Seq(Records)
    BY <1>3 DEF ControlInv, ControlTypeOK, Progress
  <2>2. \A i \in DOMAIN batch[t] : i <= Len(batch[t])
    BY <2>1
  <2>3. Priced(t) = Len(batch[t]) /\ Engined(t) = Len(batch[t])
    BY <1>3, <2>1 DEF Priced, Engined
  <2>4. PricesAsserted(t, Len(batch[t])) /\ CountsStated(t, Len(batch[t]))
    BY <2>3 DEF ControlInv, Progress
  <2> QED
    BY <2>2, <2>4, CountsLeft DEF PricesAsserted, CountsStated
<1> QED
  BY <1>1, <1>2, <1>3, Zenon DEF PromotedIsConsistent, CountLeft

(* What imports promote one after the other, or at once, fits together.    *)
THEOREM PromotionsAreConsistent == CatalogSpec => []PromotedIsConsistent
  BY CatalogInvariant, Inv_Consistent, PTL

(* Only a commit writes a market row, and its rows keep what is committed. *)
LEMMA Standing_Step ==
  RowInv /\ [Write \/ Read]_catalogVars =>
     \A row \in Row :
        /\ row[1] = "valuation" /\ db[row] # Null => db'[row] = db[row]
        /\ row[1] = "costs" /\ db[row] # Null =>
              \A i \in CostItem \ Extra : db[row][i] # Null => db'[row][i] = db[row][i]
<1> SUFFICES ASSUME RowInv, [Write \/ Read]_catalogVars, NEW row \in Row
             PROVE  /\ row[1] = "valuation" /\ db[row] # Null => db'[row] = db[row]
                    /\ row[1] = "costs" /\ db[row] # Null =>
                          \A i \in CostItem \ Extra : db[row][i] # Null => db'[row][i] = db[row][i]
  OBVIOUS
<1>1. ASSUME NEW t \in Import, Commit(t) PROVE db'[row] = Seen(t, row)
  BY <1>1 DEF Commit
<1>2. ASSUME NEW t \in Import, row \in DOMAIN mine[t] PROVE Standing(row, mine[t][row])
  BY <1>2 DEF RowInv, Written
<1>3. ASSUME NEW t \in Import, Commit(t)
      PROVE  /\ row[1] = "valuation" /\ db[row] # Null => db'[row] = db[row]
             /\ row[1] = "costs" /\ db[row] # Null =>
                   \A i \in CostItem \ Extra : db[row][i] # Null => db'[row][i] = db[row][i]
  BY <1>1, <1>2, <1>3 DEF Seen, Standing
<1>4. ASSUME NEW k \in Key, Demote(k), row[1] # "variant" PROVE db'[row] = db[row]
  <2> DEFINE v == <<"variant", k>>
             new == [db[v] EXCEPT !.links = {[m EXCEPT !.primary = FALSE] : m \in @}]
  <2>1. db' = [db EXCEPT ![v] = new] /\ Shape /\ row # v
    BY <1>4 DEF Demote, RowInv
  <2> HIDE DEF v, new
  <2> QED
    BY <2>1 DEF Shape
<1>5. \/ db' = db
      \/ \E t \in Import : Commit(t)
      \/ \E k \in Key : Demote(k)
  <2>1. CASE Write
    <3>1. ASSUME NEW t \in Import, Stage(t) \/ Abort(t) PROVE db' = db
      BY <3>1 DEF Stage, Abort
    <3>2. ASSUME NEW t \in Import, Statement(t) PROVE db' = db \/ Commit(t)
      BY <3>2 DEF Statement, PromoteOrganization, PromoteFamily, PromoteModel, PromoteVariant, PromoteDocument,
                  PromoteEngine, PromotePowerplant, PromoteValuation, PromoteCosts
    <3> QED
      BY <2>1, <3>1, <3>2 DEF Write
  <2>2. CASE Read
    BY <2>2 DEF Read, Ask, Resolve, Page, Refilter, vars
  <2>3. CASE UNCHANGED catalogVars
    BY <2>3 DEF catalogVars, vars
  <2> QED
    BY <2>1, <2>2, <2>3
<1> QED
  BY <1>3, <1>4, <1>5

(* What is stored of a market value, a total or a line item of a day       *)
(* stands, whichever imports read the same aircraft again that day.        *)
THEOREM MarketValuesStand == CatalogSpec => MarketStands
<1>1. RowInv /\ [Write \/ Read]_catalogVars =>
        [\A row \in Row :
            /\ row[1] = "valuation" /\ db[row] # Null => db'[row] = db[row]
            /\ row[1] = "costs" /\ db[row] # Null =>
                  \A i \in CostItem \ Extra : db[row][i] # Null => db'[row][i] = db[row][i]]_catalogVars
  BY Standing_Step
<1> QED
  BY CatalogInvariant, <1>1, PTL DEF CatalogSpec, MarketStands

-----------------------------------------------------------------------------
(***************************************************************************)
(* Pages.                                                                  *)
(***************************************************************************)

(* What is before, and what is after, one of a set of slugs.               *)
Before(S, m) == {k \in S : k < m}
After(S, m) == {k \in S : m < k}

(* They are strictly nested, as the slugs are ordered.                     *)
LEMMA BeforeAfter ==
  ASSUME NEW S \in SUBSET Int, NEW m \in S, NEW k \in S, k < m
  PROVE  /\ Before(S, k) \subseteq Before(S, m) /\ k \in Before(S, m) /\ k \notin Before(S, k)
         /\ After(S, m) \subseteq After(S, k) /\ m \in After(S, k) /\ m \notin After(S, m)
<1>1. ASSUME NEW j \in S, j < k PROVE j < m
  <2>1. j \in Int /\ k \in Int /\ m \in Int
    OBVIOUS
  <2> QED
    BY <1>1, <2>1
<1>2. ASSUME NEW j \in S, m < j PROVE k < j
  <2>1. j \in Int /\ k \in Int /\ m \in Int
    OBVIOUS
  <2> QED
    BY <1>2, <2>1
<1>3. ~(k < k) /\ ~(m < m)
  <2>1. k \in Int /\ m \in Int
    OBVIOUS
  <2> QED
    BY <2>1
<1> QED
  BY <1>1, <1>2, <1>3, Zenon DEF Before, After

(* They are finite in a finite set.                                        *)
LEMMA BeforeSubset ==
  ASSUME NEW S, IsFiniteSet(S), NEW m
  PROVE  /\ Before(S, m) \subseteq S /\ After(S, m) \subseteq S
         /\ IsFiniteSet(Before(S, m)) /\ IsFiniteSet(After(S, m))
         /\ Cardinality(Before(S, m)) \in Nat
<1>1. Before(S, m) \in SUBSET S /\ After(S, m) \in SUBSET S
  BY DEF Before, After
<1> QED
  BY <1>1, FS_Subset, FS_CardinalityType

(* The first n are those with fewer than n before them.                    *)
LEMMA FirstBefore ==
  ASSUME NEW n, NEW S, NEW m
  PROVE  m \in First(n, S) <=> m \in S /\ Cardinality(Before(S, m)) < n
  BY DEF First, Before

(* A finite set of slugs that is not empty has a first and a last: the     *)
(* sets of what is before each of them are well founded.                   *)
LEMMA Least ==
  ASSUME NEW S \in SUBSET Int, IsFiniteSet(S), S # {}
  PROVE  \E m \in S : \A k \in S : m <= k
<1> DEFINE T == {Before(S, m) : m \in S}
           R == StrictSubsetOrdering(S)
           F == FiniteSubsetsOf(S)
<1>1. IsWellFoundedOn(R, F)
  BY FS_StrictSubsetOrderingWellFounded
<1>2. T \subseteq F /\ T # {}
  <2>1. \A m \in S : Before(S, m) \in F
    BY BeforeSubset DEF FiniteSubsetsOf
  <2> QED
    BY <2>1
<1>3. \E x \in T : \A y \in T : ~ (<<y, x>> \in R)
  <2> HIDE DEF T, R, F
  <2> QED
    BY <1>1, <1>2, WFMin
<1>4. PICK m \in S : \A k \in S : ~ (<<Before(S, k), Before(S, m)>> \in R)
  BY <1>3
<1>5. ASSUME NEW k \in S, k < m PROVE FALSE
  <2>1. Before(S, k) \subseteq Before(S, m) /\ Before(S, k) # Before(S, m) /\ Before(S, m) \subseteq S
    BY <1>5, BeforeAfter, BeforeSubset
  <2>2. <<Before(S, k), Before(S, m)>> \in R
    BY <2>1 DEF StrictSubsetOrdering
  <2> QED
    BY <1>4, <2>2
<1> QED
  BY <1>5

(* And the same for what is after each of them.                            *)
LEMMA Greatest ==
  ASSUME NEW S \in SUBSET Int, IsFiniteSet(S), S # {}
  PROVE  \E m \in S : \A k \in S : k <= m
<1> DEFINE T == {After(S, m) : m \in S}
           R == StrictSubsetOrdering(S)
           F == FiniteSubsetsOf(S)
<1>1. IsWellFoundedOn(R, F)
  BY FS_StrictSubsetOrderingWellFounded
<1>2. T \subseteq F /\ T # {}
  <2>1. \A m \in S : After(S, m) \in F
    BY BeforeSubset DEF FiniteSubsetsOf
  <2> QED
    BY <2>1
<1>3. \E x \in T : \A y \in T : ~ (<<y, x>> \in R)
  <2> HIDE DEF T, R, F
  <2> QED
    BY <1>1, <1>2, WFMin
<1>4. PICK m \in S : \A k \in S : ~ (<<After(S, k), After(S, m)>> \in R)
  BY <1>3
<1>5. ASSUME NEW k \in S, m < k PROVE FALSE
  <2>1. After(S, k) \subseteq After(S, m) /\ After(S, k) # After(S, m) /\ After(S, m) \subseteq S
    BY <1>5, BeforeAfter, BeforeSubset
  <2>2. <<After(S, k), After(S, m)>> \in R
    BY <2>1 DEF StrictSubsetOrdering
  <2> QED
    BY <1>4, <2>2
<1> QED
  BY <1>5

(* The first n of a set: with a row it has every row before it.            *)
LEMMA FirstIsDownward ==
  ASSUME NEW S \in SUBSET Int, IsFiniteSet(S), NEW n \in Int, NEW m \in First(n, S), NEW k \in S, k < m
  PROVE  k \in First(n, S)
<1>1. m \in S /\ Cardinality(Before(S, m)) < n
  BY FirstBefore
<1>2. Before(S, k) \in SUBSET Before(S, m)
  BY <1>1, BeforeAfter
<1>3. IsFiniteSet(Before(S, m)) /\ Cardinality(Before(S, m)) \in Nat /\ Cardinality(Before(S, k)) \in Nat
  BY BeforeSubset
<1>4. Cardinality(Before(S, k)) <= Cardinality(Before(S, m))
  BY <1>2, <1>3, FS_Subset
<1> QED
  BY <1>1, <1>3, <1>4, FirstBefore

(* The first n of a finite set are a finite part of it.                    *)
LEMMA FirstIsSubset ==
  ASSUME NEW S, IsFiniteSet(S), NEW n
  PROVE  First(n, S) \subseteq S /\ IsFiniteSet(First(n, S)) /\ Cardinality(First(n, S)) \in Nat
<1>1. First(n, S) \in SUBSET S
  BY DEF First
<1> QED
  BY <1>1, FS_Subset, FS_CardinalityType

(* A page with nothing past it has all there was.                          *)
LEMMA LastPage ==
  ASSUME NEW P \in SUBSET Int, IsFiniteSet(P), NEW L \in Nat, L > 0,
         ~(Cardinality(First(L + 1, P)) > L)
  PROVE  First(L, First(L + 1, P)) = P
<1> DEFINE rows == First(L + 1, P)
<1>1. rows \subseteq P /\ IsFiniteSet(rows) /\ Cardinality(rows) \in Nat
  BY FirstIsSubset
<1>2. \A m \in P \ rows : ~(Cardinality(Before(P, m)) < L + 1)
  BY FirstBefore
<1>3. ~(Cardinality(rows) > L)
  OBVIOUS
<1> HIDE DEF rows
<1>4. rows = P
  <2> SUFFICES ASSUME rows # P PROVE FALSE
    OBVIOUS
  <2>1. /\ P \ rows \in SUBSET Int /\ IsFiniteSet(P \ rows) /\ P \ rows # {}
    BY <1>1, FS_Difference
  <2>2. PICK m \in P \ rows : \A k \in P \ rows : m <= k
    BY <2>1, Least
  <2>3. ASSUME NEW k \in Before(P, m) PROVE k \in rows
    <3>1. k \in P /\ k < m /\ k \in Int /\ m \in Int
      BY DEF Before
    <3> QED
      BY <2>2, <3>1
  <2>4. Before(P, m) \in SUBSET rows
    BY <2>3
  <2>5. Cardinality(Before(P, m)) <= Cardinality(rows) /\ Cardinality(Before(P, m)) \in Nat
    BY <1>1, <2>4, FS_Subset, BeforeSubset
  <2> QED
    BY <1>1, <1>2, <1>3, <2>5
<1>5. ASSUME NEW m \in P PROVE m \in First(L, P)
  <2>1. Before(P, m) \in SUBSET P /\ Before(P, m) # P
    <3>1. m \notin Before(P, m)
      <4>1. m \in Int
        OBVIOUS
      <4> QED
        BY <4>1 DEF Before
    <3> QED
      BY <3>1, BeforeSubset
  <2>2. /\ Cardinality(Before(P, m)) \in Nat /\ Cardinality(P) \in Nat
        /\ Cardinality(Before(P, m)) <= Cardinality(P) /\ Cardinality(Before(P, m)) # Cardinality(P)
    BY <2>1, BeforeSubset, FS_Subset, FS_CardinalityType
  <2> QED
    BY <1>1, <1>3, <1>4, <2>2, FirstBefore
<1>6. First(L, P) \subseteq P
  BY FirstIsSubset
<1> QED
  BY <1>4, <1>5, <1>6 DEF rows

(* A page with a row past it ends with its cursor, and has what is up to   *)
(* there.                                                                  *)
LEMMA PageBefore ==
  ASSUME NEW P \in SUBSET Int, IsFiniteSet(P), NEW L \in Nat, L > 0,
         Cardinality(First(L + 1, P)) > L
  PROVE  LET kept == First(L, First(L + 1, P))
         IN  /\ kept \subseteq P /\ LastOf(kept) \in kept
             /\ \A m \in kept : m <= LastOf(kept)
             /\ \A m \in P : m <= LastOf(kept) => m \in kept
<1> DEFINE rows == First(L + 1, P)
           kept == First(L, rows)
           last == LastOf(kept)
<1>1. rows \subseteq P /\ IsFiniteSet(rows) /\ Cardinality(rows) > L
  BY FirstIsSubset
<1>2. \A m \in rows, k \in P : k < m => k \in rows
  BY FirstIsDownward
<1> HIDE DEF rows
<1>3. kept \subseteq rows /\ IsFiniteSet(kept) /\ kept \in SUBSET Int /\ rows \in SUBSET Int
  BY <1>1, FirstIsSubset
<1>4. \A m \in kept, k \in rows : k < m => k \in kept
  BY <1>1, <1>3, FirstIsDownward
<1>5. kept # {}
  <2>1. rows # {}
    <3> SUFFICES ASSUME rows = {} PROVE FALSE
      OBVIOUS
    <3>1. Cardinality(rows) = 0
      BY FS_EmptySet
    <3> QED
      BY <1>1, <3>1
  <2>2. PICK m \in rows : \A k \in rows : m <= k
    BY <1>1, <1>3, <2>1, Least
  <2>3. Before(rows, m) = {}
    <3>1. ASSUME NEW k \in Before(rows, m) PROVE FALSE
      <4>1. k \in rows /\ k < m /\ k \in Int /\ m \in Int
        BY <1>3 DEF Before
      <4> QED
        BY <2>2, <4>1
    <3> QED
      BY <3>1
  <2>4. Cardinality(Before(rows, m)) = 0
    BY <2>3, FS_EmptySet
  <2>5. m \in kept
    BY <2>4, FirstBefore
  <2> QED
    BY <2>5
<1> HIDE DEF kept
<1>6. last \in kept /\ \A m \in kept : m <= last
  <2>1. \E m \in kept : \A k \in kept : k <= m
    BY <1>3, <1>5, Greatest
  <2> QED
    BY <2>1, Zenon DEF LastOf
<1> HIDE DEF last
<1>7. ASSUME NEW m \in P, m <= last PROVE m \in kept
  <2>1. m \in Int /\ last \in Int /\ last \in rows
    BY <1>3, <1>6
  <2>2. m = last \/ m < last
    BY <1>7, <2>1
  <2> QED
    BY <1>2, <1>4, <1>6, <2>1, <2>2
<1> QED
  BY <1>1, <1>3, <1>6, <1>7 DEF rows, kept, last

-----------------------------------------------------------------------------
(***************************************************************************)
(* Scans.                                                                  *)
(***************************************************************************)

(* A statement writes a row or none, until the last one commits them.      *)
Wrote(t) == db' = db /\ (mine' = mine \/ \E row, v : Upsert(t, row, v))

(* So it is for each of them.                                              *)
LEMMA StatementWrites ==
  ASSUME NEW t \in Import, Statement(t)
  PROVE  Commit(t) \/ Wrote(t)
<1>1. PromoteOrganization(t) \/ PromoteFamily(t) \/ PromoteModel(t) \/ PromoteVariant(t) => Wrote(t)
  BY DEF PromoteOrganization, PromoteFamily, PromoteModel, PromoteVariant, Wrote
<1>2. PromoteDocument(t) \/ PromoteEngine(t) \/ PromotePowerplant(t) => Wrote(t)
  BY DEF PromoteDocument, PromoteEngine, PromotePowerplant, Wrote
<1>3. PromoteValuation(t) \/ PromoteCosts(t) => Wrote(t)
  BY DEF PromoteValuation, PromoteCosts, Wrote
<1> QED
  BY <1>1, <1>2, <1>3 DEF Statement

(* The rows there are.                                                     *)
Present == {row \in Row : db[row] # Null}

(* A row at a time, there are never infinitely many.                       *)
LEMMA FiniteStep ==
  RowInv /\ FiniteInv /\ [Write \/ Read]_catalogVars => FiniteInv'
<1> SUFFICES ASSUME RowInv, FiniteInv, [Write \/ Read]_catalogVars PROVE FiniteInv'
  OBVIOUS
<1>0. Shape /\ IsFiniteSet(Present) /\ \A t \in Import : IsFiniteSet(DOMAIN mine[t])
  BY DEF RowInv, FiniteInv, Present
<1>1. ASSUME IsFiniteSet(Present'), \A t \in Import : IsFiniteSet(DOMAIN mine'[t]) PROVE FiniteInv'
  BY <1>1 DEF FiniteInv, Present
<1>2. ASSUME UNCHANGED <<db, mine>> PROVE FiniteInv'
  BY <1>0, <1>1, <1>2 DEF Present
<1>3. ASSUME NEW t \in Import, db' = db, NEW row, NEW v, Upsert(t, row, v) PROVE FiniteInv'
  <2>1. Present' = Present
    BY <1>3 DEF Present
  <2>2. DOMAIN mine'[t] = DOMAIN mine[t] \union {row} /\ \A u \in Import \ {t} : mine'[u] = mine[u]
    BY <1>0, <1>3, Upserted
  <2>3. IsFiniteSet(DOMAIN mine[t] \union {row})
    BY <1>0, FS_AddElement
  <2> QED
    BY <1>0, <1>1, <2>1, <2>2, <2>3
<1>4. ASSUME NEW t \in Import, Commit(t) \/ Abort(t) PROVE FiniteInv'
  <2>1. /\ \A u \in Import \ {t} : mine'[u] = mine[u]
        /\ mine'[t] = <<>> /\ DOMAIN mine'[t] = {}
    BY <1>0, <1>4 DEF Commit, Abort, Shape
  <2>2. IsFiniteSet(DOMAIN mine'[t])
    BY <2>1, FS_EmptySet
  <2>3. Present' \in SUBSET (Present \union DOMAIN mine[t])
    BY <1>4 DEF Commit, Abort, Present, Seen
  <2>4. IsFiniteSet(Present \union DOMAIN mine[t])
    BY <1>0, FS_Union
  <2>5. IsFiniteSet(Present')
    BY <2>3, <2>4, FS_Subset
  <2> QED
    BY <1>0, <1>1, <2>1, <2>2, <2>5
<1>5. ASSUME NEW k \in Key, Demote(k) PROVE FiniteInv'
  <2> DEFINE w == <<"variant", k>>
             new == [db[w] EXCEPT !.links = {[m EXCEPT !.primary = FALSE] : m \in @}]
  <2>1. db' = [db EXCEPT ![w] = new] /\ Shape /\ db[w] # Null /\ mine' = mine
    BY <1>0, <1>5 DEF Demote
  <2> HIDE DEF w, new
  <2>2. Present' \in SUBSET Present
    BY <2>1 DEF Shape, Present
  <2>3. IsFiniteSet(Present')
    BY <1>0, <2>2, FS_Subset
  <2> QED
    BY <1>0, <1>1, <2>1, <2>3
<1>6. CASE Write
  <2>1. ASSUME NEW t \in Import, Stage(t) PROVE FiniteInv'
    BY <1>2, <2>1 DEF Stage
  <2>2. ASSUME NEW t \in Import, Statement(t) PROVE FiniteInv'
    BY <1>2, <1>3, <1>4, <2>2, StatementWrites DEF Wrote
  <2> QED
    BY <1>4, <1>5, <1>6, <2>1, <2>2 DEF Write
<1>7. CASE Read \/ UNCHANGED catalogVars
  BY <1>2, <1>7 DEF Read, Ask, Resolve, Page, Refilter, catalogVars, vars
<1> QED
  BY <1>6, <1>7

(* There is none to begin with.                                            *)
LEMMA FiniteStarts == CatalogInit => FiniteInv
<1> SUFFICES ASSUME CatalogInit PROVE FiniteInv
  OBVIOUS
<1>1. db = [row \in Row |-> Null] /\ mine = [t \in Import |-> <<>>]
  BY DEF CatalogInit, Init
<1>2. {row \in Row : db[row] # Null} = {} /\ \A t \in Import : DOMAIN mine[t] = {}
  BY <1>1
<1> QED
  BY <1>2, FS_EmptySet DEF FiniteInv

(* What matches a filter is finite.                                        *)
LEMMA MatchesFinite ==
  ASSUME FiniteInv, NEW filter
  PROVE  Matches(db, filter) \in SUBSET Int /\ Matches(db, filter) \subseteq Models
         /\ IsFiniteSet(Matches(db, filter))
<1> DEFINE f == [m \in Matches(db, filter) |-> <<"model", m>>]
<1>1. \A m \in Models : m \in Int /\ <<"model", m>> \in Row
  BY DEF Models, Row
<1>2. Matches(db, filter) \in SUBSET Int /\ Matches(db, filter) \subseteq Models
  BY <1>1 DEF Matches
<1>3. \A m \in Matches(db, filter) : <<"model", m>> \in Present
  BY <1>1 DEF Matches, Present
<1>4. f \in [Matches(db, filter) -> Present]
  BY <1>3
<1>5. \A a, b \in Matches(db, filter) : f[a] = f[b] => a = b
  OBVIOUS
<1> HIDE DEF f
<1>6. f \in Injection(Matches(db, filter), Present)
  BY <1>4, <1>5 DEF Injection, IsInjective
<1> QED
  BY <1>2, <1>6, FS_Injection DEF FiniteInv, Present

(* What is past the cursor, and the page of it.                            *)
LEMMA PastFinite ==
  ASSUME FiniteInv, NEW c \in Client
  PROVE  Past(c) \in SUBSET Int /\ IsFiniteSet(Past(c)) /\ Past(c) \subseteq Models
<1>1. Past(c) \in SUBSET Matches(db, walk[c].filter)
  BY DEF Past
<1> QED
  BY <1>1, MatchesFinite, FS_Subset

(* A client that waits, or is over, stays as it is.                        *)
LEMMA ScanStays ==
  ASSUME NEW c \in Client, Scan(c), walk'[c] = walk[c],
         \/ lasting'[c] = lasting[c] /\ db' = db
         \/ lasting'[c] = IF Scanning(c) THEN lasting[c] \intersect Matches(db', Scanned(c)) ELSE lasting[c]
  PROVE  Scan(c)'
<1>1. /\ Scanning(c)' = Scanning(c) /\ Scanned(c)' = Scanned(c) /\ Listed(c)' = Listed(c)
  BY DEF Scanning, Scanned, Listed
<1>2. /\ lasting'[c] \subseteq lasting[c]
      /\ Scanning(c) => lasting'[c] \subseteq Matches(db', Scanned(c))
  BY DEF Scan
<1>3. Matches(db, Scanned(c))' = Matches(db', Scanned(c)')
  BY DEF Matches
<1> QED
  BY <1>1, <1>2, <1>3 DEF Scan

(* A page adds what lies between the old cursor and the new one.           *)
LEMMA PageStep ==
  ASSUME FiniteInv, CatalogTypeOK, NEW c \in Client, Scan(c), Page(c)
  PROVE  CatalogTypeOK' /\ Scan(c)'
<1> DEFINE P == Past(c)
           rows == Overfetched(c)
           kept == First(Limit, rows)
           next == Resume(rows)
           w == walk[c]
<1>0. /\ w.at = "page" /\ lasting' = lasting /\ db' = db /\ Scanned(c) = w.filter
      /\ lasting[c] \subseteq Matches(db, w.filter)
  BY DEF Page, vars, Scan, Scanning
<1>1. /\ P \in SUBSET Int /\ IsFiniteSet(P) /\ P \subseteq Models /\ Limit \in Nat /\ Limit > 0
      /\ rows = First(Limit + 1, P)
  BY PastFinite DEF Overfetched
<1>2. CASE walk' = [walk EXCEPT ![c].at = "resolve"]
  <2>1. CatalogTypeOK'
    BY <1>0, <1>2 DEF CatalogTypeOK
  <2>2. /\ walk'[c].at = "resolve" /\ walk'[c].cursor = w.cursor /\ walk'[c].pages = w.pages
        /\ walk'[c].filter = w.filter
    BY <1>2 DEF CatalogTypeOK
  <2>3. Scanned(c)' = Scanned(c) /\ Scanning(c) /\ Listed(c)' = Listed(c)
    BY <1>0, <2>2 DEF Scanned, Scanning, Listed
  <2> QED
    BY <1>0, <2>1, <2>2, <2>3 DEF Scan, Matches
<1>3. CASE walk' = [walk EXCEPT
                 ![c].at = IF next = Null THEN "done" ELSE "resolve",
                 ![c].pages = Append(@, kept),
                 ![c].cursor = [after |-> next, filter |-> walk[c].filter]]
  <2>1. /\ kept \subseteq P
        /\ next = Null => kept = P
        /\ next # Null => /\ next \in kept
                          /\ \A m \in kept : m <= next
                          /\ \A m \in P : m <= next => m \in kept
    <3>1. CASE Cardinality(rows) > Limit
      <4>1. next = LastOf(kept)
        BY <3>1 DEF Resume
      <4>2. /\ kept \subseteq P /\ LastOf(kept) \in kept
            /\ \A m \in kept : m <= LastOf(kept)
            /\ \A m \in P : m <= LastOf(kept) => m \in kept
        <5> HIDE DEF P
        <5> QED
          BY <1>1, <3>1, PageBefore
      <4>3. next # Null
        BY <1>1, <4>1, <4>2
      <4> HIDE DEF next, kept, P
      <4> QED
        BY <4>1, <4>2, <4>3
    <3>2. CASE ~(Cardinality(rows) > Limit)
      <4>1. next = Null
        BY <3>2 DEF Resume
      <4>2. kept = P
        <5> HIDE DEF P
        <5> QED
          BY <1>1, <3>2, LastPage
      <4> QED
        BY <4>1, <4>2
    <3> QED
      BY <3>1, <3>2
  <2> HIDE DEF kept, next, rows
  <2>2. /\ walk'[c].at = (IF next = Null THEN "done" ELSE "resolve")
        /\ walk'[c].pages = Append(w.pages, kept)
        /\ walk'[c].cursor.after = next /\ walk'[c].cursor.filter = w.filter
        /\ walk'[c].filter = w.filter /\ w.pages \in Seq(SUBSET Models)
    BY <1>3 DEF CatalogTypeOK
  <2>3. CatalogTypeOK'
    <3>1. kept \in SUBSET Models /\ next \in Models \union {Null}
      BY <1>1, <2>1
    <3>2. /\ Append(w.pages, kept) \in Seq(SUBSET Models) /\ w.filter \in Filter
      BY <2>2, <3>1 DEF CatalogTypeOK
    <3> QED
      BY <1>0, <1>3, <3>1, <3>2 DEF CatalogTypeOK
  <2>4. /\ Len(w.pages) \in Nat /\ DOMAIN w.pages = 1 .. Len(w.pages)
        /\ DOMAIN walk'[c].pages = 1 .. (Len(w.pages) + 1)
        /\ \A i \in DOMAIN w.pages : walk'[c].pages[i] = w.pages[i]
        /\ walk'[c].pages[Len(w.pages) + 1] = kept
    BY <2>2
  <2>5. Listed(c)' = Listed(c) \union kept
    <3>1. \A i \in DOMAIN walk'[c].pages : i \in DOMAIN w.pages \/ i = Len(w.pages) + 1
      BY <2>4
    <3>2. DOMAIN w.pages \subseteq DOMAIN walk'[c].pages /\ Len(w.pages) + 1 \in DOMAIN walk'[c].pages
      BY <2>4
    <3> QED
      BY <2>4, <3>1, <3>2 DEF Listed
  <2>6. /\ w.cursor.after # Null =>
             /\ w.cursor.after \in Int
             /\ \A m \in lasting[c] : m <= w.cursor.after => m \in Listed(c)
             /\ \A m \in Listed(c) : m <= w.cursor.after
        /\ w.cursor.after = Null => w.pages = <<>>
    BY <1>0 DEF Scan, Scanning
  <2>7. \A m \in lasting[c] : m \in P \/ m \in Listed(c)
    <3>1. ASSUME NEW m \in lasting[c], m \notin P PROVE m \in Listed(c)
      <4>1. m \in Matches(db, w.filter) /\ m \in Int
        BY <1>0, MatchesFinite
      <4>2. w.cursor.after # Null /\ ~(w.cursor.after < m)
        BY <3>1, <4>1 DEF Past
      <4> QED
        BY <2>6, <4>1, <4>2
    <3> QED
      BY <3>1
  <2>8. ASSUME NEW m \in Listed(c), NEW k \in kept
        PROVE  m < k
    <3>1. k \in P
      BY <2>1
    <3>2. w.cursor.after # Null
      BY <2>6 DEF Listed
    <3>3. w.cursor.after < k /\ k \in Int
      BY <1>1, <3>1, <3>2 DEF Past
    <3>4. m \in Int
      <4>1. \A i \in DOMAIN w.pages : w.pages[i] \subseteq Models
        BY <2>2, <2>4
      <4>2. Models \subseteq Int
        BY DEF Models, Row
      <4> QED
        BY <4>1, <4>2 DEF Listed
    <3> QED
      BY <2>6, <3>2, <3>3, <3>4
  <2>9. \A i, j \in DOMAIN walk'[c].pages : i < j =>
          \A m \in walk'[c].pages[i], n \in walk'[c].pages[j] : m < n
    <3> SUFFICES ASSUME NEW i \in DOMAIN walk'[c].pages, NEW j \in DOMAIN walk'[c].pages, i < j,
                        NEW m \in walk'[c].pages[i], NEW n \in walk'[c].pages[j]
                 PROVE  m < n
      OBVIOUS
    <3>1. i \in DOMAIN w.pages /\ m \in w.pages[i]
      BY <2>4
    <3>2. CASE j \in DOMAIN w.pages
      BY <2>4, <3>1, <3>2 DEF Scan
    <3>3. CASE j = Len(w.pages) + 1
      <4>1. m \in Listed(c) /\ n \in kept
        BY <2>4, <3>1, <3>3 DEF Listed
      <4> QED
        BY <2>8, <4>1
    <3> QED
      BY <2>4, <3>2, <3>3
  <2>10. CASE next = Null
    <3>1. walk'[c].at = "done" /\ lasting'[c] \subseteq Listed(c)'
      BY <1>0, <2>1, <2>2, <2>5, <2>7, <2>10
    <3> QED
      BY <2>3, <2>9, <3>1 DEF Scan, Scanning
  <2>11. CASE next # Null
    <3>1. walk'[c].at = "resolve" /\ Scanned(c)' = w.filter /\ next \in Int
      BY <1>1, <2>1, <2>2, <2>11 DEF Scanned
    <3>2. lasting'[c] \subseteq Matches(db, Scanned(c))'
      BY <1>0, <3>1 DEF Matches
    <3>3. \A m \in lasting'[c] : m <= next => m \in Listed(c)'
      BY <1>0, <2>1, <2>5, <2>7, <2>11
    <3>4. \A m \in Listed(c)' : m <= next
      <4>1. ASSUME NEW m \in Listed(c) PROVE m <= next
        <5>1. m < next /\ m \in Int
          <6>1. \A i \in DOMAIN w.pages : w.pages[i] \subseteq Models
            BY <2>2, <2>4
          <6>2. Models \subseteq Int
            BY DEF Models, Row
          <6> QED
            BY <2>1, <2>8, <2>11, <6>1, <6>2 DEF Listed
        <5> QED
          BY <3>1, <5>1
      <4> QED
        BY <2>1, <2>5, <2>11, <4>1
    <3> QED
      BY <2>2, <2>3, <2>9, <2>11, <3>1, <3>2, <3>3, <3>4 DEF Scan, Scanning
  <2> QED
    BY <2>10, <2>11
<1> QED
  BY <1>2, <1>3 DEF Page

(* What a client does is its own.                                          *)
LEMMA ReadKeeps ==
  ASSUME FiniteInv, ScanInv, Read
  PROVE  ScanInv'
<1>0. CatalogTypeOK /\ \A c \in Client : Scan(c)
  BY DEF ScanInv
<1>1. PICK c \in Client : Ask(c) \/ Resolve(c) \/ Page(c) \/ Refilter(c)
  BY DEF Read
<1>2. ASSUME NEW d \in Client, d # c PROVE Scan(d)'
  <2>1. /\ walk'[d] = walk[d] /\ lasting'[d] = lasting[d] /\ db' = db
    BY <1>0, <1>1, <1>2 DEF Ask, Resolve, Page, Refilter, CatalogTypeOK, vars
  <2> QED
    BY <1>0, <2>1, ScanStays
<1>3. CASE Ask(c)
  <2>1. PICK f \in Filter : /\ walk' = [walk EXCEPT ![c].at = "resolve", ![c].filter = f]
                            /\ lasting' = [lasting EXCEPT ![c] = Matches(db, f)]
                            /\ walk[c].at = "idle" /\ db' = db
    BY <1>3 DEF Ask, Filter, vars
  <2>2. Matches(db, f) \subseteq Models
    BY DEF Matches
  <2>3. CatalogTypeOK'
    BY <1>0, <2>1, <2>2 DEF CatalogTypeOK
  <2>4. /\ walk'[c].at = "resolve" /\ walk'[c].filter = f /\ walk'[c].cursor = NoCursor
        /\ walk'[c].pages = <<>> /\ lasting'[c] = Matches(db, f)
    BY <1>0, <2>1 DEF CatalogTypeOK, Scan
  <2>5. Scanned(c)' = f /\ walk'[c].cursor.after = Null
    BY <2>4 DEF Scanned, NoCursor
  <2>6. Scan(c)'
    <3>1. lasting'[c] \subseteq Matches(db, Scanned(c))'
      BY <2>1, <2>4, <2>5 DEF Matches
    <3>2. DOMAIN walk'[c].pages = {}
      BY <2>4
    <3> QED
      BY <2>4, <2>5, <3>1, <3>2 DEF Scan, Scanning
  <2> QED
    BY <1>2, <2>3, <2>6 DEF ScanInv
<1>4. CASE Resolve(c)
  <2>1. PICK s \in {"refused", "page"} :
          /\ walk' = [walk EXCEPT ![c].at = s] /\ walk[c].at = "resolve" /\ db' = db /\ lasting' = lasting
          /\ s = "page" => walk[c].cursor.after = Null \/ walk[c].cursor.filter = walk[c].filter
    BY <1>4 DEF Resolve, vars
  <2>2. CatalogTypeOK'
    BY <1>0, <2>1 DEF CatalogTypeOK
  <2>3. /\ walk'[c].at = s /\ walk'[c].filter = walk[c].filter /\ walk'[c].cursor = walk[c].cursor
        /\ walk'[c].pages = walk[c].pages
    BY <1>0, <2>1 DEF CatalogTypeOK
  <2>4. Scanned(c)' = Scanned(c) /\ Listed(c)' = Listed(c) /\ Scanning(c)
    BY <2>1, <2>3 DEF Scanned, Listed, Scanning
  <2>5. s = "page" => Scanned(c) = walk[c].filter
    BY <2>1 DEF Scanned
  <2>6. Scan(c)'
    BY <1>0, <2>1, <2>3, <2>4, <2>5 DEF Scan, Scanning, Matches
  <2> QED
    BY <1>2, <2>2, <2>6 DEF ScanInv
<1>5. CASE Page(c)
  BY <1>0, <1>2, <1>5, PageStep DEF ScanInv
<1>6. CASE Refilter(c)
  <2>1. PICK f \in Filter : /\ walk' = [walk EXCEPT ![c].filter = f] /\ db' = db /\ lasting' = lasting
                            /\ walk[c].at = "resolve" /\ walk[c].cursor.after # Null
    BY <1>6 DEF Refilter, Filter, vars
  <2>2. CatalogTypeOK'
    BY <1>0, <2>1 DEF CatalogTypeOK
  <2>3. /\ walk'[c].at = "resolve" /\ walk'[c].cursor = walk[c].cursor
        /\ walk'[c].pages = walk[c].pages
    BY <1>0, <2>1 DEF CatalogTypeOK
  <2>4. Scanned(c)' = Scanned(c) /\ Listed(c)' = Listed(c) /\ Scanning(c)
    BY <2>1, <2>3 DEF Scanned, Listed, Scanning
  <2>5. Scan(c)'
    BY <1>0, <2>1, <2>3, <2>4 DEF Scan, Scanning, Matches
  <2> QED
    BY <1>2, <2>2, <2>5 DEF ScanInv
<1> QED
  BY <1>1, <1>3, <1>4, <1>5, <1>6

(* Imports take from what lasted, clients read on.                         *)
LEMMA ScanStep ==
  FiniteInv /\ ScanInv /\ [Write \/ Read]_catalogVars => ScanInv'
<1> SUFFICES ASSUME FiniteInv, ScanInv, [Write \/ Read]_catalogVars PROVE ScanInv'
  OBVIOUS
<1>0. CatalogTypeOK /\ \A c \in Client : Scan(c)
  BY DEF ScanInv
<1>1. CASE Write
  <2>1. /\ walk' = walk
        /\ lasting' = [c \in Client |-> IF Scanning(c) THEN lasting[c] \intersect Matches(db', Scanned(c))
                                        ELSE lasting[c]]
    BY <1>1 DEF Write, Notice
  <2>2. CatalogTypeOK'
    BY <1>0, <2>1 DEF CatalogTypeOK
  <2>3. ASSUME NEW c \in Client PROVE Scan(c)'
    <3>1. walk'[c] = walk[c]
      BY <2>1
    <3>2. lasting'[c] = IF Scanning(c) THEN lasting[c] \intersect Matches(db', Scanned(c)) ELSE lasting[c]
      BY <2>1
    <3> QED
      BY <1>0, <3>1, <3>2, ScanStays
  <2> QED
    BY <2>2, <2>3 DEF ScanInv
<1>2. CASE Read
  BY <1>2, ReadKeeps
<1>3. CASE UNCHANGED catalogVars
  <2>1. CatalogTypeOK'
    BY <1>0, <1>3 DEF CatalogTypeOK, catalogVars
  <2>2. ASSUME NEW c \in Client PROVE Scan(c)'
    <3>1. walk'[c] = walk[c] /\ lasting'[c] = lasting[c] /\ db' = db
      BY <1>3 DEF catalogVars, vars
    <3> QED
      BY <1>0, <3>1, ScanStays
  <2> QED
    BY <2>1, <2>2 DEF ScanInv
<1> QED
  BY <1>1, <1>2, <1>3

(* No client has asked for anything.                                       *)
LEMMA ScanStarts == CatalogInit => ScanInv
<1> SUFFICES ASSUME CatalogInit PROVE ScanInv
  OBVIOUS
<1>1. /\ walk = [c \in Client |-> [at |-> "idle", filter |-> Null, cursor |-> NoCursor, pages |-> <<>>]]
      /\ lasting = [c \in Client |-> {}]
  BY DEF CatalogInit
<1>2. CatalogTypeOK
  <2>1. NoCursor \in [after : Models \union {Null}, filter : Filter]
    BY DEF NoCursor, Filter
  <2>2. <<>> \in Seq(SUBSET Models) /\ Null \in Filter
    BY DEF Filter
  <2> HIDE DEF NoCursor
  <2> QED
    BY <1>1, <2>1, <2>2 DEF CatalogTypeOK
<1>3. ASSUME NEW c \in Client PROVE Scan(c)
  <2>1. walk[c].at = "idle" /\ walk[c].cursor = NoCursor /\ walk[c].pages = <<>>
    BY <1>1
  <2> QED
    BY <2>1 DEF Scan, Scanning
<1> QED
  BY <1>2, <1>3 DEF ScanInv

(* The inductive invariant of the scans: what lasted so far and is not     *)
(* past the cursor is listed, and pages follow each other; there are       *)
(* finitely many rows at any instant, so that a page has a last row.       *)
THEOREM ScanInvariant == CatalogSpec => [](FiniteInv /\ ScanInv)
<1>1. CatalogInit => FiniteInv /\ ScanInv
  BY FiniteStarts, ScanStarts
<1>2. RowInv /\ FiniteInv /\ ScanInv /\ [Write \/ Read]_catalogVars => FiniteInv' /\ ScanInv'
  BY FiniteStep, ScanStep
<1> QED
  BY <1>1, <1>2, CatalogInvariant, PTL DEF CatalogSpec

(* What is said of a scan that is over.                                    *)
LEMMA ScanInv_Complete == ScanInv => ScanIsComplete
  BY DEF ScanInv, Scan, ScanIsComplete

(* Whatever imports write between two pages, and whichever family a client *)
(* asks for on the way, a scan that ends has missed nothing that lasted    *)
(* and listed nothing twice.                                               *)
THEOREM ScansAreComplete == CatalogSpec => []ScanIsComplete
  BY ScanInvariant, ScanInv_Complete, PTL
=============================================================================
