------------------------------ MODULE MCCatalog -----------------------------
(***************************************************************************)
(* Model-checking instance of Catalog. Three spellings of a manufacturer   *)
(* share a slug, two of them but for their case; so do the names of two    *)
(* aircraft of different keys; the model of two others moves between       *)
(* families, the names of manufacturer and aircraft being joined in its    *)
(* slug.                                                                   *)
(***************************************************************************)
EXTENDS Catalog, TLC

CONSTANTS acme, acmeInc, ACME, other, ab, aSlashB, name1, name2, name3, k1, k2, k3, k4, k5, eng1, fuel, note

R(key, maker, name, start, end, engines, price, costs) ==
    [key |-> key, maker |-> maker, name |-> name, start |-> start, end |-> end,
     engine |-> eng1, engines |-> engines, price |-> price, costs |-> costs, metrics |-> {}]
NoCosts == <<>>

A1 == R(k1, acme, ab, 1, 2, Null, 5, fuel :> 1)
A2 == R(k1, acme, ab, 3, Null, 2, 6, (fuel :> 2) @@ (note :> 1))
A3 == R(k1, acme, ab, Null, 1, 1, Null, note :> 2)
B1 == R(k2, acmeInc, aSlashB, Null, Null, Null, Null, NoCosts)
C1 == [R(k3, other, name1, Null, Null, Null, Null, NoCosts) EXCEPT !.engine = Null, !.metrics = {"span"}]
D1 == [C1 EXCEPT !.key = k4, !.maker = ACME, !.name = name2]
E1 == [C1 EXCEPT !.key = k5, !.name = name3]

MCBatch == {<<A1>>, <<A2, A3>>, <<B1, C1>>, <<D1, E1>>}
MCSlugify ==
    (acme :> 1) @@ (acmeInc :> 1) @@ (ACME :> 1) @@ (other :> 2)
    @@ (<<acme, ab>> :> 11) @@ (<<acmeInc, aSlashB>> :> 11)
    @@ (<<other, name1>> :> 21) @@ (<<ACME, name2>> :> 21) @@ (<<other, name3>> :> 5)
MCUpper == (acme :> ACME) @@ (acmeInc :> acmeInc) @@ (ACME :> ACME) @@ (other :> other)
Symmetry == Permutations(Import)
=============================================================================
