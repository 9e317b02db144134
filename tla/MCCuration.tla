----------------------------- MODULE MCCuration -----------------------------
(***************************************************************************)
(* Model-checking instance of Curation: the cost snapshots s1 and s2 of    *)
(* one variant, where s1 has two fields and s2 has one; a measured field of *)
(* the variant v that two sources assert; and its name.                    *)
(***************************************************************************)
EXTENDS Curation, TLC

CONSTANTS s1, s2, v, f, g, m, n, a1, a2, a3, m1, m2, n1

MCEntityOf == [a \in Assertion |->
                 CASE a \in {a1, a2} -> s1 [] a = a3 -> s2 [] OTHER -> v]
MCFieldOf == [a \in Assertion |->
                CASE a \in {a1, a3} -> f [] a = a2 -> g [] a \in {m1, m2} -> m [] OTHER -> n]

Symmetry == Permutations(Curator)
=============================================================================
