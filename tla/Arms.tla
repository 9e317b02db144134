-------------------------------- MODULE Arms --------------------------------
(***************************************************************************)
(* What the modules of rules share: the absent value, the first arm of a   *)
(* list of early returns or match arms that applies, and a set in order    *)
(* (SortSeq of TLC has no definition that a proof could use).              *)
(***************************************************************************)
EXTENDS Integers, Sequences, FiniteSets

CONSTANT None

\* An arm is a condition and a result.
FirstOf(arms) ==
    LET hits == {i \in DOMAIN arms : arms[i][1]}
    IN  IF hits = {} THEN None ELSE arms[CHOOSE i \in hits : \A j \in hits : i <= j][2]

\* The members of a finite set, each at the place of as many as come before it.
InOrder(S, Precedes(_, _)) ==
    [n \in 1..Cardinality(S) |-> CHOOSE x \in S : Cardinality({y \in S : Precedes(y, x)}) = n - 1]

\* The elements of a sequence at some places, in their order.
Picked(s, places) ==
    LET precedes(i, j) == i < j
        order == InOrder(places, precedes)
    IN  [n \in DOMAIN order |-> s[order[n]]]
=============================================================================
