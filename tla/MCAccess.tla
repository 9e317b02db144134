------------------------------ MODULE MCAccess ------------------------------
(* Model-checking instance of Access. *)
EXTENDS Access, TLC

Symmetry == Permutations(Request) \union Permutations(Issuer)
               \union Permutations(Key) \union Permutations(Secret)
=============================================================================
