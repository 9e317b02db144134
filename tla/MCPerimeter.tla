----------------------------- MODULE MCPerimeter -----------------------------
(***************************************************************************)
(* Model-checking instance of Perimeter: one request more than there are   *)
(* permits, and one input for every way through the layers.                *)
(***************************************************************************)
EXTENDS Perimeter, TLC

In(options, declared, chunks, broken, route) ==
    [options |-> options, declared |-> declared, chunks |-> chunks, broken |-> broken,
     route |-> route]

MCInput == {
    In(TRUE, None, 0, FALSE, "unknown"),   \* a preflight
    In(TRUE, 2, 2, FALSE, "unknown"),      \* a preflight that declares too much
    In(FALSE, 2, 2, FALSE, "public"),      \* a declared excess
    In(FALSE, None, 2, FALSE, "public"),   \* an excess found while reading
    In(FALSE, None, 1, TRUE, "public"),    \* a body that breaks off
    In(FALSE, 1, 1, FALSE, "scoped"),
    In(FALSE, None, 0, FALSE, "public"),
    In(FALSE, None, 0, FALSE, "ready"),
    In(FALSE, None, 0, FALSE, "unknown"),
    In(FALSE, None, 0, FALSE, "method") }
=============================================================================
