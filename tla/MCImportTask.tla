---------------------------- MODULE MCImportTask ----------------------------
(***************************************************************************)
(* Model-checking instance of ImportTask: a document longer than the       *)
(* channel, one that only differs from it in its last record, and two that *)
(* fail the preflight.                                                     *)
(***************************************************************************)
EXTENDS ImportTask, TLC

CONSTANTS a, b

R(key, warnings, error) == [key |-> key, warnings |-> warnings, error |-> error]
Good == [records |-> <<R(a, 1, FALSE), R(b, 0, FALSE)>>, fault |-> FALSE]
Short == [records |-> <<R(a, 1, FALSE)>>, fault |-> FALSE]
Broken == [records |-> <<R(a, 1, FALSE)>>, fault |-> TRUE]
Wrong == [records |-> <<R(a, 1, TRUE)>>, fault |-> FALSE]
MCDocument == {Good, Short, Broken, Wrong}
=============================================================================
