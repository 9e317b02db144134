---------------------------- MODULE ImportLedger ----------------------------
(***************************************************************************)
(* What the import command promises, without processes, transactions,      *)
(* locks or attempts: every artifact is imported at most once and as a     *)
(* whole, and a caller is told of a success only when the artifact's       *)
(* records are stored.                                                     *)
(***************************************************************************)
EXTENDS Naturals

CONSTANTS Caller, Artifact, Records

VARIABLES
    stored,   \* number of records of each artifact in the database
    told      \* the artifact whose import a caller was told of, if any

Init ==
    /\ stored = [a \in Artifact |-> 0]
    /\ told = [c \in Caller |-> {}]

(* All records of an artifact appear in one step, and only once.           *)
Import(a) ==
    /\ stored[a] = 0
    /\ stored' = [stored EXCEPT ![a] = Records]
    /\ UNCHANGED told

(* A caller learns of a finished import, its own or an earlier one.        *)
Acknowledge(c, a) ==
    /\ stored[a] = Records
    /\ told' = [told EXCEPT ![c] = {a}]
    /\ UNCHANGED stored

(* The caller turns to another command.                                    *)
Forget(c) ==
    /\ told' = [told EXCEPT ![c] = {}]
    /\ UNCHANGED stored

Next ==
    \/ \E a \in Artifact : Import(a)
    \/ \E c \in Caller, a \in Artifact : Acknowledge(c, a)
    \/ \E c \in Caller : Forget(c)

Spec == Init /\ [][Next]_<<stored, told>>
=============================================================================
