---------------------------- MODULE TokenBucket ----------------------------
(***************************************************************************)
(* What the rate limiter promises each principal's traffic, without        *)
(* milliseconds, a bounded store or eviction: a bucket holds at most Burst *)
(* tokens' worth, earns Rate of it per instant, and every admission costs  *)
(* Token of it.  A bucket may lose what it holds; it never gains.          *)
(***************************************************************************)
EXTENDS Naturals

CONSTANTS Principal, Burst, Rate, Token

VARIABLES
    now,       \* the instant of the latest request
    level,     \* what each principal may still spend
    admitted   \* how many of its requests were admitted

(* What a bucket holds at most when the next request comes at instant t.   *)
Earned(p, t) ==
    LET uncapped == level[p] + Rate[p] * (t - now)
    IN  IF uncapped < Burst[p] THEN uncapped ELSE Burst[p]

Init ==
    /\ now = 0
    /\ level \in [Principal -> Nat]
    /\ \A p \in Principal : level[p] <= Burst[p]
    /\ admitted = [p \in Principal |-> 0]

(* Time passes up to the instant of a request, which costs spent[p].       *)
Advance(spent) ==
    /\ now' \in Nat
    /\ now' >= now
    /\ level' \in [Principal -> Nat]
    /\ \A p \in Principal : level'[p] + spent[p] <= Earned(p, now')

(* Nobody is admitted.                                                     *)
Pass ==
    /\ Advance([p \in Principal |-> 0])
    /\ UNCHANGED admitted

(* A request of p is admitted.                                             *)
Spend(p) ==
    /\ Advance([q \in Principal |-> IF q = p THEN Token ELSE 0])
    /\ admitted' = [admitted EXCEPT ![p] = @ + 1]

Next == Pass \/ \E p \in Principal : Spend(p)

vars == <<now, level, admitted>>
Spec == Init /\ [][Next]_vars

(* The rate a principal can reach: its burst, and what time earned since.  *)
WithinRate ==
    \A p \in Principal : admitted[p] * Token <= Burst[p] + Rate[p] * now
=============================================================================
