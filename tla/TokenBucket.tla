---------------------------- MODULE TokenBucket ----------------------------
(* What an ideal rate limiter promises: one bucket per key that exists for   *)
(* ever and is topped up as time passes.  Nothing is computed lazily and      *)
(* nothing is forgotten.                                                      *)
EXTENDS Naturals

CONSTANTS Keys, Rate, Burst, Cost

VARIABLES
    level,    \* credit in each key's bucket
    answer    \* the last request: its key and whether it was let through

vars == <<level, answer>>

NoAnswer == <<>>

\* Time passes: every bucket gains Rate credits, up to the brim.
Refill ==
    /\ level' = [k \in Keys |-> IF level[k] + Rate > Burst THEN Burst ELSE level[k] + Rate]
    /\ answer' = NoAnswer

Take(k) ==
    /\ level[k] >= Cost
    /\ level' = [level EXCEPT ![k] = @ - Cost]
    /\ answer' = <<k, TRUE>>

Refuse(k) ==
    /\ level[k] < Cost
    /\ answer' = <<k, FALSE>>
    /\ UNCHANGED level

Init == level = [k \in Keys |-> Burst] /\ answer = NoAnswer

Next == Refill \/ \E k \in Keys : Take(k) \/ Refuse(k)

Spec == Init /\ [][Next]_vars
=============================================================================
