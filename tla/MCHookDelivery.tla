--------------------------- MODULE MCHookDelivery ---------------------------
(* Small instances of HookDelivery for TLC.                                *)
EXTENDS HookDelivery

CONSTANTS h1, h2, s1, s2

\* Events 1 and 2 are of one session, later ones of another.
MCSessionOf == [e \in Events |-> IF e <= 2 THEN s1 ELSE s2]
=============================================================================
