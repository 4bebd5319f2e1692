------------------------------ MODULE MCIngest ------------------------------
(* Small instances of Ingest for TLC.                                       *)
EXTENDS Ingest

CONSTANTS r1, r2, r3, p1, p2, p3, p4, s1, s2

\* Three transcripts of session 1 and two requests that post it; session 2 has a
\* transcript and a request.
MCIdOf == [x \in Sources |-> IF x \in {r3, p4} THEN s2 ELSE s1]
=============================================================================
