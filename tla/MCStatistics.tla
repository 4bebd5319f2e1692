--------------------------- MODULE MCStatistics ---------------------------
(* A small instance of Statistics for TLC: days around New Year 2023.       *)
EXTENDS Statistics, TLC

CONSTANTS s1, s2, s3, s4

\* Day 0 is Saturday 1 January 2022, day 365 is a Sunday: the days from 364 to 366
\* cross a New Year and a Monday.
MCHorizon == 355..372
MCNewYears == {0, 365, 730}
MCMonthStarts == {0, 31, 59, 90, 120, 151, 181, 212, 243, 273, 304, 334, 365, 396, 730}

Cheap == [cost |-> 1, tokens |-> 3, model |-> {"haiku", "sonnet"}, project |-> "a"]
Dear == [cost |-> 4, tokens |-> 7, model |-> {"opus"}, project |-> "b"]
Free == [cost |-> 0, tokens |-> 0, model |-> {}, project |-> "a"]

MCBodies == {Cheap, Dear, Free}
Symmetry == Permutations(Sessions)
=============================================================================
