---------------------------- MODULE MCAreaLocks ----------------------------
(* Two supervisors, two runs, two areas besides "*": small enough to be    *)
(* exhaustive with one crash and a clock that passes the TTL twice.        *)
EXTENDS AreaLocks, TLC

Symmetry == Permutations(Managers) \cup Permutations(Runs) \cup Permutations(Areas)
=============================================================================
