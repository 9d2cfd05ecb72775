--------------------------- MODULE MCIssueClaims ----------------------------
(* Two commands of a session and one that a user gives without one.        *)
EXTENDS IssueClaims, TLC
CONSTANTS c1, c2, user, s
MCSessionOf == [c \in Commands |-> IF c \in {c1, c2} THEN s ELSE None]
Alike == Permutations({c1, c2})
=============================================================================
