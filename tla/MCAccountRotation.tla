------------------------- MODULE MCAccountRotation --------------------------
EXTENDS AccountRotation
CONSTANTS r1, r2, Count
MCProfiles == 1 .. Count
Bound(ticks, rotates, armed, failures, kills) ==
  [ticks |-> ticks, rotates |-> rotates, armed |-> armed, failures |-> failures, kills |-> kills]
Setup(inPlace, working, bound) ==
  [inPlace |-> inPlace, at |-> [r \in Runs |-> 1], working |-> working, bound |-> bound]
(* A run whose account the tick may swap too, or the rotate command and    *)
(* the sweep; two runs that move from one profile.                         *)
MCSetups ==
  {Setup(TRUE, {r1}, Bound(1, 0, 0, 1, 1)), Setup(TRUE, {r1}, Bound(0, 1, 1, 0, 0)),
   Setup(FALSE, Runs, Bound(0, 0, 0, 1, 1))}
=============================================================================
