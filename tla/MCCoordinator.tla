--------------------------- MODULE MCCoordinator ---------------------------
(* A diamond: d needs b and c, which need a.                               *)
EXTENDS Coordinator, TLC

CONSTANTS a, b, c, d

MCParts == {a, b, c, d}
MCDeps == a :> {} @@ b :> {a} @@ c :> {a} @@ d :> {b, c}
MCOrder == a :> 0 @@ b :> 1 @@ c :> 2 @@ d :> 3
=============================================================================
