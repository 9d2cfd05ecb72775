--------------------------- MODULE MCPlanSupervision ---------------------------
EXTENDS PlanSupervision, TLC

Symmetry == Permutations(Procs) \cup Permutations(Parts)
=============================================================================
