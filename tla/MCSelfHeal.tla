----------------------------- MODULE MCSelfHeal -----------------------------
EXTENDS SelfHeal, TLC
CONSTANTS a, b
MCRuns == {a, b}
MCExcluded == [h \in Healers |-> {}]
Alike == Permutations(Healers)
=============================================================================
