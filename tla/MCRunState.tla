----------------------------- MODULE MCRunState -----------------------------
\* Model of RunState for TLC: a run that plans, implements and is reviewed.
EXTENDS RunState, TLC

CONSTANTS d0, d1

MCWorkPhases == {"planning", "implementing", "reviewing"}
MCDiffs == {d0, d1}
MCSymmetry == Permutations(MCDiffs)

=============================================================================
