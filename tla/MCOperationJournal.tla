------------------------- MODULE MCOperationJournal -------------------------
\* Model of OperationJournal for TLC.
EXTENDS OperationJournal, TLC

CONSTANTS q1, q2, i1, i2

MCRequests == {q1, q2}
MCInputs == {i1, i2}

\* Inputs are only compared for equality.  Requests too.
Symmetric == Permutations(MCRequests) \cup Permutations(MCInputs)

=============================================================================
