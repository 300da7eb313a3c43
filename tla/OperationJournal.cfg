\* Two requests, two input sets, two operations of up to three attempts:
\* enough for a replayed, a retried, a failed and a diverging operation.
SPECIFICATION Spec
CONSTANTS
    q1 = q1
    q2 = q2
    i1 = i1
    i2 = i2
    None = None
    Requests <- MCRequests
    Inputs <- MCInputs
    MaxOps = 2
    MaxAttempts = 3
SYMMETRY Symmetric
INVARIANTS
    DuplicatesAreFlagged
    AnswersAreDurable
    CallMatchesJournal
PROPERTIES
    JournalIsMonotone
    ImplementsAtLeastOnce
