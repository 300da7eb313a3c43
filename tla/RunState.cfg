\* Three processes, two failed writes, two transitions besides those that every
\* process makes.
SPECIFICATION Spec
CONSTANTS
    d0 = d0
    d1 = d1
    NoDiff = NoDiff
    None = None
    WorkPhases <- MCWorkPhases
    Diffs <- MCDiffs
    MaxRound = 1
    MaxTransitions = 2
    MaxErrors = 2
    MaxProcesses = 3
SYMMETRY MCSymmetry
INVARIANTS
    JournalLeads
    AcknowledgedIsDurable
    SuccessIsFinal
    FailureNeverLooksPassed
\* The run is over when no process is left to work on it.
CHECK_DEADLOCK FALSE
