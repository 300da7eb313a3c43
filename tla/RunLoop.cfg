\* Two rounds and three processes: one that starts the run and two that resume it.
SPECIFICATION Spec
CONSTANTS
    clean = clean
    good = good
    bad = bad
    None = None
    Clean = clean
    Contents <- MCContents
    Failing <- MCFailing
    Fallback = TRUE
    MaxRounds = 2
    MaxProcesses = 3
INVARIANTS
    PassedWasReviewed
    EvidenceIsKept
    UnrecordedWorkIsDecided
    SupervisorBaselineIsPristine
PROPERTIES
    RegressionsBlock
\* A finished run has nothing left to do.
CHECK_DEADLOCK FALSE
