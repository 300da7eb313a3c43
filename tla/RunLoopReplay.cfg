\* A run and the process that resumes it.
SPECIFICATION Spec
CONSTANTS
    clean = clean
    good = good
    bad = bad
    None = None
    Clean = clean
    Contents <- MCContents
    Failing <- MCFailing
    Fallback = TRUE
    MaxRounds = 1
    MaxProcesses = 2
INVARIANT
    ReplayableRunsResume
\* A finished run has nothing left to do.
CHECK_DEADLOCK FALSE
