CONSTANTS
    Requests <- MCRequests
    Answers <- MCAnswers
    Paths <- MCPaths
    MaxPackages = 2
    MaxRounds = 3
    MaxResumes = 1
\* A run that is done or failed for good has stopped.
CHECK_DEADLOCK FALSE
SPECIFICATION WorkSpec
INVARIANT
    ProgressSurvives
