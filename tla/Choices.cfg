CONSTANTS
    Roster <- MCRoster
    Jobs <- MCJobs
    AdapterOf <- MCAdapterOf
    FamilyOf <- MCFamilyOf
    Settings <- MCSettings
    MaxSettings = 3
    Keyed = "claude:sonnet"
    BuiltIn <- MCBuiltIn
    Bogus = "bogus"
    Adapters <- MCAdapters
    Requests <- MCRequests
    Answers <- MCAnswers
    Paths <- MCPaths
    MaxPackages = 2
    MaxRounds = 3
    MaxResumes = 1
\* A run that is resolved, rejected, done or failed for good has stopped.
CHECK_DEADLOCK FALSE
SPECIFICATION Spec
INVARIANTS
    ParsedPinsAreKept
    AuditIsOfAnotherFamily
    AuthorityIsTrusted
    ScopeIsNeverWidened
    PassedPackagesWereReviewed
