\* A run that two processes resume, another run that shares its serialized
\* adapter, and an approval ledger that two processes want. Two overlapping
\* panels of up to two members, with room for two live members and four
\* units of work: both limits bind.
SPECIFICATION Spec
CONSTANTS
    p1 = p1
    p2 = p2
    d1 = d1
    d2 = d2
    c1 = c1
    c2 = c2
    a = a
    b = b
    b2 = b2
    c = c
    d = d
    e = e
    run1 = run1
    run2 = run2
    approvals = approvals
    None = None
    NoReservation = NoReservation
    Panels <- MCPanels
    Digests <- MCDigests
    Callers <- MCCallers
    WorkLimit = 4
    LiveLimit = 2
    MaxMembers = 2
    MaxWork = 3
    MaxGeneration = 10
    Processes <- MCProcesses
    Runs <- MCRuns
    RunOf <- MCRunOf
    Resumers <- MCResumers
    LedgerUsers <- MCLedgerUsers
    MaxPolls = 1
    MaxInvocations = 1
SYMMETRY Symmetric
INVARIANTS
    LedgerBalances
PROPERTIES
    ImplementsOwnership
    WaitsEnd
\* Every process ends, done or dead, and a ledger is used up.
CHECK_DEADLOCK FALSE
