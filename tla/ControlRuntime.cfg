\* Two runtimes and a shell on one worktree.
SPECIFICATION Spec
CONSTANTS
    daemon = daemon
    server = server
    shell = shell
    s1 = s1
    s2 = s2
    s3 = s3
    s4 = s4
    s5 = s5
    r1 = r1
    c1 = c1
    k1 = k1
    n1 = n1
    n2 = n2
    n3 = n3
    n4 = n4
    None = None
    Processes <- MCProcesses
    Calls <- MCCalls
    Op <- MCOp
    Home <- MCHome
    Nonce <- MCNonce
    Key <- MCNonce
    Target <- MCTarget
    Expiring = {n2}
    Casts <- MCCasts
    MaxCrashes = 1
INVARIANTS
    SingleUseUntilExpiry
    StartsExclude
    CloseDrains
PROPERTIES
    CloseEnds
\* Every call is served, every runtime closed or dead.
CHECK_DEADLOCK FALSE
