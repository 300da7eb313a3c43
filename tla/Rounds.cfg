\* Two rounds with two findings, of which one has the identity of a gate's, and two
\* changes, of which one breaks a test and one is out of scope.
CONSTANTS
    Changes = {"bug", "out"}
    MaxTree = 2
    Denied = {}
    Outside = {"out"}
    Breaking = {"bug"}
    Notes = {"r1", "out"}
    MaxFiles = 1
    MaxFindings = 1
    MaxRounds = 2
    Settings <- MCSettings
    Namings <- MCNamings
SPECIFICATION RoundsSpec
\* A run that has ended, with its transfer, stops.
CHECK_DEADLOCK FALSE
INVARIANTS
    BlockersAreDecided
    TransferredWasReviewed
    NamedFailuresBlock
