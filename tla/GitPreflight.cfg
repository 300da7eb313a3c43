\* Two runs under any two policies; one git command fails and one process is killed.
SPECIFICATION Spec
CONSTANTS
  Runs = {a, b}
  Policies = {"clean", "autostash", "branch", "allow-dirty", "sync", "integrate"}
  MaxFailures = 1
  MaxKills = 1
SYMMETRY Symmetry
CHECK_DEADLOCK FALSE
INVARIANTS
    SourceMovesWhole
    WorkComesBack
PROPERTIES
    NothingLost
