\* An agent that writes three times, and one failing operation of the host.
SPECIFICATION Spec
CONSTANTS
  MaxWrites = 3
  MaxFailures = 1
INVARIANTS
    HostArtifactsSurvive
    AnswersAreTrue
PROPERTIES
    StatusIsFinal
    CallReturns
