\* One ACP turn with one message per pipe and one chunk of transcript; two
\* clients of one daemon; two advisories for two sessions and another process.
CONSTANTS
    PipeSize = 1
    Limit = 1
    MaxSends = 7
    Clients = {c1, c2}
    Sessions = {s1, s2}
    Rival = rival
    MaxCalls = 1
    MaxRequests = 2
SPECIFICATION Spec
INVARIANTS
    AnswersAreWhole
    AdviceFits
PROPERTIES
    TurnEnds
    ShutdownEnds
