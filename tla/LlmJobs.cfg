\* One slot and one retry (three in the code); each script runs one or two jobs.
CONSTANTS
    j1 = j1
    j2 = j2
    Jobs = {j1, j2}
    Scripts <- All
    MaxSteps = 4
    Slots = 1
    MaxRetries = 1
SPECIFICATION FairSpec
INVARIANTS
    PairedRequests
    OneDebit
    VerdictIsMajority
    NoSilentLoss
PROPERTIES
    AllEnds
\* The jobs are finite: the system stops.
CHECK_DEADLOCK FALSE
