SPECIFICATION Spec
CONSTANTS
    j1 = j1
    j2 = j2
    NoJob = NoJob
    Jobs <- MCJobs
INVARIANTS
    TypeOK
    QueueTellsOutcome
    NoWorkOverLeftovers
PROPERTIES
    ImplementsParseJobs
    ParseEnds
    ClaimedIsRetired
