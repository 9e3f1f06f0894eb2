SPECIFICATION Spec
CONSTANTS
    r1 = r1
    r2 = r2
    n1 = n1
    n2 = n2
    Torn = Torn
    NoEvent = NoEvent
    Records <- MCRecords
    Notes <- MCNotes
    MaxEvents = 4
    OutsideWrites = TRUE
SYMMETRY Symmetry
INVARIANTS
    TypeOK
    CommittedIsDurable
    ReadyMeansAgreed
    AuditNeverForks
    EveryRevisionAnnounced
PROPERTIES
    ForeignWriteStopsCommits
    ImplementsLedger
