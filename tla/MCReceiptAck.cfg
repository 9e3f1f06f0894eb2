SPECIFICATION AckSpec
CONSTANTS
    r1 = r1
    n1 = n1
    k1 = k1
    k2 = k2
    Torn = Torn
    NoEvent = NoEvent
    NoReceipt = NoReceipt
    Records <- MCRecords
    Notes <- MCNotes
    Receipts <- MCReceipts
    MaxEvents = 4
    OutsideWrites = TRUE
SYMMETRY Symmetry
INVARIANTS
    AcknowledgedInOrder
    RepeatableUnlessTorn
PROPERTY KeepsStore
