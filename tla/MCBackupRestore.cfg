CONSTANTS
    Items = {a, b}
    Conflicts = {b}
    NoItem = NoItem
    NoBackup = NoBackup

SPECIFICATION Spec

CONSTRAINT OneBadPiece
ACTION_CONSTRAINT WriterStops

INVARIANTS
    TypeOK
    PublishedIsWhole
    RestoredIsBackup

CHECK_DEADLOCK FALSE
