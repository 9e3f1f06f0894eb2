SPECIFICATION Spec
CONSTANTS
    note = note
    broker = broker
    NoUpload = NoUpload
    NoPreview = NoPreview
    Uploads = {x, y}
    Ordinary = {note}
    Envelopes <- MCEnvelopes
    Sources = {broker}
    Parsers = {p, q}
    Reviewers = {r}
    MaxRevision = 4
SYMMETRY Symmetry
INVARIANTS
    TypeOK
    EvidenceOnce
    RecordHasArtifact
PROPERTIES
    MergedAsReviewed
    ImplementsReview
