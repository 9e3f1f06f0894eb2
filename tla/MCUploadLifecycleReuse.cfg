SPECIFICATION Spec
CONSTANTS
    note = note
    broker = broker
    NoUpload = NoUpload
    NoPreview = NoPreview
    Uploads = {x, y, z}
    Ordinary = {note}
    Envelopes <- MCEnvelopes
    Sources = {broker}
    Parsers = {p}
    Reviewers = {r}
    MaxRevision = 1
SYMMETRY Symmetry
INVARIANTS
    EnvelopeNamesOneContent
