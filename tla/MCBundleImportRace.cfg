SPECIFICATION Spec
CONSTANTS
    finding = finding
    image = image
    capture = capture
    first = first
    second = second
    third = third
    NoBundle = NoBundle
    NoFile = NoFile
    Records <- MCRecords
    Uploads <- MCUploads
    Bundles <- MCBundles
    Carries <- MCCarries
    Calls = {t1, t2}
SYMMETRY Symmetry
INVARIANTS
    CommittedHasFile
