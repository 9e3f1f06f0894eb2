SPECIFICATION Spec
CONSTANTS
    finding = finding
    lead = lead
    NoBundle = NoBundle
    NoReceipt = NoReceipt
    Records <- MCRecords
    Bundles <- MCBundles
    Versions <- MCVersions
    Review <- MCReview
    Carries <- MCCarries
    Calls = {q1, q2}
SYMMETRY Symmetry
INVARIANTS
    TypeOK
    OneBundlePerReview
    SentIsApproved
    ReadyMeansWhole
    ReceiptsValidate
    LoggedIsTrue
