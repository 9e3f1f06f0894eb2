SPECIFICATION Spec
CONSTANTS
    p = p
    q = q
    x = x
    y = y
    NoRequest = NoRequest
    Sources <- MCSources
    Nonces <- MCNonces
    Window = 1
    Retention = 2
    MaxTime = 4
SYMMETRY Symmetry
INVARIANTS
    TypeOK
    AdmittedOnce

