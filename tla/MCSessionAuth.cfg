SPECIFICATION Spec
CONSTANTS
    NoKey = NoKey
    NoRow = NoRow
    NoToken = NoToken
    Names = {n}
    Addresses = {a}
    Tokens = {s}
    Logins = {k, l}
    Requests = {p, q}
    MaxFailures = 2
    Window = 3
    Idle = 1
    Lifetime = 2
    MaxWait = 1
    MaxTime = 4
INVARIANTS
    TypeOK
    FailuresBounded
PROPERTIES
    UseIsEarned
    StreamsEnd
