CONSTANTS
    Hash = {h1, h2, h3}
    Family = {f1, f2}
    User = {u1}
    NoFamily = NoFamily
    None = None
    Retention = 3
    Ttl = 3
    Legacy = {h1}
    MaxTime = 1
    Client = {c1, c2}
    Admin = {a1}
    Grace = 1
    RefreshRotation = {TRUE}
    Enforce = TRUE
    MaxRequests = 2
SPECIFICATION FairSpec
INVARIANT RotationCannotSurviveSuspension
PROPERTY RequestsEnd
