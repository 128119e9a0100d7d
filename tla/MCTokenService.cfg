CONSTANTS
    Hash = {h1, h2, h3, h4}
    Family = {f1, f2}
    User = {u1}
    NoFamily = NoFamily
    None = None
    Retention = 3
    Ttl = 2
    Legacy = {h1}
    MaxTime = 3
    Client = {c1, c2}
    Admin = {}
    Grace = 1
    RefreshRotation = {TRUE, FALSE}
    Enforce = TRUE
    MaxRequests = 4
SPECIFICATION Spec
SYMMETRY Symm
INVARIANT RedeemedOnce
INVARIANT AlarmedFamilyIsDead
INVARIANT RetiredStaysRefusedWhenOff
PROPERTY OneRetryIsSafe
PROPERTY LegacyReplayIsUnknown
PROPERTY PortSpec
