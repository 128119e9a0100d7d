CONSTANTS
    Hash = {h1, h2, h3, h4}
    Family = {f1}
    User = {u1}
    NoFamily = NoFamily
    None = None
    Retention = 1
    Ttl = 1
    Legacy = {h1}
    MaxTime = 2
    Key = {k1}
    BatchSize = 2
    MaxHalvings = 1
SPECIFICATION LmdbFairSpec
INVARIANT FilingsAgree
INVARIANT SingleUseHolds
PROPERTY ImplementsPort
PROPERTY SweepEnds
