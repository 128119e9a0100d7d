CONSTANTS
    Hash = {h1, h2, h3}
    Family = {f1, f2}
    User = {u1, u2}
    NoFamily = NoFamily
    None = None
    Second = 2
    MaxDelay = 1
    Retention = 3
    Ttl = 3
    Legacy = {h1}
    MaxTime = 2
    Call = {p1, p2}
    MaxRemovals = 2
SPECIFICATION ValkeySpec
SYMMETRY Symm
INVARIANT FamilyIndexComplete
INVARIANT ReuseDetectableUnlessRevoked
INVARIANT UserIndexComplete
INVARIANT CounterNeverBelowLive
