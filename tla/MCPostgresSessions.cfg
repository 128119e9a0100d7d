CONSTANTS
    Hash = {h1, h2, h3, h4}
    Family = {f1, f2}
    User = {u1}
    NoFamily = NoFamily
    None = None
    Retention = 1
    Ttl = 1
    Legacy = {h1}
    MaxTime = 2
    Call = {p1, p2}
SPECIFICATION PostgresSpec
SYMMETRY Symm
INVARIANT RotationOwnsItsRow
INVARIANT ListingHasOneGeneration
INVARIANT RevokedFamilyIsDead
