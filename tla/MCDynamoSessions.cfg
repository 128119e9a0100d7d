CONSTANTS
    Hash = {h1, h2, h3, h4}
    Family = {f1}
    User = {u1}
    NoFamily = NoFamily
    None = None
    Retention = 1
    Ttl = 1
    Legacy = {h1}
    MaxTime = 2
    Call = {p1, p2}
    MaxAttempts = 2
    Ops = {"rotate", "revoke", "family", "all"}
SPECIFICATION DynamoSpec
SYMMETRY Symm
INVARIANT ClosedFamilyStaysDead
INVARIANT RosterEntryIsCurrent
INVARIANT ReuseDetectableUnlessRevoking
