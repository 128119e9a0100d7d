CONSTANTS
    Hash = {h1, h2, h3}
    Family = {f1, f2}
    User = {u1}
    NoFamily = NoFamily
    None = None
    Retention = 1
    Ttl = 1
    Legacy = {}
    MaxTime = 2
    Call = {p1, p2}
    MaxAttempts = 2
    Ops = {"rotate", "revoke", "family", "all"}
SPECIFICATION DynamoSpec
SYMMETRY Symm
INVARIANT RosterAcceptsSignIn
