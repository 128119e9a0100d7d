CONSTANTS
    Key <- SingleUseKeys
    None = None
    PgSkew = 1
    Request = {r1, r2}
    Assertion = {a1}
    Claim <- Claims
    Unwelcome = {}
    NonceTtl = 2
    MaxLifetime = 2
    Leeway = 1
    MaxUsers = 2
    MaxTime = 3
    Exp = {2}
    EarlyError = {"TooManyRequests"}
    Deployment <- Deployments
SPECIFICATION SignInSpec
SYMMETRY Symm
INVARIANT DirectGrantOnce
INVARIANT LiveAssertionOnce
INVARIANT ErrorLeavesNoSession
INVARIANT LoserFindsTheWinner
