CONSTANTS
    None = None
    Request = {r1, r2}
    Documents <- AllDocuments
    Answers <- AllAnswers
    MaxBody = 2
    Ttl = 1
    MIN_REFRESH_INTERVAL = 1
    Deployments <- AllDeployments
    User <- TheUser
    OperatorTokens <- AllOperatorTokens
SPECIFICATION IngressSpec
SYMMETRY Symm
INVARIANT PermitsAreReturned
INVARIANT LockoutHolds
INVARIANT TokensKeepTheirPlane
 
PROPERTY ForcedRefetchIsRare
