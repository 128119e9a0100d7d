CONSTANTS
    User = {1, 2}
    Identity = {i1}
    Call = {p1, p2}
    Absent = Absent
    Old = {1}
    MaxAttempts = 2
    MaxVersion = 2
    PageLimit = 1
SPECIFICATION UserSpec
SYMMETRY Symm
INVARIANT OneUserPerIdentity
INVARIANT CountersMatchRows
PROPERTY FieldsChangeOnlyByTheirPatch
INVARIANT ListingIsComplete
