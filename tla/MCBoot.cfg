CONSTANTS
    U64Max = 100000000
    SetVars <- Vars
    EmptyVars = {"EMPTY"}
    Configurations <- AllDeployments
    Alternatives <- AllAlternatives
    Call = {q1, q2}
    DrainDeadline = 2
SPECIFICATION BootSpec
INVARIANT InternalApiIsGuarded
PROPERTY TopmostWins
PROPERTY SignalStops
