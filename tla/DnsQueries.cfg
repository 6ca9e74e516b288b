SPECIFICATION Spec
SYMMETRY Symmetry
CONSTANTS
    None = None
    i1 = i1
    i2 = i2
    i3 = i3
    Configs <- MCConfigs
INVARIANTS
    AccountsAreExact
    NoStaleAnswer
    NoStaleFailure
    IdentitiesSuffice
    PollEndsQuery
CHECK_DEADLOCK FALSE
