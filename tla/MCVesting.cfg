SPECIFICATION Spec
CONSTANTS
    I128_MAX = 14
    U64_MAX = 7
    None = None
    Deposits <- SmallDeposits
    Durations <- SmallDurations
    Cliffs <- SmallCliffs
    Starts <- SmallStarts
INVARIANTS
    TypeOK
    FormulasAgreeWithMeter
    RefundConserves
    ClaimWithinDeposit
PROPERTIES
    ClaimableMonotone
