CONSTANTS
    CollateralType <- MCType
    Haircuts <- MCHaircuts
    Limits <- MCLimits
    Amounts <- MCAmounts
    Scale = 10
    Half <- MCHalf
    RateMod = 32
    MaxOperations = 5
SPECIFICATION Spec
INVARIANTS
    NeverOverdrawn
    HaircutsAreExact
    BreachesAreReal
    ClearBreachesReported
CHECK_DEADLOCK FALSE
