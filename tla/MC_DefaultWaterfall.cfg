CONSTANTS
    Half <- MCHalf
    Capacities <- MCCapacities
    Losses <- MCLosses
SPECIFICATION Spec
INVARIANTS
    ExhaustedInOrder
    LossAccountedFor
    CapitalDecidesCoverage
CHECK_DEADLOCK FALSE
