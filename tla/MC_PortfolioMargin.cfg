CONSTANTS
    Width <- MCWidth
    Precision <- MCPrecision
    A = A
    B = B
    Accounts <- MCAccounts
    Symbols = {1}
    Payments <- MCPayments
    Configs <- MCConfigs
    MaxObligations = 3
SPECIFICATION Spec
SYMMETRY MCSymmetry
INVARIANTS
    MarginIsAccurate
    SingleObligationAgrees
    NettingNeverCostsMore
    OrderDoesNotMatter
PROPERTY InitialMarginNeverFalls
CHECK_DEADLOCK FALSE
