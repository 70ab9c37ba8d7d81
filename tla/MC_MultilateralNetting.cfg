CONSTANTS
    S1 = S1
    S2 = S2
    NoSymbol = NoSymbol
    Accounts <- MCAccounts
    Symbols <- MCSymbols
    Arguments <- MCArguments
SPECIFICATION FairSpec
INVARIANTS
    TypeOK
    OnlyShrinks
    NetDeliveryPreserved
    AveragePriceKept
    UniformPriceKeepsCash
    NoCircularFlow
    SearchFindsTheLeastCycle
PROPERTIES
    CancelRetiresAnEdge
    CallReturns
