CONSTANTS
    S1 = S1
    S2 = S2
    Accounts <- MCAccounts
    Symbols <- MCSymbols
    Prices <- MCPrices
    Quantities <- MCQuantities
    QuantityMod = 8
    PaymentMax = 7
    Half <- MCHalf
    MaxTrades = 3
SYMMETRY Symmetry
SPECIFICATION Spec
INVARIANTS
    TypeOK
    AccumulatorsNetTheTrades
    DeliveriesPreserved
    CashPreservedButFlatPairs
    ExposureNeverGrows
