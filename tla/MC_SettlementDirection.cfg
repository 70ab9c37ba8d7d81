CONSTANTS
    S1 = S1
    NoSymbol = NoSymbol
    Accounts <- MCAccounts
    Symbols = {S1}
    Prices <- MCPrices
    Quantities <- MCQuantities
    QuantityMod = 64
    PaymentMax = 31
    Half = 32
    AccumulatorHalf = 64
    InitialBalances <- MCInitialBalances
    MaxTrades = 2
    MaxAllTrades = 2
    MaxCycles = 2
SPECIFICATION Spec
INVARIANTS
    SellersArePaid
CHECK_DEADLOCK FALSE
