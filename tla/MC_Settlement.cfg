CONSTANTS
    S1 = S1
    NoSymbol = NoSymbol
    Accounts <- MCAccounts
    Symbols = {S1}
    Prices <- MCPrices
    Quantities <- MCQuantities
    QuantityMod = 64
    PaymentMax = 5
    Half = 32
    AccumulatorHalf = 64
    InitialBalances <- MCInitialBalances
    MaxTrades = 3
    MaxAllTrades = 3
    MaxCycles = 2
SPECIFICATION Spec
INVARIANTS
    EveryTradeMovesItsCashOnce
PROPERTY ImplementsService
CHECK_DEADLOCK FALSE
