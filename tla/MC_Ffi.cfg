CONSTANTS
    S1 = S1
    S2 = S2
    Accounts <- MCAccounts
    Symbols <- MCSymbols
    Prices = {1, 2}
    Quantities = {1}
    QuantityMod = 16
    PaymentMax = 7
    AccumulatorHalf = 16
    MaxTrades = 4
    InitialBalances = {0, 3}
    InitialRates <- MCInitialRates
    VariationRates <- MCVariationRates
    Floors = {1}
    Precision = 3
    WaterfallConfigs <- MCWaterfallConfigs
    Trades <- MCTrades
    Timestamps = {0}
    TradeIds = {1}
    Width = 3
    LenMod = 3
    CallerObligations <- MCCallerObligations
    StressScenarios <- MCStressScenarios
    MaxCalls = 7
SPECIFICATION Spec
INVARIANTS
    ArraysAreFreedWhole
    CodesExplainBalances
    SentinelMeansMissing
    SameObligationsSameMargin
CHECK_DEADLOCK FALSE
