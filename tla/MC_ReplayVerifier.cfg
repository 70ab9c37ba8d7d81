CONSTANTS
    Timestamps <- MCTimestamps
    TradeIds <- MCTradeIds
    Counts <- MCCounts
    Clearings <- MCClearings
    Reasons = {"funds", "account"}
    ReasonHash <- MCReasonHash
    Field = 4
    MaxEntries = 2
SPECIFICATION Spec
INVARIANTS
    DiscrepanciesLocateDivergence
    HashAgreesWithVerify
PROPERTY DivergenceIsPermanent
CHECK_DEADLOCK FALSE
