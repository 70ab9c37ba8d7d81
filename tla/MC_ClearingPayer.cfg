CONSTANTS
    A = A
    B = B
    C = C
    S = S
    Accounts <- MCAccounts
    Symbols = {S}
    InitialBalances <- MCInitialBalances
    Batches <- MCBatches
    Half <- MCHalf
SPECIFICATION Spec
INVARIANT PayerHasFunds
