CONSTANTS
    a1 = a1
    a2 = a2
    t1 = t1
    t2 = t2
    NoHolder = NoHolder
    Accounts <- MCAccounts
    Threads <- MCThreads
    ID <- MCID
    MinBalance <- MCMinBalance
    TransferPairs <- MCTransferPairs
    MaxTransactionAmount = 2
    Amounts <- MCAmounts
    MaxTotal = 3
SPECIFICATION Spec
INVARIANT TypeOK
INVARIANT MoneyConserved
INVARIANT AboveMinimum
PROPERTY TransfersComplete
