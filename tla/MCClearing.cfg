SPECIFICATION FairSpec
CONSTANTS
    buyer = buyer
    provider = provider
    t1 = t1
    t2 = t2
    d1 = d1
    d2 = d2
    Accounts <- MCAccounts
    Txs <- MCTxs
    Disputes <- MCDisputes
    Sender <- MCSender
    Receiver <- MCReceiver
    Amount <- MCAmount
    Fee <- MCFee
    Policy <- MCPolicy
    Opening <- MCOpening
    ProviderAmounts <- MCSplits
    Mandated <- MCTxs
    MaxPerTask = 4
    MaxDaily = 6
    ForeignFailures = TRUE
INVARIANTS
    TypeOK
    ZeroSum
    EscrowUntilPaid
    StateTellsPayout
    ResolutionTellsPayout
    DecidedOnce
    NothingStranded
    HeldFundsDisputable
PROPERTIES
    PaidForGood
    RaisedCallsResolve
    HeldFundsMove
    ImplementsAtomicPayments
CHECK_DEADLOCK FALSE
