SPECIFICATION HostingSpec
CONSTANTS
    buyer = buyer
    provider = provider
    t1 = t1
    t2 = t2
    d1 = d1
    Accounts <- MCAccounts
    Txs <- MCTxs
    Disputes = {d1}
    Sender <- MCSender
    Receiver <- MCReceiver
    Amount <- MCAmount
    Fee <- MCFee
    Policy <- MCPolicy
    Opening <- MCOpening
    ProviderAmounts = {0, 2}
    Mandated = {}
    MaxPerTask = 4
    MaxDaily = 6
    ForeignFailures = FALSE
    MaxRestarts = 1
INVARIANTS
    GatewayTypeOK
    AnsweredIsDurable
    SnapshotIsConsistent
    NeverOvercounts
    TenantCountsAreExact
    TenantVolumeIsIncome
CHECK_DEADLOCK FALSE
