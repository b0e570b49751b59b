SPECIFICATION FairSpec
CONSTANTS
    buyer = buyer
    provider = provider
    ch = ch
    tiny = tiny
    d1 = d1
    m1 = m1
    m2 = m2
    s1 = s1
    s2 = s2
    f1 = f1
    w1 = w1
    w2 = w2
    Accounts <- MCAccounts
    Txs <- MCTxs
    Disputes <- MCDisputes
    Sender <- MCSender
    Receiver <- MCReceiver
    Amount <- MCAmount
    Fee <- MCFee
    Opening <- MCOpening
    ProviderAmounts <- MCSplits
    Deposit <- MCDeposit
    ChannelPolicy <- MCPolicy
    MeterCalls <- MCMeterCalls
    MeterOn <- MCMeterOn
    MeterAmount <- MCMeterAmount
    MeterThread <- MCOneThread
    Settles <- MCSettles
    Freezes <- MCFreezes
    CloserOn <- MCCloserOn
    MaxContenders = 3
INVARIANTS
    NettingTypeOK
    ZeroSum
    MeteredSoundly
    SettledPaysOnce
    DepositNotStranded
PROPERTIES
    SettlingPays
CHECK_DEADLOCK FALSE
