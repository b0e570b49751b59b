SPECIFICATION Spec
CONSTANTS
    buyer = buyer
    provider = provider
    c1 = c1
    c2 = c2
    c3 = c3
    q1 = q1
    q2 = q2
    k1 = k1
    r1 = r1
    r2 = r2
    i1 = i1
    i2 = i2
    None = None
    Accounts <- MCAccounts
    Txs <- MCTxs
    Sender <- MCSender
    Receiver <- MCReceiver
    Amount <- MCAmount
    Fee <- MCFee
    Opening <- MCOpening
    Quotes = {q1, q2}
    QuoteOf <- MCQuoteOf
    TaskOf <- MCTaskOf
    Keys = {k1}
    KeyOf <- MCKeyOf
    RequestOf <- MCRequestOf
    PlatformFeeBps = 1000
    MaxPerTask = 5
    MaxDaily = 9
    Workers = 2
    MaxRestarts = 1
INVARIANTS
    ServerTypeOK
    SupplyKept
    AnsweredIsStored
    MoneyFollowsRecords
    StoredInOrder
    RequestChargedOnce
    AnsweredBalancesAreStored
PROPERTIES
    RetryAfterAnswerIsFree
CHECK_DEADLOCK FALSE
