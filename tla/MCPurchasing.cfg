SPECIFICATION Spec
CONSTANTS
    buyer = buyer
    near = near
    far = far
    p1 = p1
    p2 = p2
    p3 = p3
    p4 = p4
    Accounts <- MCAccounts
    Txs <- MCTxs
    Sender <- MCSender
    Receiver <- MCReceiver
    Amount <- MCAmount
    Fee <- MCFee
    Opening <- MCOpening
    KindOf <- MCKindOf
    Mandated = {p1, p2, p4}
    MaxPerTask = 3
    MaxDaily = 4
INVARIANTS
    PurchasingTypeOK
    PaidForWork
    FailureIsFree
    BudgetKept
PROPERTIES
    PurchaseEnds
    ImplementsAtomicPayments
CHECK_DEADLOCK FALSE
