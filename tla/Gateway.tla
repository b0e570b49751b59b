------------------------------ MODULE Gateway ------------------------------
(***************************************************************************)
(* neuralclear/gateway.py over neuralclear/store.py: the threads of the    *)
(* HTTP gateway run clear() and resolve_dispute(), save the whole service  *)
(* into one SQLite file after a success, and answer; a restart loads the   *)
(* file.                                                                   *)
(*                                                                         *)
(* save() opens a connection of its own. Its first DELETE takes SQLite's   *)
(* write lock, so saves exclude each other; but the tables are read from   *)
(* the live service one after another, and the ledger's lock is not taken. *)
(* A request that fails, or only opens a dispute, saves nothing.           *)
(***************************************************************************)
EXTENDS ClearingService

CONSTANTS
    MaxRestarts      \* bound: crashes of the gateway

ASSUME RestartBound == MaxRestarts \in Nat
ASSUME NoneIsNoDispute == None \notin Disputes

\* Their ids begin with "tx_" and "dsp_".
ASSUME TxsAreNoDisputes == Txs \cap Disputes = {}

VARIABLES
    stored,          \* the committed tables
    draft,           \* the tables as the save in progress has written them
    saving,          \* the save in progress: whose request, and what is read next
    answered,        \* requests answered with success
    failed,          \* requests answered with "database is locked"
    gone,            \* transactions and disputes that a restart has forgotten
    tainted,         \* history: the service was loaded from a torn snapshot
    restarts         \* crashes so far

gatewayVars == <<stored, draft, saving, answered, failed, gone, tainted, restarts>>

\* The requests that save: one clear() per transaction, and one successful
\* resolve_dispute() per dispute.
Requests == Txs \cup Disputes
Idle == [by |-> None, next |-> None]

\* The accounts have been opened and saved. `torn` is history: money moved
\* while the snapshot was read, or it continues a torn one.
GatewayInit ==
    /\ stored = [balances |-> Opening, escrow |-> [t \in {} |-> 0], pool |-> 0,
                 receipts |-> {}, torn |-> FALSE]
    /\ draft = stored
    /\ saving = Idle
    /\ answered = {} /\ failed = {} /\ gone = {}
    /\ tainted = FALSE /\ restarts = 0
-----------------------------------------------------------------------------
\* A step of a request's thread inside the service.
ServiceStep ==
    /\ \E t \in Txs \ gone :
          ClearStep(t) \/ \E d \in Disputes \ gone : DisputeCall(d, t)
    /\ draft' = [draft EXCEPT !.torn = @ \/ (saving # Idle /\ moneyVars' # moneyVars)]
    /\ UNCHANGED <<stored, saving, answered, failed, gone, tainted, restarts>>

\* BUG, for a mutant: _persist() comes before the receipt is kept.
FinishedEarly(r) ==
    \/ r \in Txs /\ pc[r] = "receipt"
    \/ r \in DOMAIN disputes /\ disputes[r].resolution # None

\* The service call has returned and the request goes on to _persist().
Finished(r) ==
    \/ r \in Txs /\ pc[r] = "returned"
    \/ r \in DOMAIN disputes /\ disputes[r].resolution # None

Waiting(r) == r \notin answered \cup failed \cup gone /\ saving.by # r /\ Finished(r)

\* DELETE FROM balances takes the write lock; then the balances are read.
BeginSave(r) ==
    /\ Waiting(r) /\ saving = Idle
    /\ saving' = [by |-> r, next |-> "escrow"]
    /\ draft' = [stored EXCEPT !.balances = balances, !.torn = tainted]
    /\ UNCHANGED <<vars, stored, answered, failed, gone, tainted, restarts>>

\* SQLite gives up waiting for the lock; the request is answered with a 500.
LockTimeout(r) ==
    /\ Waiting(r) /\ saving # Idle
    /\ failed' = failed \cup {r}
    /\ UNCHANGED <<vars, stored, draft, saving, answered, gone, tainted, restarts>>

\* BUG, for a mutant: DELETE FROM escrow is missing.
EscrowRowsKept ==
    /\ saving.next = "escrow"
    /\ draft' = [draft EXCEPT !.escrow =
                    [t \in DOMAIN stored.escrow \cup DOMAIN escrow |->
                        IF t \in DOMAIN escrow THEN escrow[t] ELSE stored.escrow[t]]]
    /\ saving' = [saving EXCEPT !.next = "pool"]
    /\ UNCHANGED <<vars, stored, answered, failed, gone, tainted, restarts>>

SaveEscrow ==
    /\ saving.next = "escrow"
    /\ draft' = [draft EXCEPT !.escrow = escrow]
    /\ saving' = [saving EXCEPT !.next = "pool"]
    /\ UNCHANGED <<vars, stored, answered, failed, gone, tainted, restarts>>

SavePool ==
    /\ saving.next = "pool"
    /\ draft' = [draft EXCEPT !.pool = fee_pool]
    /\ saving' = [saving EXCEPT !.next = "receipts"]
    /\ UNCHANGED <<vars, stored, answered, failed, gone, tainted, restarts>>

\* BUG, for a mutant: the connection is never committed nor closed.
CommitKeepsLock ==
    /\ saving.next = "receipts"
    /\ stored' = [draft EXCEPT !.receipts = receipts]
    /\ draft' = stored'
    /\ answered' = answered \cup {saving.by}
    /\ UNCHANGED <<vars, saving, failed, gone, tainted, restarts>>

\* The receipts (and the disputes, which nothing loads again), the commit that
\* ends the `with`, and the answer to the client.
CommitSave ==
    /\ saving.next = "receipts"
    /\ stored' = [draft EXCEPT !.receipts = receipts]
    /\ draft' = stored'
    /\ answered' = answered \cup {saving.by}
    /\ saving' = Idle
    /\ UNCHANGED <<vars, failed, gone, tainted, restarts>>

\* The process dies at any point; load() fills a new service. It restores the
\* money and the receipts, but no transaction and no dispute: what was in
\* progress or finished before is known to no thread any more, and its entries
\* in the other variables are history.
Restart ==
    /\ restarts < MaxRestarts
    /\ restarts' = restarts + 1
    /\ balances' = stored.balances /\ escrow' = stored.escrow
    /\ fee_pool' = stored.pool /\ receipts' = stored.receipts
    /\ transactions' = {}
    /\ tainted' = stored.torn
    /\ gone' = gone \cup {t \in Txs : pc[t] # "authorize"}
                    \cup {d \in Disputes : d \in DOMAIN disputes \/ opening[d] # None}
    /\ saving' = Idle /\ draft' = stored
    /\ UNCHANGED <<state, pc, pending, published, disputeVars, stored, answered, failed>>

GatewayNext ==
    \/ ServiceStep
    \/ \E r \in Requests : BeginSave(r) \/ LockTimeout(r)
    \/ SaveEscrow \/ SavePool \/ CommitSave
    \/ Restart
-----------------------------------------------------------------------------
(* Properties *)

SnapshotOK(tables) ==
    /\ tables.balances \in [Accounts -> Int] /\ tables.pool \in Nat
    /\ DOMAIN tables.escrow \subseteq Txs
    /\ tables.escrow \in [DOMAIN tables.escrow -> Nat]
    /\ tables.receipts \subseteq Txs /\ tables.torn \in BOOLEAN

\* The shape of the state; and the lock is held by one unanswered request,
\* between its first read and its commit.
GatewayTypeOK ==
    /\ SnapshotOK(stored) /\ SnapshotOK(draft)
    /\ saving = Idle \/ /\ saving.by \in Requests \ (answered \cup failed \cup gone)
                        /\ saving.next \in {"escrow", "pool", "receipts"}
    /\ saving = Idle => [draft EXCEPT !.torn = stored.torn] = stored
    /\ answered \subseteq Requests /\ failed \subseteq Requests \ answered
    /\ gone \subseteq Requests
    /\ tainted \in BOOLEAN /\ restarts \in 0..MaxRestarts

TxOf(r) == IF r \in Txs THEN r ELSE disputes[r].transaction_id
PaidTo(a, calls) ==
    SumFunctionOnSet([t \in Txs |-> IF t \in calls /\ Receiver[t] = a THEN Amount[t] ELSE 0],
                     Txs)
\* An account that buys nothing never falls below its opening balance.
PaidFor(a, known, calls) ==
    (\E t \in Txs : Sender[t] = a) \/ known[a] >= Opening[a] + PaidTo(a, calls)

\* What a client was answered survives every crash, although other threads
\* save and move money at the same time: the receipt is there, the payment of
\* the provider is there, and the funds have left escrow.
AnsweredIsDurable ==
    \A r \in answered :
        /\ TxOf(r) \notin DOMAIN stored.escrow \cup DOMAIN escrow
        /\ r \in Txs => r \in stored.receipts \cap receipts
        /\ \A a \in Accounts :
              /\ PaidFor(a, stored.balances, answered \cap Txs)
              /\ PaidFor(a, balances, answered \cap Txs)

SupplyIn(known, held, pool) ==
    SumFunctionOnSet(known, Accounts) + SumFunctionOnSet(held, DOMAIN held) + pool
        = total_supply

\* A snapshot during which no money moved is the state of one moment: it adds
\* up to the supply, and every receipt in it is paid and out of escrow. What is
\* loaded from it adds up as well.
SnapshotIsConsistent ==
    /\ ~stored.torn =>
          /\ SupplyIn(stored.balances, stored.escrow, stored.pool)
          /\ stored.receipts \cap DOMAIN stored.escrow = {}
          /\ \A a \in Accounts : PaidFor(a, stored.balances, stored.receipts)
    /\ ~tainted => SupplyIn(balances, escrow, fee_pool)
=============================================================================
