----------------------------- MODULE Purchasing -----------------------------
(***************************************************************************)
(* neuralclear/buyer.py, sdk.py, provider.py and httpwire.py: one buyer who*)
(* purchases from three kinds of provider on the plain ledger. The SDK     *)
(* echoes the payload itself, a local provider runs its handler in the     *)
(* buyer's thread, and a remote one runs it in a thread of its HTTP server.*)
(*                                                                         *)
(* The buyer makes one purchase at a time and waits for each answer, but   *)
(* gives up on a remote provider when the socket times out; the provider   *)
(* is not told, and may still do the work. A purchase, its quote and its   *)
(* transaction have one name.                                              *)
(***************************************************************************)
EXTENDS PlainLedger

CONSTANTS
    KindOf,          \* [Txs -> {"sdk", "local", "remote"}]
    Mandated,        \* purchases under the one SpendingMandate
    MaxPerTask,      \* its max_per_task
    MaxDaily         \* its max_daily

ASSUME PurchaseParameters ==
    /\ KindOf \in [Txs -> {"sdk", "local", "remote"}]
    /\ Mandated \subseteq Txs
    /\ MaxPerTask \in Nat /\ MaxDaily \in Nat

\* Neither the buyer agent nor the SDK gives its transactions a fee.
ASSUME NoFee == Fee = [t \in Txs |-> 0]

VARIABLES
    pc,              \* where the buyer stands in each purchase
    wire,            \* what is under way between buyer and remote provider
    quoted,          \* the provider's _issued_quotes
    expired,         \* quotes whose expires_at has passed
    working,         \* purchases whose handler a provider is running
    runs,            \* how often a provider's handler has finished
    in_time          \* history: purchases whose work began before the expiry

purchaseVars == <<pc, wire, quoted, expired, working, runs, in_time>>
vars == <<plainVars, purchaseVars>>

InProgress == {"await_quote", "authorize", "execute", "await_result", "settle"}
Position == InProgress \cup {"new", "bought", "failed"}
Message == {"none", "quote_request", "quote", "task_request", "result", "error"}

Init ==
    /\ LedgerInit
    /\ pc = [t \in Txs |-> "new"]
    /\ wire = [t \in Txs |-> "none"]
    /\ quoted = {} /\ expired = {} /\ working = {} /\ in_time = {}
    /\ runs = [t \in Txs |-> 0]

Goto(t, position) == pc' = [pc EXCEPT ![t] = position]
At(t, position) == pc[t] = position
Send(t, message) == wire' = [wire EXCEPT ![t] = message]
Remote(t) == KindOf[t] = "remote"
Local(t) == KindOf[t] = "local"
-----------------------------------------------------------------------------
(* BuyerAgent.purchase() and NeuralClearSDK.call() *)

\* request_quote(): a call of the registry's entry or of the local provider,
\* or an HTTP request. A provider that does not have the capability raises.
RequestQuote(t) ==
    /\ At(t, "new")
    /\ \A u \in Txs : pc[u] \notin InProgress
    /\ \/ /\ Remote(t)
          /\ Send(t, "quote_request") /\ Goto(t, "await_quote")
          /\ UNCHANGED quoted
       \/ /\ ~Remote(t)
          /\ quoted' = quoted \cup {t}
          /\ Goto(t, "authorize")
          /\ UNCHANGED wire
       \/ /\ ~Remote(t)
          /\ Goto(t, "failed")
          /\ UNCHANGED <<wire, quoted>>
    /\ UNCHANGED <<plainVars, expired, working, runs, in_time>>

\* The answer to a request that is waited for: a quote or a result, or the
\* HTTP error that _request() turns into a ProtocolError.
Receive(t) ==
    /\ \/ At(t, "await_quote") /\ wire[t] = "quote" /\ Goto(t, "authorize")
       \/ At(t, "await_result") /\ wire[t] = "result" /\ Goto(t, "settle")
       \/ pc[t] \in {"await_quote", "await_result"} /\ wire[t] = "error" /\ Goto(t, "failed")
    /\ Send(t, "none")
    /\ UNCHANGED <<plainVars, quoted, expired, working, runs, in_time>>

\* BUG, for a mutant: there is no timeout.
KeepWaiting(t) == FALSE

\* BUG, for a mutant: no answer is taken for an empty result.
TimeoutAsResult(t) ==
    /\ Remote(t)
    /\ \/ At(t, "await_quote") /\ Goto(t, "failed")
       \/ At(t, "await_result") /\ Goto(t, "settle")
    /\ UNCHANGED <<plainVars, wire, quoted, expired, working, runs, in_time>>

\* The provider is unreachable, or urlopen() times out; what is under way
\* stays under way, and an answer that comes later finds nobody.
Timeout(t) ==
    /\ Remote(t) /\ pc[t] \in {"await_quote", "await_result"}
    /\ Goto(t, "failed")
    /\ UNCHANGED <<plainVars, wire, quoted, expired, working, runs, in_time>>

\* BUG, for a mutant: a spend that has reached the limit is let pass.
BudgetNotExhausted(t) ==
    t \in Mandated => /\ Amount[t] <= MaxPerTask
                      /\ get_daily_spend(Mandated) < MaxDaily

\* authorize(), and the same lines of call().
Allowed(t) == t \in Mandated => MandateAllows(t, Mandated, MaxPerTask, MaxDaily)

Authorize(t) ==
    /\ At(t, "authorize")
    /\ Goto(t, IF t \notin expired /\ Allowed(t) THEN "execute" ELSE "failed")
    /\ UNCHANGED <<plainVars, wire, quoted, expired, working, runs, in_time>>

\* The SDK makes the result up; a provider is called with the quote and the
\* payload, or sent them.
Execute(t) ==
    /\ At(t, "execute")
    /\ \/ KindOf[t] = "sdk" /\ Goto(t, "settle") /\ UNCHANGED wire
       \/ KindOf[t] # "sdk" /\ Goto(t, "await_result") /\ Send(t, "task_request")
    /\ UNCHANGED <<plainVars, quoted, expired, working, runs, in_time>>

\* The proof is a MockProof, off the wire too, and verifies; then settle().
Settle(t) ==
    /\ At(t, "settle")
    /\ CallSettle(t) \/ SettleStep(t)
    /\ UNCHANGED purchaseVars

\* BUG, for a mutant: an error of settle() is swallowed.
FinishUnchecked(t) ==
    /\ At(t, "settle") /\ settling[t] \in SettleDone
    /\ Goto(t, "bought")
    /\ UNCHANGED <<plainVars, wire, quoted, expired, working, runs, in_time>>

Finish(t) ==
    /\ At(t, "settle") /\ settling[t] \in SettleDone
    /\ Goto(t, IF settling[t] = "settled" THEN "bought" ELSE "failed")
    /\ UNCHANGED <<plainVars, wire, quoted, expired, working, runs, in_time>>
-----------------------------------------------------------------------------
(* ProviderAgent, and ProviderHTTPServer around it *)

\* handle_quote(), and a 400 for a capability the provider does not have.
HandleQuote(t) ==
    /\ wire[t] = "quote_request"
    /\ \/ quoted' = quoted \cup {t} /\ Send(t, "quote")
       \/ Send(t, "error") /\ UNCHANGED quoted
    /\ UNCHANGED <<plainVars, pc, expired, working, runs, in_time>>

\* BUG, for a mutant: the request is kept and handled again.
HandleTaskAgain(t) ==
    /\ wire[t] = "task_request" /\ t \notin expired
    /\ working' = working \cup {t} /\ in_time' = in_time \cup {t}
    /\ UNCHANGED <<plainVars, pc, wire, quoted, expired, runs>>

\* handle_task(): an expired quote is refused, else the handler starts.
HandleTask(t) ==
    /\ wire[t] = "task_request"
    /\ \/ /\ t \notin expired
          /\ Send(t, "none")
          /\ working' = working \cup {t} /\ in_time' = in_time \cup {t}
       \/ /\ t \in expired
          /\ Send(t, "error")
          /\ UNCHANGED <<working, in_time>>
    /\ UNCHANGED <<plainVars, pc, quoted, expired, runs>>

\* The handler returns, or raises.
FinishTask(t) ==
    /\ t \in working
    /\ working' = working \ {t}
    /\ \/ Send(t, "result") /\ runs' = [runs EXCEPT ![t] = @ + 1]
       \/ Send(t, "error") /\ UNCHANGED runs
    /\ UNCHANGED <<plainVars, pc, quoted, expired, in_time>>

\* The connection breaks under a request or under its answer.
Lose(t) ==
    /\ Remote(t) /\ wire[t] # "none"
    /\ Send(t, "none")
    /\ UNCHANGED <<plainVars, pc, quoted, expired, working, runs, in_time>>

\* An expiry that comes when nobody will look at the quote again is left out.
Expire(t) ==
    /\ t \in quoted \ expired
    /\ pc[t] \in InProgress \/ wire[t] = "task_request"
    /\ expired' = expired \cup {t}
    /\ UNCHANGED <<plainVars, pc, wire, quoted, working, runs, in_time>>
-----------------------------------------------------------------------------
BuyerStep(t) ==
    \/ Receive(t) \/ Timeout(t) \/ Authorize(t) \/ Execute(t) \/ Settle(t) \/ Finish(t)
ProviderStep(t) == HandleTask(t) \/ FinishTask(t)

Next ==
    \E t \in Txs :
        RequestQuote(t) \/ BuyerStep(t) \/ HandleQuote(t) \/ ProviderStep(t)
            \/ Lose(t) \/ Expire(t)

\* The buyer's thread keeps running, and with it the handler of a local
\* provider; a remote provider and the network owe nothing.
Spec ==
    /\ Init /\ [][Next]_vars
    /\ \A t \in Txs : WF_vars(BuyerStep(t))
    /\ \A t \in Txs : Local(t) => WF_vars(ProviderStep(t))
-----------------------------------------------------------------------------
(* Properties *)

\* The shape of the state; and no request is answered twice: at most one of a
\* message, a handler at work and a result in hand exists for a purchase.
PurchasingTypeOK ==
    /\ LedgerTypeOK
    /\ pc \in [Txs -> Position] /\ wire \in [Txs -> Message]
    /\ expired \subseteq quoted /\ quoted \subseteq Txs
    /\ runs \in [Txs -> 0..1] /\ in_time \subseteq Txs
    /\ \A t \in working : wire[t] = "none" /\ pc[t] \in {"await_result", "failed"}

\* Nothing is paid that was not done: a settled purchase from a provider was
\* executed exactly once, to its end, and begun while its quote held, whatever
\* was lost, late or given up on.
PaidForWork ==
    \A t \in transactions :
        KindOf[t] # "sdk" => runs[t] = 1 /\ t \in in_time

Moved(a) ==
    SumFunctionOnSet([t \in Txs |-> IF t \notin transactions THEN 0
                                    ELSE IF Receiver[t] = a THEN Amount[t]
                                    ELSE IF Sender[t] = a THEN -Amount[t] ELSE 0], Txs)

\* A purchase that failed has cost nothing, even if the provider finishes its
\* work afterwards: between purchases the balances are the opening ones moved
\* by the purchases the buyer knows to be bought.
FailureIsFree ==
    (\A t \in Txs : pc[t] \notin InProgress) =>
        /\ transactions = {t \in Txs : pc[t] = "bought"}
        /\ \A a \in Accounts : balances[a] = Opening[a] + Moved(a) /\ balances[a] >= 0

\* One purchase at a time keeps the mandate's daily budget, with every kind of
\* provider and however earlier purchases ended.
BudgetKept == get_daily_spend(Mandated) <= MaxDaily

\* Every purchase ends: a lost message, a silent provider or a late answer
\* does not keep the buyer.
PurchaseEnds == \A t \in Txs : pc[t] \in InProgress ~> pc[t] \in {"bought", "failed"}

\* settle() keeps the promise of AtomicPayments, although the debit and the
\* credit are steps of their own: until the credit the money counts as the
\* buyer's, and with the credit the transaction is decided.
wealth ==
    [a \in Accounts |->
        balances[a] + SumFunctionOnSet([t \in Txs |->
            IF Sender[t] = a /\ settling[t] \in {"read_receiver", "credit"}
            THEN Total(t) ELSE 0], Txs)]
outcome ==
    [t \in Txs |-> IF settling[t] \in {"append", "sum", "sum_pool", "settled", "broken"}
                   THEN "paid" ELSE "none"]
Payments == INSTANCE AtomicPayments WITH pool <- fee_pool
ImplementsAtomicPayments == Payments!Spec
=============================================================================
