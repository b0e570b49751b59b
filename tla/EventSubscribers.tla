-------------------------- MODULE EventSubscribers --------------------------
(***************************************************************************)
(* neuralclear/reputation.py and neuralclear/tenancy.py as subscribers of a*)
(* ClearingService: what EventBus.emit() makes the emitting thread run     *)
(* after a receipt, an opened dispute and a resolved one.                  *)
(*                                                                         *)
(* No handler takes a lock. A tenant's usage is read in one step and       *)
(* written in the next; a reputation record is looked for, created when it *)
(* is absent, and then counted in. A handler is named by the event that    *)
(* runs it. The tenant hub subscribes first, as it creates the service.    *)
(***************************************************************************)
EXTENDS ClearingService

VARIABLES
    handler,         \* where the handlers of each event stand
    usage,           \* TenantHub.usage of the one tenant and month
    usage_read,      \* the usage a handler has read and not yet written, else 0
    record,          \* ReputationEngine._records: [Accounts -> event or NoRecord],
                     \* a record being named by the event that created it
    found,           \* the record that an event's handler has in hand
    counted,         \* the counters of every record ever created
    shares,          \* Dispute.provider_amount, 0 standing for None too
    clashed          \* history: handlers of two events have run at once

subscriberVars == <<handler, usage, usage_read, record, found, counted, shares,
                    clashed>>

Receipt(t) == <<"receipt", t>>
Opened(d) == <<"opened", d>>
Closed(d) == <<"closed", d>>
Events ==
    {Receipt(t) : t \in Txs} \cup {Opened(d) : d \in Disputes}
                             \cup {Closed(d) : d \in Disputes}

\* What names no event: an agent without a record.
NoRecord == <<"none", None>>

ASSUME FiniteDisputes == IsFiniteSet(Disputes)

Ends == {"silent", "done"}
Running(e) == handler[e] \notin Ends

Counters == [settled |-> 0, disputed |-> 0, slashed |-> 0, refunded |-> 0, volume |-> 0]

SubscribersInit ==
    /\ handler = [e \in Events |-> "silent"]
    /\ usage = 0
    /\ usage_read = [t \in Txs |-> 0]
    /\ record = [a \in Accounts |-> NoRecord]
    /\ found = [e \in Events |-> NoRecord]
    /\ counted = [e \in Events |-> Counters]
    /\ shares = [d \in Disputes |-> 0]
    /\ clashed = FALSE
-----------------------------------------------------------------------------
(* EventBus.emit() *)

IsResolved(d) == d \in DOMAIN disputes /\ disputes[d].resolution # None

\* The events the service has emitted.
Emitted ==
    {Receipt(t) : t \in receipts} \cup {Opened(d) : d \in DOMAIN disputes}
                                  \cup {Closed(d) : d \in {e \in Disputes : IsResolved(e)}}

\* emit() runs the handlers in the thread that emits, which does nothing else
\* afterwards: a receipt is billed first, and every event is counted.
EmitNew ==
    /\ handler' = [e \in Events |->
                      IF e \notin Emitted' \ Emitted THEN handler[e]
                      ELSE IF e[1] = "receipt" THEN "read_usage" ELSE "find"]
    /\ clashed' = (clashed \/ (Emitted' # Emitted /\ \E e \in Events : Running(e)))

\* resolve_dispute() stores the provider_amount it was called with, whatever the
\* resolution: the share that a split has paid, else any number or none.
StoredShare(d, asked) ==
    LET paid == Receiver[disputes'[d].transaction_id]
    IN  IF disputes'[d].resolution = "split"
        THEN balances'[paid] - balances[paid] ELSE asked

\* A step of a thread inside the service, with the events it emits.
Serve ==
    /\ Next
    /\ EmitNew
    /\ \E asked \in ProviderAmounts \cup {0} :
          shares' = [d \in Disputes |->
                        IF Closed(d) \in Emitted' \ Emitted THEN StoredShare(d, asked)
                                                            ELSE shares[d]]
    /\ UNCHANGED <<usage, usage_read, record, found, counted>>
-----------------------------------------------------------------------------
(* TenantHub: on_receipt() *)

HandlerAt(e, position) == handler[e] = position
HandlerTo(e, position) == handler' = [handler EXCEPT ![e] = position]

ReadUsage(t) ==
    /\ HandlerAt(Receipt(t), "read_usage")
    /\ usage_read' = [usage_read EXCEPT ![t] = usage]
    /\ HandlerTo(Receipt(t), "write_usage")
    /\ UNCHANGED <<vars, usage, record, found, counted, shares, clashed>>

\* BUG, for a mutant: the transactions that are already settled are billed.
BillTransactions(t) ==
    /\ HandlerAt(Receipt(t), "write_usage")
    /\ usage' = Cardinality(transactions)
    /\ usage_read' = [usage_read EXCEPT ![t] = 0]
    /\ HandlerTo(Receipt(t), "find")
    /\ UNCHANGED <<vars, record, found, counted, shares, clashed>>

WriteUsage(t) ==
    /\ HandlerAt(Receipt(t), "write_usage")
    /\ usage' = usage_read[t] + 1
    /\ usage_read' = [usage_read EXCEPT ![t] = 0]
    /\ HandlerTo(Receipt(t), "find")
    /\ UNCHANGED <<vars, record, found, counted, shares, clashed>>
-----------------------------------------------------------------------------
(* ReputationEngine: on_receipt(), on_dispute() and on_resolved() *)

TxOfEvent(e) == IF e[1] = "receipt" THEN e[2] ELSE disputes[e[2]].transaction_id
AgentOf(e) == Receiver[TxOfEvent(e)]

\* record(): the search ...
FindRecord(e) ==
    /\ HandlerAt(e, "find")
    /\ found' = [found EXCEPT ![e] = record[AgentOf(e)]]
    /\ HandlerTo(e, IF record[AgentOf(e)] = NoRecord THEN "create" ELSE "count")
    /\ UNCHANGED <<vars, usage, usage_read, record, counted, shares, clashed>>

\* ... and a new record, which replaces one created since the search.
CreateRecord(e) ==
    /\ HandlerAt(e, "create")
    /\ record' = [record EXCEPT ![AgentOf(e)] = e]
    /\ found' = [found EXCEPT ![e] = e]
    /\ HandlerTo(e, "count")
    /\ UNCHANGED <<vars, usage, usage_read, counted, shares, clashed>>

Settles(c, n) == [c EXCEPT !.settled = @ + 1, !.volume = @ + n]

\* BUG, for a mutant: a split counts as a payment of the price.
WholeAmount(d) == Amount[disputes[d].transaction_id]

\* `provider_amount or amount`, of a "settle" as of a "split": what the event
\* says, and the price when it says 0 or nothing.
SettledAmount(d) ==
    IF shares[d] # 0 THEN shares[d] ELSE Amount[disputes[d].transaction_id]

\* BUG, for a mutant: every resolution counts as a settlement.
CountInAsSettled(e, c) ==
    CASE e[1] = "receipt" -> Settles(c, Amount[e[2]])
      [] e[1] = "opened"  -> [c EXCEPT !.disputed = @ + 1]
      [] OTHER            -> Settles(c, SettledAmount(e[2]))

\* on_settled(), on_disputed(), on_slashed() or on_refunded().
CountIn(e, c) ==
    CASE e[1] = "receipt" -> Settles(c, Amount[e[2]])
      [] e[1] = "opened"  -> [c EXCEPT !.disputed = @ + 1]
      [] e[1] = "closed"  ->
            CASE disputes[e[2]].resolution = "slash"  -> [c EXCEPT !.slashed = @ + 1]
              [] disputes[e[2]].resolution = "refund" -> [c EXCEPT !.refunded = @ + 1]
              [] OTHER                                -> Settles(c, SettledAmount(e[2]))

Count(e) ==
    /\ HandlerAt(e, "count")
    /\ counted' = [counted EXCEPT ![found[e]] = CountIn(e, @)]
    /\ found' = [found EXCEPT ![e] = NoRecord]
    /\ HandlerTo(e, "done")
    /\ UNCHANGED <<vars, usage, usage_read, record, shares, clashed>>

SubscribersNext ==
    \/ Serve
    \/ \E t \in Txs : ReadUsage(t) \/ WriteUsage(t)
    \/ \E e \in Events : FindRecord(e) \/ CreateRecord(e) \/ Count(e)
-----------------------------------------------------------------------------
(* Properties *)

\* What reputation knows of an agent; an agent without a record has no history.
Known(a) == IF record[a] = NoRecord THEN Counters ELSE counted[record[a]]

Receipts(a) == {t \in receipts : Receiver[t] = a}
Against(a) == {d \in DOMAIN disputes : Receiver[disputes[d].transaction_id] = a}
Decided(a, resolutions) == {d \in Against(a) : disputes[d].resolution \in resolutions}

\* However the handlers interleave, a tenant is never billed for more than its
\* receipts, and no agent is credited or blamed for more than happened: a race
\* loses counts and never invents one.
NeverOvercounts ==
    /\ usage <= Cardinality(receipts)
    /\ \A a \in Accounts :
          /\ Known(a).settled <= Cardinality(Receipts(a))
                                   + Cardinality(Decided(a, {"settle", "split"}))
          /\ Known(a).disputed <= Cardinality(Against(a))
          /\ Known(a).slashed <= Cardinality(Decided(a, {"slash"}))
          /\ Known(a).refunded <= Cardinality(Decided(a, {"refund"}))

Quiet == ~clashed /\ \A e \in Events : ~Running(e)

\* As long as no two handlers have run at once, between handlers every receipt
\* is billed and every event is counted, each under its own heading.
QuietCountsAreExact ==
    Quiet =>
        /\ usage = Cardinality(receipts)
        /\ \A a \in Accounts :
              /\ Known(a).settled = Cardinality(Receipts(a))
                                       + Cardinality(Decided(a, {"settle", "split"}))
              /\ Known(a).disputed = Cardinality(Against(a))
              /\ Known(a).slashed = Cardinality(Decided(a, {"slash"}))
              /\ Known(a).refunded = Cardinality(Decided(a, {"refund"}))

\* By how much reputation misses what a decided dispute has paid: a split at 0
\* is taken for the price, and of a settle, which pays the price, the number that
\* its caller sent along is taken.
Misreport(d) ==
    LET price == Amount[disputes[d].transaction_id]
    IN  CASE disputes[d].resolution = "split"  -> IF shares[d] = 0 THEN price ELSE 0
          [] disputes[d].resolution = "settle" -> IF shares[d] = 0 THEN 0
                                                                   ELSE shares[d] - price
          [] OTHER                             -> 0
Misreported(a) ==
    SumFunctionOnSet([d \in Disputes |-> IF d \in Against(a) THEN Misreport(d) ELSE 0],
                     Disputes)

\* The volume of an agent that buys nothing is what it has earned in receipts,
\* settles and splits, but for the two kinds of dispute that are misreported.
VolumeIsIncome ==
    Quiet /\ (\A t \in Txs : pc[t] # "receipt") =>
        \A a \in Accounts \ {Sender[t] : t \in Txs} :
            Known(a).volume - Misreported(a) = balances[a] - Opening[a]
=============================================================================
