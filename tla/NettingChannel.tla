--------------------------- MODULE NettingChannel ---------------------------
(***************************************************************************)
(* neuralclear/netting.py: channels that hold one deposit in escrow, meter *)
(* many small tasks against it off the ledger, and settle once.            *)
(*                                                                         *)
(* Nothing in netting.py takes a lock. meter() reads the channel's state   *)
(* and total, then the end of the chain, then appends: three steps.        *)
(* settle() and dispute() check the channel's state and then change the    *)
(* transaction's, transition by transition; only split_escrow() runs under *)
(* the ledger's lock. A channel and its transaction have one name.         *)
(***************************************************************************)
EXTENDS DisputeHandling, FeeEngine, Sequences

CONSTANTS
    Deposit,         \* [Txs -> Nat], the deposit of each open_channel() call
    ChannelPolicy,   \* the fee policy of "netting.channel"
    MeterCalls,      \* the meter() calls
    MeterOn,         \* [MeterCalls -> Txs], the channel of each
    MeterAmount,     \* [MeterCalls -> Int], the credits of each
    MeterThread,     \* [MeterCalls -> threads], who makes the call
    Settles,         \* the settle() calls
    Freezes,         \* the dispute() calls
    CloserOn,        \* [Settles \cup Freezes -> Txs], the channel of each
    MaxContenders    \* a bound: settle(), dispute() and open_dispute() calls made

Closers == Settles \cup Freezes

ASSUME ChannelParameters ==
    /\ Deposit \in [Txs -> Nat] /\ ChannelPolicy \in FeePolicies
    /\ Fee = [t \in Txs |-> fee_for(ChannelPolicy, Deposit[t])]
    /\ \A t \in Txs : ~FeeRefused(ChannelPolicy, Deposit[t])
                         => Amount[t] = Deposit[t] - Fee[t]
    /\ IsFiniteSet(MeterCalls)
    /\ MeterOn \in [MeterCalls -> Txs] /\ MeterAmount \in [MeterCalls -> Int]
    /\ Settles \cap Freezes = {} /\ CloserOn \in [Closers -> Txs]
    /\ MaxContenders \in Nat

VARIABLES
    channel_state,   \* NettingChannel.state, and the stages before it exists
    records,         \* NettingChannel.records, as a sequence
    meter_pc,        \* where each meter() call stands
    meter_link,      \* the sequence number and previous hash it has read
    pc,              \* where each settle() and dispute() call stands
    pending,         \* a state its transition() has checked and not yet written
    net,             \* the net total a settle() call has read
    receipts         \* receipts of the settle() calls that returned

meterVars == <<records, meter_pc, meter_link>>
closerVars == <<pc, pending, net, receipts>>
vars == <<ledgerVars, disputeVars, channel_state, meterVars, closerVars>>

GENESIS_HASH == "genesis"

\* A record is known by its call: the hash of a record stands for that name.
UsageRecord ==
    [call : MeterCalls, sequence : Nat, prev : MeterCalls \cup {GENESIS_HASH}]

chain_head(t) ==
    IF records[t] = <<>> THEN GENESIS_HASH ELSE records[t][Len(records[t])].call

net_total(t) ==
    SumFunctionOnSet([i \in DOMAIN records[t] |-> MeterAmount[records[t][i].call]],
                     DOMAIN records[t])

spendable(t) == Deposit[t] - Fee[t]

verify_chain(t) ==
    \A i \in DOMAIN records[t] :
        /\ records[t][i].sequence = i - 1
        /\ records[t][i].prev = IF i = 1 THEN GENESIS_HASH ELSE records[t][i - 1].call

\* Positions of settle() and dispute(): the transitions and what follows each.
Target ==
    [to_running     |-> "TASK_RUNNING",   to_delivered    |-> "RESULT_DELIVERED",
     to_verified    |-> "PROOF_VERIFIED", to_split_state  |-> "DISPUTED",
     freeze_running |-> "TASK_RUNNING",   freeze_disputed |-> "DISPUTED"]

\* BUG, for a mutant: settle() leaves one transition out.
AfterSkipping ==
    [to_running     |-> "to_verified",     to_delivered    |-> "to_verified",
     to_verified    |-> "to_split_state",  to_split_state  |-> "split",
     freeze_running |-> "freeze_disputed", freeze_disputed |-> "frozen"]

After ==
    [to_running     |-> "to_delivered",    to_delivered    |-> "to_verified",
     to_verified    |-> "to_split_state",  to_split_state  |-> "split",
     freeze_running |-> "freeze_disputed", freeze_disputed |-> "frozen"]

Position ==
    DOMAIN Target \cup
    {"called", "chain", "total", "split", "close", "receipt", "mark",
     "returned", "frozen", "raised"}

ChannelState == {"OPEN", "SETTLED", "DISPUTED"}

Init ==
    /\ LedgerInit
    /\ DisputesInit
    /\ channel_state = [t \in Txs |-> "absent"]
    /\ records = [t \in Txs |-> <<>>]
    /\ meter_pc = [m \in MeterCalls |-> "called"]
    /\ meter_link = [m \in MeterCalls |-> [sequence |-> 0, prev |-> GENESIS_HASH]]
    /\ pc = [c \in Closers |-> "called"]
    /\ pending = [c \in Closers |-> None]
    /\ net = [s \in Settles |-> 0]
    /\ receipts = [s \in {} |-> None]
-----------------------------------------------------------------------------
(* open_channel() *)

SetChannel(t, s) == channel_state' = [channel_state EXCEPT ![t] = s]

\* The deposit and its fee, and a Transaction that nobody else knows yet.
RequestChannel(t) ==
    /\ channel_state[t] = "absent"
    /\ Deposit[t] > 0 /\ ~FeeRefused(ChannelPolicy, Deposit[t])
    /\ state' = [state EXCEPT ![t] = "TASK_SUBMITTED"]
    /\ SetChannel(t, "requested")
    /\ UNCHANGED <<moneyVars, disputeVars, meterVars, closerVars>>

\* hold(), and the channel that only now can be found.
OpenChannel(t) ==
    /\ channel_state[t] = "requested"
    /\ hold(t)
    /\ SetChannel(t, "OPEN")
    /\ UNCHANGED <<disputeVars, meterVars, closerVars>>

\* open_channel() raises: the deposit or the fee is refused, or hold() is.
RefuseChannel(t) ==
    /\ \/ /\ channel_state[t] = "absent"
          /\ Deposit[t] <= 0 \/ FeeRefused(ChannelPolicy, Deposit[t])
       \/ channel_state[t] = "requested" /\ ~MayHold(t)
    /\ SetChannel(t, "refused")
    /\ UNCHANGED <<ledgerVars, disputeVars, meterVars, closerVars>>
-----------------------------------------------------------------------------
(* meter() *)

InMeter(m) == meter_pc[m] \in {"link", "append"}
MeterGoto(m, position) == meter_pc' = [meter_pc EXCEPT ![m] = position]

\* A thread makes one call at a time.
ThreadFree(m) ==
    \A n \in MeterCalls : MeterThread[n] = MeterThread[m] => ~InMeter(n)

\* BUG, for a mutant: the call is compared with the deposit, not what is left.
MayMeterAlone(m) ==
    /\ channel_state[MeterOn[m]] = "OPEN"
    /\ MeterAmount[m] > 0
    /\ MeterAmount[m] <= spendable(MeterOn[m])

MayMeter(m) ==
    /\ channel_state[MeterOn[m]] = "OPEN"
    /\ MeterAmount[m] > 0
    /\ net_total(MeterOn[m]) + MeterAmount[m] <= spendable(MeterOn[m])

MeterCheck(m) ==
    /\ meter_pc[m] = "called" /\ ThreadFree(m)
    /\ channel_state[MeterOn[m]] \in ChannelState
    /\ MeterGoto(m, IF MayMeter(m) THEN "link" ELSE "refused")
    /\ UNCHANGED <<ledgerVars, disputeVars, channel_state, records, meter_link,
                   closerVars>>

\* BUG, for a mutant: records are numbered one behind.
MeterLinkBehind(m) ==
    /\ meter_pc[m] = "link"
    /\ meter_link' = [meter_link EXCEPT ![m] =
            [sequence |-> Len(records[MeterOn[m]]) - 1, prev |-> chain_head(MeterOn[m])]]
    /\ MeterGoto(m, "append")
    /\ UNCHANGED <<ledgerVars, disputeVars, channel_state, records, closerVars>>

\* The end of the chain. (An append between the reads of the hash and of the
\* length makes the record break the chain, as an append after both does.)
MeterLink(m) ==
    /\ meter_pc[m] = "link"
    /\ meter_link' = [meter_link EXCEPT ![m] =
            [sequence |-> Len(records[MeterOn[m]]), prev |-> chain_head(MeterOn[m])]]
    /\ MeterGoto(m, "append")
    /\ UNCHANGED <<ledgerVars, disputeVars, channel_state, records, closerVars>>

\* The append, whatever the channel has become.
MeterAppend(m) ==
    /\ meter_pc[m] = "append"
    /\ records' = [records EXCEPT ![MeterOn[m]] =
            Append(@, [call |-> m, sequence |-> meter_link[m].sequence,
                       prev |-> meter_link[m].prev])]
    /\ MeterGoto(m, "returned")
    /\ UNCHANGED <<ledgerVars, disputeVars, channel_state, meter_link, closerVars>>
-----------------------------------------------------------------------------
(* settle() and dispute() *)

Goto(c, position) == pc' = [pc EXCEPT ![c] = position]
At(c, position) == pc[c] = position /\ pending[c] = None

\* The bound on how many calls contend for the deposits.
MayContend ==
    Cardinality({c \in Closers : pc[c] # "called"})
        + Cardinality({d \in Disputes : opening[d] # None \/ d \in DOMAIN disputes})
      < MaxContenders

\* The first check of either: the channel is open, or the call raises.
CloserCheck(c) ==
    /\ MayContend /\ At(c, "called")
    /\ channel_state[CloserOn[c]] \in ChannelState
    /\ Goto(c, IF channel_state[CloserOn[c]] # "OPEN" THEN "raised"
               ELSE IF c \in Settles THEN "chain" ELSE "mark")
    /\ UNCHANGED <<ledgerVars, disputeVars, channel_state, meterVars, pending, net,
                   receipts>>

VerifyChain(s) ==
    /\ At(s, "chain")
    /\ Goto(s, IF verify_chain(CloserOn[s]) THEN "total" ELSE "raised")
    /\ UNCHANGED <<ledgerVars, disputeVars, channel_state, meterVars, pending, net,
                   receipts>>

ReadTotal(s) ==
    /\ At(s, "total")
    /\ net' = [net EXCEPT ![s] = net_total(CloserOn[s])]
    /\ Goto(s, "to_running")
    /\ UNCHANGED <<ledgerVars, disputeVars, channel_state, meterVars, pending, receipts>>

\* BUG, for a mutant: the transaction is disputed and the channel stays open.
MarkNothing(f) ==
    /\ At(f, "mark")
    /\ Goto(f, "freeze_running")
    /\ UNCHANGED <<ledgerVars, disputeVars, channel_state, meterVars, pending, net,
                   receipts>>

\* dispute() marks the channel before it touches the transaction.
MarkDisputed(f) ==
    /\ At(f, "mark")
    /\ SetChannel(CloserOn[f], "DISPUTED")
    /\ Goto(f, "freeze_running")
    /\ UNCHANGED <<ledgerVars, disputeVars, meterVars, pending, net, receipts>>

\* transition(): the check of the table ...
CheckTransition(c) ==
    /\ pc[c] \in DOMAIN Target /\ pending[c] = None
    /\ \/ /\ CanTransition(state[CloserOn[c]], Target[pc[c]])
          /\ pending' = [pending EXCEPT ![c] = Target[pc[c]]]
          /\ UNCHANGED pc
       \/ /\ ~CanTransition(state[CloserOn[c]], Target[pc[c]])
          /\ Goto(c, "raised")
          /\ UNCHANGED pending
    /\ UNCHANGED <<ledgerVars, disputeVars, channel_state, meterVars, net, receipts>>

\* ... and the assignment, whatever the state has become since.
WriteTransition(c) ==
    /\ pending[c] # None
    /\ WriteState(CloserOn[c], pending[c])
    /\ pending' = [pending EXCEPT ![c] = None]
    /\ Goto(c, After[pc[c]])
    /\ UNCHANGED <<disputeVars, channel_state, meterVars, net, receipts>>

\* BUG, for a mutant: a settlement that finds no funds is taken for done.
SplitUnchecked(s) ==
    /\ At(s, "split")
    /\ \/ split_escrow(CloserOn[s], net[s]) /\ Paid(CloserOn[s], "split")
       \/ CloserOn[s] \notin DOMAIN escrow /\ UNCHANGED <<ledgerVars, payout>>
    /\ Goto(s, "close")
    /\ UNCHANGED <<opening, marked, disputes, resolving, channel_state, meterVars,
                   pending, net, receipts>>

\* split_escrow() with the net total: it pays, or raises with the funds gone.
SplitDeposit(s) ==
    /\ At(s, "split")
    /\ split_escrow(CloserOn[s], net[s])
    /\ IF InRange(CloserOn[s], net[s])
       THEN Paid(CloserOn[s], "split") /\ Goto(s, "close")
       ELSE Paid(CloserOn[s], "destroyed") /\ Goto(s, "raised")
    /\ UNCHANGED <<opening, marked, disputes, resolving, channel_state, meterVars,
                   pending, net, receipts>>

NoFundsHeld(s) ==
    /\ At(s, "split")
    /\ CloserOn[s] \notin DOMAIN escrow
    /\ Goto(s, "raised")
    /\ UNCHANGED <<ledgerVars, disputeVars, channel_state, meterVars, pending, net,
                   receipts>>

CloseChannel(s) ==
    /\ At(s, "close")
    /\ SetChannel(CloserOn[s], "SETTLED")
    /\ Goto(s, "receipt")
    /\ UNCHANGED <<ledgerVars, disputeVars, meterVars, pending, net, receipts>>

\* The receipt counts the records that are there by now.
IssueReceipt(s) ==
    /\ At(s, "receipt")
    /\ receipts' = [r \in DOMAIN receipts \cup {s} |->
            IF r = s THEN [net_to_provider |-> net[s],
                           tasks_metered |-> Len(records[CloserOn[s]])]
                     ELSE receipts[r]]
    /\ Goto(s, "returned")
    /\ UNCHANGED <<ledgerVars, disputeVars, channel_state, meterVars, pending, net>>
-----------------------------------------------------------------------------
OpenStep(t) == RequestChannel(t) \/ OpenChannel(t) \/ RefuseChannel(t)

MeterStep(m) == MeterCheck(m) \/ MeterLink(m) \/ MeterAppend(m)

SettleStep(s) ==
    \/ VerifyChain(s) \/ ReadTotal(s) \/ SplitDeposit(s) \/ NoFundsHeld(s)
    \/ CloseChannel(s) \/ IssueReceipt(s)

CloserStep(c) ==
    \/ CloserCheck(c) \/ CheckTransition(c) \/ WriteTransition(c)
    \/ c \in Settles /\ SettleStep(c)
    \/ c \in Freezes /\ MarkDisputed(c)

\* A channel's transaction can be disputed as any other once it is registered.
DisputeCall(d, t) ==
    /\ \/ MayContend /\ channel_state[t] \in ChannelState /\ CheckDispute(d, t)
       \/ WriteDispute(d, t) \/ RecordDispute(d, t)
       \/ ResolveDispute(d, t) \/ WriteOutcome(d, t)
    /\ UNCHANGED <<channel_state, meterVars, closerVars>>

Next ==
    \/ \E t \in Txs : OpenStep(t)
    \/ \E m \in MeterCalls : MeterStep(m)
    \/ \E c \in Closers : CloserStep(c)
    \/ \E t \in Txs, d \in Disputes : DisputeCall(d, t)

Spec == Init /\ [][Next]_vars

\* A thread in settle() keeps running.
Fairness == \A s \in Settles : WF_vars(pc[s] # "called" /\ CloserStep(s))

FairSpec == Spec /\ Fairness
-----------------------------------------------------------------------------
(* Properties *)

Ended(c) == pc[c] \in {"returned", "frozen", "raised"}
Answered(s) == s \in DOMAIN receipts

\* The sum of a channel's first k records.
PrefixTotal(t, k) ==
    SumFunctionOnSet([i \in 1..k |-> MeterAmount[records[t][i].call]], 1..k)

\* The shape of the state; a channel's balance and its records included.
NettingTypeOK ==
    /\ LedgerTypeOK /\ DisputesTypeOK
    /\ channel_state \in [Txs -> ChannelState \cup {"absent", "requested", "refused"}]
    /\ records \in [Txs -> Seq(UsageRecord)]
    /\ meter_pc \in [MeterCalls -> {"called", "link", "append", "returned", "refused"}]
    /\ meter_link \in [MeterCalls -> [sequence : Nat,
                                      prev : MeterCalls \cup {GENESIS_HASH}]]
    /\ pc \in [Closers -> Position]
    /\ pending \in [Closers -> TransactionState \cup {None}]
    /\ net \in [Settles -> Nat]
    /\ DOMAIN receipts \subseteq Settles

ChainIntact == \A t \in Txs : verify_chain(t)
DepositCovers ==
    \A t \in Txs : channel_state[t] \in ChannelState => net_total(t) <= spendable(t)

\* When one thread meters a channel, each record commits to the one before it,
\* and what they add up to never exceeds what the deposit leaves after the fee,
\* so that settle() can always verify and pay it, however settle() and dispute()
\* interleave with the calls.
MeteredSoundly == ChainIntact /\ DepositCovers

\* A channel pays once: at most one settle() returns a receipt, only when its
\* own split was the payout, and for the sum of records it had seen.
SettledPaysOnce ==
    /\ \A t \in Txs : channel_state[t] = "SETTLED" => payout[t] = "split"
    /\ \A s \in DOMAIN receipts :
          /\ payout[CloserOn[s]] = "split"
          /\ \E k \in 0..receipts[s].tasks_metered :
                receipts[s].net_to_provider = PrefixTotal(CloserOn[s], k)
    /\ \A r, s \in DOMAIN receipts : CloserOn[r] = CloserOn[s] => r = s

\* When every settle() and dispute() made on a channel has raised, its deposit
\* is still in the hands of somebody: the channel was frozen, or a dispute is
\* on its transaction.
DepositNotStranded ==
    \A t \in DOMAIN escrow :
        LET closers == {c \in Closers : CloserOn[c] = t /\ pc[c] # "called"}
        IN  closers # {} /\ (\A c \in closers : Ended(c))
                => channel_state[t] = "DISPUTED" \/ Contested(t)

\* A settle() past its checks ends with the deposit paid, unless the channel
\* was frozen or its transaction disputed.
SettlingPays ==
    \A s \in Settles :
        pc[s] = "to_running" ~> \/ payout[CloserOn[s]] # None
                                \/ channel_state[CloserOn[s]] = "DISPUTED"
                                \/ Contested(CloserOn[s])

\* netting.py:10 says that the provider receives the metered total: the net of
\* a receipt is the sum of all the records it counts.
ReceiptCoversRecords ==
    \A s \in DOMAIN receipts :
        receipts[s].net_to_provider
            = PrefixTotal(CloserOn[s], receipts[s].tasks_metered)
=============================================================================
