------------------------ MODULE NettingChannelProofs ------------------------
(***************************************************************************)
(* Netting channels for any number of channels, meter(), settle() and      *)
(* dispute() calls and disputes on their transactions: what holds however  *)
(* they interleave, and what holds when one thread meters each channel.    *)
(***************************************************************************)
EXTENDS NettingChannel, EscrowProofs

\* What the chain and its total rely on, and what netting.py's callers must
\* respect: the calls that meter a channel are made by one thread.
OneThreadPerChannel ==
    \A m, n \in MeterCalls : MeterOn[m] = MeterOn[n] => MeterThread[m] = MeterThread[n]

SettlePosition ==
    {"called", "chain", "total", "to_running", "to_delivered", "to_verified",
     "to_split_state", "split", "close", "receipt", "returned", "raised"}
FreezePosition ==
    {"called", "mark", "freeze_running", "freeze_disputed", "frozen", "raised"}

\* Each call keeps to its own positions, and a transition() between its check
\* and its write is the one of its position.
CallsInPlace ==
    /\ \A s \in Settles : pc[s] \in SettlePosition
    /\ \A f \in Freezes : pc[f] \in FreezePosition
    /\ \A c \in Closers :
          pending[c] # None => pc[c] \in DOMAIN Target /\ pending[c] = Target[pc[c]]

\* Only what passed the check of meter() is recorded, so a total never shrinks.
MeteredPositive ==
    /\ \A m \in MeterCalls : InMeter(m) => MeterAmount[m] > 0
    /\ \A t \in Txs : \A i \in DOMAIN records[t] : MeterAmount[records[t][i].call] > 0

NettingShape == NettingTypeOK /\ HeldInFull /\ CallsInPlace /\ MeteredPositive

\* The positions with a transition() call, what it writes and where it leads.
LEMMA TransitionTables ==
    /\ DOMAIN Target = {"to_running", "to_delivered", "to_verified", "to_split_state",
                        "freeze_running", "freeze_disputed"}
    /\ DOMAIN After = DOMAIN Target
    /\ \A q \in DOMAIN Target :
          /\ q \in Position /\ After[q] \in Position
          /\ Target[q] \in TransactionState /\ Target[q] # None
          /\ q \in SettlePosition => After[q] \in SettlePosition
          /\ q \in FreezePosition => After[q] \in FreezePosition
          /\ q \in SettlePosition => q \notin FreezePosition
BY DEF Target, After, Position, SettlePosition, FreezePosition, TransactionState, None

LEMMA CloserKinds ==
    /\ Closers = Settles \cup Freezes /\ Settles \cap Freezes = {}
    /\ \A c \in Closers : CloserOn[c] \in Txs
    /\ \A m \in MeterCalls : MeterOn[m] \in Txs /\ MeterAmount[m] \in Int
BY ChannelParameters DEF Closers
-----------------------------------------------------------------------------
(* Totals of a chain *)

RecordsOK == records \in [Txs -> Seq(UsageRecord)]

Amounts(t, k) == [i \in 1..k |-> MeterAmount[records[t][i].call]]

LEMMA RecordAmounts ==
    ASSUME RecordsOK, NEW t \in Txs
    PROVE  /\ Len(records[t]) \in Nat /\ DOMAIN records[t] = 1..Len(records[t])
           /\ \A i \in 1..Len(records[t]) :
                 /\ records[t][i] \in UsageRecord
                 /\ MeterAmount[records[t][i].call] \in Int
<1>1. records[t] \in Seq(UsageRecord)
  BY DEF RecordsOK
<1>2. Len(records[t]) \in Nat /\ DOMAIN records[t] = 1..Len(records[t])
  BY <1>1
<1>3. \A i \in 1..Len(records[t]) : records[t][i] \in UsageRecord
  BY <1>1
<1> QED BY <1>2, <1>3, CloserKinds DEF UsageRecord

\* The total is that of all the records.
LEMMA TotalIsPrefix ==
    ASSUME RecordsOK, NEW t \in Txs
    PROVE  net_total(t) = PrefixTotal(t, Len(records[t]))
BY RecordAmounts DEF net_total, PrefixTotal

LEMMA PrefixType ==
    ASSUME RecordsOK, NEW t \in Txs, NEW k \in 0..Len(records[t])
    PROVE  /\ Amounts(t, k) \in [1..k -> Int] /\ IsFiniteSet(1..k)
           /\ PrefixTotal(t, k) = SumFunctionOnSet(Amounts(t, k), 1..k)
           /\ PrefixTotal(t, k) \in Int
<1>1. IsFiniteSet(1..k)
  BY RecordAmounts, FS_Interval
<1>2. Amounts(t, k) \in [1..k -> Int]
  BY RecordAmounts DEF Amounts
<1>3. PrefixTotal(t, k) = SumFunctionOnSet(Amounts(t, k), 1..k)
  BY DEF PrefixTotal, Amounts
<1> QED BY <1>1, <1>2, <1>3, SumType

\* A total of positive amounts is a natural.
LEMMA TotalIsNat ==
    ASSUME RecordsOK, MeteredPositive, NEW t \in Txs
    PROVE  net_total(t) \in Nat
<1> DEFINE k == Len(records[t])
           zero == [i \in 1..k |-> 0]
<1>1. k \in 0..k
  BY RecordAmounts
<1>2. \A i \in 1..k : zero[i] <= Amounts(t, k)[i]
  BY RecordAmounts DEF MeteredPositive, Amounts
<1>3. zero \in [1..k -> Int]
  OBVIOUS
<1> HIDE DEF k
<1>4. SumFunctionOnSet(zero, 1..k) = 0
  BY <1>1, PrefixType, SumZero DEF k
<1> HIDE DEF zero
<1>5. SumFunctionOnSet(zero, 1..k) <= SumFunctionOnSet(Amounts(t, k), 1..k)
  <2>1. Amounts(t, k) \in [1..k -> Int] /\ IsFiniteSet(1..k)
    BY <1>1, PrefixType DEF k
  <2> QED BY <1>2, <1>3, <2>1, SumMonotone
<1>6. net_total(t) = SumFunctionOnSet(Amounts(t, k), 1..k) /\ net_total(t) \in Int
  BY <1>1, TotalIsPrefix, PrefixType DEF k
<1> QED BY <1>4, <1>5, <1>6

\* Whether a chain has grown, by any number of records.
Grows(t) ==
    /\ Len(records[t]) <= Len(records'[t])
    /\ \A i \in 1..Len(records[t]) : records'[t][i] = records[t][i]

\* What a prefix adds up to does not change as the chain grows.
LEMMA PrefixesStay ==
    ASSUME RecordsOK, RecordsOK', NEW t \in Txs, Grows(t), NEW k \in 0..Len(records[t])
    PROVE  k \in 0..Len(records'[t]) /\ PrefixTotal(t, k)' = PrefixTotal(t, k)
<1>1. /\ Len(records[t]) \in Nat /\ Len(records'[t]) \in Nat
      /\ Len(records[t]) <= Len(records'[t])
  BY RecordAmounts DEF Grows, RecordsOK
<1>2. [i \in 1..k |-> MeterAmount[records'[t][i].call]]
        = [i \in 1..k |-> MeterAmount[records[t][i].call]]
  BY <1>1 DEF Grows
<1> QED BY <1>1, <1>2 DEF PrefixTotal

\* The append of meter(): the chain grows by one record, and the total by the
\* amount of the call.
LEMMA AppendRaisesTotal ==
    ASSUME RecordsOK, RecordsOK', NEW t \in Txs, NEW r \in UsageRecord,
           records'[t] = Append(records[t], r)
    PROVE  /\ Grows(t) /\ Len(records'[t]) = Len(records[t]) + 1
           /\ records'[t][Len(records[t]) + 1] = r
           /\ net_total(t)' = net_total(t) + MeterAmount[r.call]
<1> DEFINE n == Len(records[t])
           e == Amounts(t, n)
           f == [i \in 1..(n + 1) |-> MeterAmount[records'[t][i].call]]
<1>1. records[t] \in Seq(UsageRecord) /\ n \in Nat
  BY RecordAmounts DEF RecordsOK
<1>2. /\ Len(records'[t]) = n + 1 /\ records'[t][n + 1] = r
      /\ \A i \in 1..n : records'[t][i] = records[t][i]
  BY <1>1
<1>3. Grows(t)
  BY <1>1, <1>2 DEF Grows
<1>4. MeterAmount[r.call] \in Int
  BY CloserKinds DEF UsageRecord
<1>5. \A i \in 1..n : MeterAmount[records[t][i].call] \in Int
  BY RecordAmounts
<1>6. f \in [1..(n + 1) -> Int] /\ f[n + 1] = MeterAmount[r.call]
  BY <1>1, <1>2, <1>4, <1>5
<1>7. e \in [1..n -> Int] /\ \A i \in 1..n : e[i] = f[i]
  BY <1>1, <1>2, <1>5 DEF Amounts
<1>8. n + 1 \in 1..(n + 1) /\ (1..(n + 1)) \ {n + 1} = 1..n /\ IsFiniteSet(1..(n + 1))
  <2> HIDE DEF n
  <2>1. n \in Nat /\ 1 \in Int /\ n + 1 \in Int
    BY <1>1
  <2>2. IsFiniteSet(1..(n + 1))
    BY <2>1, FS_Interval
  <2> QED BY <2>1, <2>2
<1>9. net_total(t)' = SumFunctionOnSet(f, 1..(n + 1))
  <2>1. DOMAIN records'[t] = 1..(n + 1)
    BY <1>1, <1>2
  <2> QED BY <2>1 DEF net_total
<1>10. net_total(t) = SumFunctionOnSet(e, 1..n)
  BY RecordAmounts DEF net_total, Amounts
<1> HIDE DEF n, e, f
<1>11. SumFunctionOnSet(f, 1..(n + 1)) = SumFunctionOnSet(e, 1..n) + f[n + 1]
  <2> DEFINE T == 1..(n + 1)
  <2>1. e \in [T \ {n + 1} -> Int] /\ \A i \in T \ {n + 1} : e[i] = f[i]
    BY <1>7, <1>8
  <2>2. f \in [T -> Int] /\ n + 1 \in T /\ IsFiniteSet(T) /\ T \ {n + 1} = 1..n
    BY <1>6, <1>8
  <2> HIDE DEF T
  <2>3. SumFunctionOnSet(f, T) = SumFunctionOnSet(e, T \ {n + 1}) + f[n + 1]
    BY <2>1, <2>2, SumExtend
  <2> QED BY <2>2, <2>3 DEF T
<1> QED BY <1>2, <1>3, <1>6, <1>9, <1>10, <1>11 DEF n
-----------------------------------------------------------------------------
(* Types *)

CallTypes ==
    /\ channel_state \in [Txs -> ChannelState \cup {"absent", "requested", "refused"}]
    /\ pc \in [Closers -> Position]
    /\ pending \in [Closers -> TransactionState \cup {None}]
    /\ net \in [Settles -> Nat]
    /\ DOMAIN receipts \subseteq Settles
    /\ CallsInPlace

MeterTypes ==
    /\ RecordsOK
    /\ meter_pc \in [MeterCalls -> {"called", "link", "append", "returned", "refused"}]
    /\ meter_link \in [MeterCalls -> [sequence : Nat,
                                      prev : MeterCalls \cup {GENESIS_HASH}]]
    /\ MeteredPositive

LEMMA ShapeParts ==
    NettingShape <=> LedgerInv /\ DisputesTypeOK /\ CallTypes /\ MeterTypes
BY DEF NettingShape, NettingTypeOK, LedgerInv, CallTypes, MeterTypes, RecordsOK

LEMMA ShapePartsNext ==
    LedgerInv' /\ DisputesTypeOK' /\ CallTypes' /\ MeterTypes' => NettingShape'
BY DEF NettingShape, NettingTypeOK, LedgerInv, CallTypes, MeterTypes, RecordsOK

\* Every step is a ledger method, a write of a state, or no step of the ledger
\* at all, but for the split of a settle(), whose share is a chain's total.
LEMMA LedgerMoves ==
    ASSUME NettingShape, [Next]_vars
    PROVE  [LedgerNext]_ledgerVars \/ \E s \in Settles : SplitDeposit(s)
<1>0. DisputesTypeOK /\ CallTypes
  BY ShapeParts
<1>1. ASSUME NEW t \in Txs, OpenStep(t) PROVE [LedgerNext]_ledgerVars
  <2>1. CASE RequestChannel(t)
    <3>1. WriteState(t, "TASK_SUBMITTED") /\ "TASK_SUBMITTED" \in TransactionState
      BY <2>1 DEF RequestChannel, WriteState, TransactionState
    <3> QED BY <3>1 DEF LedgerNext
  <2>2. CASE OpenChannel(t)
    BY <2>2 DEF OpenChannel, LedgerNext
  <2>3. CASE RefuseChannel(t)
    BY <2>3 DEF RefuseChannel
  <2> QED BY <1>1, <2>1, <2>2, <2>3 DEF OpenStep
<1>2. ASSUME NEW m \in MeterCalls, MeterStep(m) PROVE UNCHANGED ledgerVars
  BY <1>2 DEF MeterStep, MeterCheck, MeterLink, MeterAppend
<1>3. ASSUME NEW c \in Closers, CloserStep(c)
      PROVE  [LedgerNext]_ledgerVars \/ \E s \in Settles : SplitDeposit(s)
  <2>1. CASE WriteTransition(c)
    <3>1. pending[c] \in TransactionState /\ CloserOn[c] \in Txs
      BY <1>0, <2>1, CloserKinds DEF WriteTransition, CallTypes
    <3> QED BY <2>1, <3>1 DEF WriteTransition, LedgerNext
  <2>2. CASE CloserCheck(c) \/ CheckTransition(c) \/ MarkDisputed(c)
    BY <2>2 DEF CloserCheck, CheckTransition, MarkDisputed
  <2>3. CASE c \in Settles /\ SettleStep(c)
    BY <2>3 DEF SettleStep, VerifyChain, ReadTotal, NoFundsHeld, CloseChannel, IssueReceipt
  <2> QED BY <1>3, <2>1, <2>2, <2>3 DEF CloserStep
<1>4. ASSUME NEW t \in Txs, NEW d \in Disputes, DisputeCall(d, t)
      PROVE  [LedgerNext]_ledgerVars
  <2>1. DisputeStep(d, t)
    BY <1>4 DEF DisputeCall, DisputeStep, OpeningStep
  <2> QED BY <1>0, <2>1, DisputeStepIsLedgerStep
<1>5. ASSUME UNCHANGED vars PROVE UNCHANGED ledgerVars
  BY <1>5 DEF vars
<1> QED BY <1>1, <1>2, <1>3, <1>4, <1>5 DEF Next

\* The share a settle() asks for.
LEMMA SplitShare ==
    ASSUME NettingShape, NEW s \in Settles, SplitDeposit(s)
    PROVE  /\ CloserOn[s] \in Txs /\ net[s] \in Int
           /\ split_escrow(CloserOn[s], net[s])
BY CloserKinds, ShapeParts DEF SplitDeposit, CallTypes

LEMMA LedgerPart == NettingShape /\ [Next]_vars => LedgerInv'
<1> SUFFICES ASSUME NettingShape, [Next]_vars PROVE LedgerInv'
  OBVIOUS
<1>1. LedgerInv
  BY ShapeParts
<1>2. CASE \E s \in Settles : SplitDeposit(s)
  BY <1>1, <1>2, SplitShare, SplitKeepsInv
<1> QED BY <1>1, <1>2, LedgerMoves, LedgerStepInv

\* Apart from disputes only a settle()'s split decides a payout.
LEMMA DisputeMoves ==
    ASSUME [Next]_vars
    PROVE  \/ UNCHANGED disputeVars
           \/ \E t \in Txs, d \in Disputes :
                 DisputeStep(d, t) /\ UNCHANGED <<channel_state, meterVars, closerVars>>
           \/ \E s \in Settles :
                 /\ SplitDeposit(s) /\ UNCHANGED <<opening, marked, disputes, resolving>>
                 /\ \E how \in Payouts : Paid(CloserOn[s], how)
<1>1. ASSUME NEW t \in Txs, OpenStep(t) PROVE UNCHANGED disputeVars
  BY <1>1 DEF OpenStep, RequestChannel, OpenChannel, RefuseChannel
<1>2. ASSUME NEW m \in MeterCalls, MeterStep(m) PROVE UNCHANGED disputeVars
  BY <1>2 DEF MeterStep, MeterCheck, MeterLink, MeterAppend
<1>3. ASSUME NEW c \in Closers, CloserStep(c)
      PROVE  \/ UNCHANGED disputeVars
             \/ \E s \in Settles :
                 /\ SplitDeposit(s) /\ UNCHANGED <<opening, marked, disputes, resolving>>
                 /\ \E how \in Payouts : Paid(CloserOn[s], how)
  <2>1. CASE c \in Settles /\ SplitDeposit(c)
    BY <2>1 DEF SplitDeposit, Payouts
  <2> QED BY <1>3, <2>1
          DEF CloserStep, SettleStep, CloserCheck, CheckTransition, WriteTransition,
              MarkDisputed, VerifyChain, ReadTotal, NoFundsHeld, CloseChannel, IssueReceipt
<1>4. ASSUME NEW t \in Txs, NEW d \in Disputes, DisputeCall(d, t)
      PROVE  DisputeStep(d, t) /\ UNCHANGED <<channel_state, meterVars, closerVars>>
  BY <1>4 DEF DisputeCall, DisputeStep, OpeningStep
<1>5. ASSUME UNCHANGED vars PROVE UNCHANGED disputeVars
  BY <1>5 DEF vars
<1> QED BY <1>1, <1>2, <1>3, <1>4, <1>5 DEF Next

LEMMA DisputePart == DisputesTypeOK /\ [Next]_vars => DisputesTypeOK'
<1> SUFFICES ASSUME DisputesTypeOK, [Next]_vars PROVE DisputesTypeOK'
  OBVIOUS
<1>1. CASE UNCHANGED disputeVars
  BY <1>1 DEF disputeVars, DisputesTypeOK
<1>2. CASE \E t \in Txs, d \in Disputes : DisputeStep(d, t)
  BY <1>2, DisputeStepType
<1>3. CASE \E s \in Settles :
              /\ UNCHANGED <<opening, marked, disputes, resolving>>
              /\ \E how \in Payouts : Paid(CloserOn[s], how)
  BY <1>3, CloserKinds DEF Paid, DisputesTypeOK
<1> QED BY <1>1, <1>2, <1>3, DisputeMoves

\* Only settle(), dispute() and the opening of a channel move these.
LEMMA CallPart ==
    ASSUME CallTypes, MeterTypes, [Next]_vars
    PROVE  CallTypes'
<1> USE DEF CallTypes, CallsInPlace
<1>0. CASE UNCHANGED <<channel_state, closerVars>>
  BY <1>0 DEF closerVars
<1>1. ASSUME NEW t \in Txs, OpenStep(t) PROVE CallTypes'
  BY <1>1 DEF OpenStep, RequestChannel, OpenChannel, RefuseChannel, SetChannel,
      ChannelState, closerVars
<1>2. ASSUME NEW c \in Closers, CloserStep(c) PROVE CallTypes'
  <2> USE CloserKinds DEF At, Goto, SetChannel, Position, SettlePosition, FreezePosition
  <2>1. CASE CloserCheck(c)
    BY <2>1 DEF CloserCheck
  <2>2. CASE CheckTransition(c)
    BY <2>2, TransitionTables DEF CheckTransition
  <2>3. CASE WriteTransition(c)
    BY <2>3, TransitionTables DEF WriteTransition
  <2>4. CASE c \in Freezes /\ MarkDisputed(c)
    BY <2>4 DEF MarkDisputed, ChannelState, Target
  <2>5. CASE c \in Settles /\ VerifyChain(c)
    BY <2>5 DEF VerifyChain
  <2>6. CASE c \in Settles /\ ReadTotal(c)
    <3>1. net_total(CloserOn[c]) \in Nat
      BY TotalIsNat DEF MeterTypes
    <3>2. net' \in [Settles -> Nat]
      BY <2>6, <3>1 DEF ReadTotal
    <3> QED BY <2>6, <3>2, TransitionTables DEF ReadTotal
  <2>7. CASE c \in Settles /\ (SplitDeposit(c) \/ NoFundsHeld(c))
    BY <2>7 DEF SplitDeposit, NoFundsHeld
  <2>8. CASE c \in Settles /\ CloseChannel(c)
    BY <2>8 DEF CloseChannel, ChannelState
  <2>9. CASE c \in Settles /\ IssueReceipt(c)
    BY <2>9 DEF IssueReceipt
  <2> QED BY <1>2, <2>1, <2>2, <2>3, <2>4, <2>5, <2>6, <2>7, <2>8, <2>9
          DEF CloserStep, SettleStep
<1>3. ASSUME NEW m \in MeterCalls, MeterStep(m) PROVE UNCHANGED <<channel_state, closerVars>>
  BY <1>3 DEF MeterStep, MeterCheck, MeterLink, MeterAppend
<1>4. ASSUME NEW t \in Txs, NEW d \in Disputes, DisputeCall(d, t)
      PROVE  UNCHANGED <<channel_state, closerVars>>
  BY <1>4 DEF DisputeCall
<1> QED BY <1>0, <1>1, <1>2, <1>3, <1>4 DEF Next, vars

\* Only meter() moves the chains.
LEMMA NoMeterStep ==
    ASSUME [Next]_vars
    PROVE  UNCHANGED meterVars \/ \E m \in MeterCalls : MeterStep(m)
<1>1. ASSUME NEW t \in Txs, OpenStep(t) PROVE UNCHANGED meterVars
  BY <1>1 DEF OpenStep, RequestChannel, OpenChannel, RefuseChannel
<1>2. ASSUME NEW c \in Closers, CloserStep(c) PROVE UNCHANGED meterVars
  BY <1>2 DEF CloserStep, SettleStep, CloserCheck, CheckTransition, WriteTransition,
      MarkDisputed, VerifyChain, ReadTotal, SplitDeposit, NoFundsHeld, CloseChannel,
      IssueReceipt
<1>3. ASSUME NEW t \in Txs, NEW d \in Disputes, DisputeCall(d, t) PROVE UNCHANGED meterVars
  BY <1>3 DEF DisputeCall
<1> QED BY <1>1, <1>2, <1>3 DEF Next, vars

\* The record that meter() appends.
NewRecord(m) ==
    [call |-> m, sequence |-> meter_link[m].sequence, prev |-> meter_link[m].prev]

LEMMA AppendShape ==
    ASSUME MeterTypes, NEW m \in MeterCalls, MeterAppend(m)
    PROVE  /\ MeterOn[m] \in Txs /\ NewRecord(m) \in UsageRecord
           /\ records'[MeterOn[m]] = Append(records[MeterOn[m]], NewRecord(m))
           /\ \A t \in Txs \ {MeterOn[m]} : records'[t] = records[t]
           /\ RecordsOK'
<1>1. NewRecord(m) \in UsageRecord /\ MeterOn[m] \in Txs
  BY CloserKinds DEF MeterTypes, NewRecord, UsageRecord
<1>2. records' = [records EXCEPT ![MeterOn[m]] = Append(@, NewRecord(m))]
  BY DEF MeterAppend, NewRecord
<1>3. Append(records[MeterOn[m]], NewRecord(m)) \in Seq(UsageRecord)
  BY <1>1 DEF MeterTypes, RecordsOK
<1> QED BY <1>1, <1>2, <1>3 DEF MeterTypes, RecordsOK

LEMMA MeterPart ==
    ASSUME MeterTypes, [Next]_vars
    PROVE  MeterTypes'
<1>1. CASE UNCHANGED meterVars
  BY <1>1 DEF meterVars, MeterTypes, RecordsOK, MeteredPositive, InMeter
<1>2. ASSUME NEW m \in MeterCalls, MeterCheck(m) PROVE MeterTypes'
  BY <1>2, CloserKinds
     DEF MeterCheck, MayMeter, MeterGoto, MeterTypes, RecordsOK, MeteredPositive, InMeter
<1>3. ASSUME NEW m \in MeterCalls, MeterLink(m) PROVE MeterTypes'
  <2>1. chain_head(MeterOn[m]) \in MeterCalls \cup {GENESIS_HASH}
    <3>1. MeterOn[m] \in Txs /\ records[MeterOn[m]] \in Seq(UsageRecord)
      BY CloserKinds DEF MeterTypes, RecordsOK
    <3>2. CASE records[MeterOn[m]] # <<>>
      <4>1. records[MeterOn[m]][Len(records[MeterOn[m]])] \in UsageRecord
        BY <3>1, <3>2
      <4> QED BY <3>2, <4>1 DEF chain_head, UsageRecord
    <3> QED BY <3>2 DEF chain_head
  <2>2. Len(records[MeterOn[m]]) \in Nat
    BY CloserKinds, RecordAmounts DEF MeterTypes
  <2> QED BY <1>3, <2>1, <2>2
          DEF MeterLink, MeterGoto, MeterTypes, RecordsOK, MeteredPositive, InMeter
<1>4. ASSUME NEW m \in MeterCalls, MeterAppend(m) PROVE MeterTypes'
  <2>1. RecordsOK' /\ UNCHANGED meter_link
    BY <1>4, AppendShape DEF MeterAppend
  <2>2. /\ meter_pc' \in [MeterCalls -> {"called", "link", "append", "returned", "refused"}]
        /\ \A n \in MeterCalls : InMeter(n)' => InMeter(n)
        /\ MeterAmount[m] > 0
    BY <1>4 DEF MeterAppend, MeterGoto, MeterTypes, InMeter, MeteredPositive
  <2>3. ASSUME NEW t \in Txs, NEW i \in DOMAIN records'[t]
        PROVE  MeterAmount[records'[t][i].call] > 0
    <3>1. CASE t # MeterOn[m]
      BY <1>4, <2>3, <3>1, AppendShape DEF MeterTypes, MeteredPositive
    <3>2. CASE t = MeterOn[m]
      <4>1. /\ Len(records'[t]) = Len(records[t]) + 1
            /\ records'[t][Len(records[t]) + 1] = NewRecord(m)
            /\ Grows(t)
        BY <1>4, <2>1, <3>2, AppendShape, AppendRaisesTotal DEF MeterTypes
      <4>2. /\ DOMAIN records'[t] = 1..(Len(records[t]) + 1) /\ Len(records[t]) \in Nat
            /\ DOMAIN records[t] = 1..Len(records[t])
        BY <2>1, <4>1, RecordAmounts DEF RecordsOK, MeterTypes
      <4>3. CASE i = Len(records[t]) + 1
        BY <2>2, <4>1, <4>3 DEF NewRecord
      <4>4. CASE i \in 1..Len(records[t])
        BY <4>1, <4>2, <4>4 DEF Grows, MeterTypes, MeteredPositive
      <4> QED BY <2>3, <4>2, <4>3, <4>4
    <3> QED BY <3>1, <3>2
  <2> QED BY <2>1, <2>2, <2>3 DEF MeterTypes, MeteredPositive
<1> QED BY <1>1, <1>2, <1>3, <1>4, NoMeterStep DEF MeterStep

LEMMA InitShape == Init => NettingShape
<1> SUFFICES ASSUME Init PROVE NettingShape
  OBVIOUS
<1>1. LedgerInv /\ DisputesTypeOK
  BY LedgerInitInv, DisputesInitType DEF Init
<1>2. CallTypes
  BY CloserKinds
     DEF Init, CallTypes, CallsInPlace, Position, SettlePosition, FreezePosition
<1>3. MeterTypes
  BY DEF Init, MeterTypes, RecordsOK, MeteredPositive, InMeter
<1> QED BY <1>1, <1>2, <1>3, ShapeParts

LEMMA StepShape == NettingShape /\ [Next]_vars => NettingShape'
BY ShapeParts, ShapePartsNext, LedgerPart, DisputePart, CallPart, MeterPart

LEMMA AlwaysShape == Spec => []NettingShape
BY InitShape, StepShape, PTL DEF Spec

\* The state keeps its types and no balance goes below zero, whoever meters,
\* settles, freezes or disputes a channel, and however many at once.
THEOREM NettingTypeCorrect == Spec => []NettingTypeOK
<1>1. NettingShape => NettingTypeOK
  BY DEF NettingShape
<1> QED BY <1>1, AlwaysShape, PTL
-----------------------------------------------------------------------------
(* The ledger that channels use *)

\* The ledger of EscrowLedger whose splits are called with any share at all: a
\* settle() asks for the total of a chain, which no set of shares bounds.
AnyLedger == INSTANCE EscrowLedger WITH ProviderAmounts <- Int

LEMMA AnySplit ==
    ASSUME NEW t \in Txs, NEW p \in Int, split_escrow(t, p)
    PROVE  AnyLedger!split_escrow(t, p)
BY DEF split_escrow, AnyLedger!split_escrow, Take, AnyLedger!Take, InRange,
       AnyLedger!InRange, Restrict, AnyLedger!Restrict

LEMMA AnyLedgerStep ==
    ASSUME [LedgerNext]_ledgerVars
    PROVE  [AnyLedger!LedgerNext]_AnyLedger!ledgerVars
<1> USE DEF ledgerVars, AnyLedger!ledgerVars, moneyVars, AnyLedger!moneyVars,
            Take, AnyLedger!Take, Credit, AnyLedger!Credit, Restrict, AnyLedger!Restrict
<1>1. ASSUME NEW t \in Txs, hold(t) PROVE AnyLedger!hold(t)
  BY <1>1 DEF hold, AnyLedger!hold, MayHold, AnyLedger!MayHold, Total, AnyLedger!Total
<1>2. ASSUME NEW t \in Txs, release(t) PROVE AnyLedger!release(t)
  BY <1>2 DEF release, AnyLedger!release
<1>3. ASSUME NEW t \in Txs, refund_escrow(t) PROVE AnyLedger!refund_escrow(t)
  BY <1>3 DEF refund_escrow, AnyLedger!refund_escrow
<1>4. ASSUME NEW t \in Txs, slash_escrow(t) PROVE AnyLedger!slash_escrow(t)
  BY <1>4 DEF slash_escrow, AnyLedger!slash_escrow
<1>5. ASSUME NEW t \in Txs, NEW s \in TransactionState, WriteState(t, s)
      PROVE  AnyLedger!WriteState(t, s)
  BY <1>5 DEF WriteState, AnyLedger!WriteState
<1>6. TransactionState = AnyLedger!TransactionState /\ ProviderAmounts \subseteq Int
  BY ParameterTypes DEF TransactionState, AnyLedger!TransactionState
<1> QED BY <1>1, <1>2, <1>3, <1>4, <1>5, <1>6, AnySplit
        DEF LedgerNext, AnyLedger!LedgerNext

\* Channels move credits by the ledger's methods alone, each in one step: whatever
\* holds of every caller of EscrowLedger, with any shares, holds of netting.py.
THEOREM NettingImplementsLedger == Spec => AnyLedger!LedgerSpec
<1>1. Init => AnyLedger!LedgerInit
  BY DEF Init, LedgerInit, AnyLedger!LedgerInit
<1>2. NettingShape /\ [Next]_vars => [AnyLedger!LedgerNext]_AnyLedger!ledgerVars
  <2> SUFFICES ASSUME NettingShape, [Next]_vars
               PROVE  [AnyLedger!LedgerNext]_AnyLedger!ledgerVars
    OBVIOUS
  <2>1. CASE [LedgerNext]_ledgerVars
    BY <2>1, AnyLedgerStep
  <2>2. ASSUME NEW s \in Settles, SplitDeposit(s) PROVE AnyLedger!LedgerNext
    BY <2>2, SplitShare, AnySplit DEF AnyLedger!LedgerNext
  <2> QED BY <2>1, <2>2, LedgerMoves
<1> QED BY <1>1, <1>2, AlwaysShape, PTL DEF Spec, AnyLedger!LedgerSpec
-----------------------------------------------------------------------------
(* A channel's deposit, from hold() to one payment *)

Found(t) == channel_state[t] \in ChannelState
PastSplit(s) == pc[s] \in {"close", "receipt", "returned"}

\* A channel that nobody can find yet has no deposit and no records, and no
\* call is on it; one settle() at most is past its split, and the payout is its.
NotYetFound ==
    /\ \A t \in Txs : ~Found(t) => /\ t \notin DOMAIN escrow /\ payout[t] = None
                                   /\ records[t] = <<>>
    /\ \A c \in Closers : pc[c] # "called" => Found(CloserOn[c])
    /\ \A m \in MeterCalls : InMeter(m) => Found(MeterOn[m])

OneSplit ==
    /\ \A s \in Settles : PastSplit(s) => payout[CloserOn[s]] = "split"
    /\ \A r, s \in Settles :
          PastSplit(r) /\ PastSplit(s) /\ CloserOn[r] = CloserOn[s] => r = s
    /\ \A t \in Txs : channel_state[t] = "SETTLED" => payout[t] = "split"
    /\ \A s \in DOMAIN receipts : pc[s] = "returned"

ChannelInv == PaidNotHeld /\ NotYetFound /\ OneSplit

\* The step that holds a deposit is the one that lets the channel be found.
Opens(t) ==
    /\ channel_state[t] = "requested" /\ channel_state'[t] = "OPEN"
    /\ t \notin DOMAIN escrow /\ t \in DOMAIN escrow' /\ payout'[t] = payout[t]

LEMMA NettingStepKinds ==
    ASSUME NettingShape, NotYetFound, [Next]_vars, NEW u \in Txs
    PROVE  Opens(u) \/ ((PaysOut(u) \/ Untouched(u)) /\ (Found(u)' <=> Found(u)))
<1> DEFINE Goal ==
        Opens(u) \/ ((PaysOut(u) \/ Untouched(u)) /\ (Found(u)' <=> Found(u)))
<1>0. CallTypes /\ DisputesTypeOK
  BY ShapeParts
<1>1. ASSUME NEW t \in Txs, OpenStep(t) PROVE Goal
  <2>1. CASE RequestChannel(t) \/ RefuseChannel(t)
    BY <1>0, <2>1 DEF RequestChannel, RefuseChannel, SetChannel, CallTypes, Found,
        ChannelState, Untouched, moneyVars, ledgerVars, disputeVars
  <2>2. CASE OpenChannel(t)
    <3>1. DOMAIN escrow' = DOMAIN escrow \cup {t} /\ t \notin DOMAIN escrow
      BY <2>2 DEF OpenChannel, hold, MayHold
    <3> QED BY <1>0, <2>2, <3>1 DEF OpenChannel, SetChannel, CallTypes, Found,
            ChannelState, Untouched, Opens, disputeVars
  <2> QED BY <1>1, <2>1, <2>2 DEF OpenStep
<1>2. ASSUME NEW m \in MeterCalls, MeterStep(m) PROVE Goal
  BY <1>2 DEF MeterStep, MeterCheck, MeterLink, MeterAppend, Untouched, Found,
      ledgerVars, disputeVars
<1>3. ASSUME NEW c \in Closers, CloserStep(c) PROVE Goal
  <2>1. CASE \/ CloserCheck(c) \/ CheckTransition(c) \/ WriteTransition(c)
             \/ VerifyChain(c) \/ ReadTotal(c) \/ NoFundsHeld(c) \/ IssueReceipt(c)
    BY <2>1 DEF CloserCheck, CheckTransition, WriteTransition, VerifyChain, ReadTotal,
        NoFundsHeld, IssueReceipt, WriteState, moneyVars, Untouched, Found, ledgerVars,
        disputeVars
  <2>2. CASE c \in Freezes /\ MarkDisputed(c)
    BY <1>0, <2>2, CloserKinds
       DEF MarkDisputed, SetChannel, At, NotYetFound, CallTypes, Found, ChannelState, Untouched,
        ledgerVars, disputeVars
  <2>3. CASE c \in Settles /\ CloseChannel(c)
    BY <1>0, <2>3, CloserKinds
       DEF CloseChannel, SetChannel, At, NotYetFound, CallTypes, Found, ChannelState, Untouched,
        ledgerVars, disputeVars
  <2>4. CASE c \in Settles /\ SplitDeposit(c)
    <3>1. /\ Take(CloserOn[c]) /\ \E how \in Payouts : Paid(CloserOn[c], how)
          /\ UNCHANGED channel_state
      BY <2>4 DEF SplitDeposit, split_escrow, Payouts
    <3> QED BY <1>0, <3>1, TakeIsLocal, CloserKinds DEF Found
  <2> QED BY <1>3, <2>1, <2>2, <2>3, <2>4 DEF CloserStep, SettleStep
<1>4. ASSUME NEW t \in Txs, NEW d \in Disputes, DisputeCall(d, t) PROVE Goal
  <2>1. DisputeStep(d, t) /\ UNCHANGED channel_state
    BY <1>4 DEF DisputeCall, DisputeStep, OpeningStep
  <2> QED BY <1>0, <2>1, DisputeStepKinds DEF Found
<1>5. ASSUME UNCHANGED vars PROVE Goal
  BY <1>5 DEF vars, Untouched, Found, ledgerVars, disputeVars
<1> QED BY <1>1, <1>2, <1>3, <1>4, <1>5 DEF Next

\* A payout, once made, stays, and nothing is held after it.
LEMMA NettingPayouts ==
    ASSUME NettingShape, PaidNotHeld, NotYetFound, [Next]_vars
    PROVE  PayoutsStay /\ PaidNotHeld'
<1> SUFFICES ASSUME NEW u \in Txs
             PROVE  /\ payout[u] # None => payout'[u] = payout[u]
                    /\ payout'[u] # None => u \notin DOMAIN escrow'
  BY DEF PayoutsStay, PaidNotHeld
<1>1. Opens(u) \/ PaysOut(u) \/ Untouched(u)
  BY NettingStepKinds
<1>2. payout[u] # None => u \notin DOMAIN escrow
  BY DEF PaidNotHeld
<1>3. Opens(u) => payout[u] = None
  BY DEF Opens, NotYetFound, Found, ChannelState
<1> QED BY <1>1, <1>2, <1>3 DEF Opens, PaysOut, Untouched

\* Every chain only grows.
LEMMA ChainsGrow ==
    ASSUME MeterTypes, [Next]_vars, NEW t \in Txs
    PROVE  Grows(t)
<1>0. Len(records[t]) \in Nat
  BY RecordAmounts DEF MeterTypes
<1>1. CASE records'[t] = records[t]
  BY <1>0, <1>1 DEF Grows
<1>2. ASSUME NEW m \in MeterCalls, MeterAppend(m), t = MeterOn[m] PROVE Grows(t)
  BY <1>2, AppendShape, AppendRaisesTotal DEF MeterTypes
<1>3. ASSUME NEW m \in MeterCalls, MeterAppend(m), t # MeterOn[m]
      PROVE  records'[t] = records[t]
  BY <1>3, AppendShape
<1>4. ASSUME NEW m \in MeterCalls, MeterCheck(m) \/ MeterLink(m) PROVE UNCHANGED records
  BY <1>4 DEF MeterCheck, MeterLink
<1> QED BY <1>1, <1>2, <1>3, <1>4, NoMeterStep DEF MeterStep, meterVars

LEMMA StepNotYetFound ==
    ASSUME NettingShape, PaidNotHeld, NotYetFound, [Next]_vars
    PROVE  NotYetFound'
<1>0. CallTypes /\ MeterTypes /\ DisputesTypeOK
  BY ShapeParts
<1>1. \A t \in Txs : Found(t) => Found(t)'
  BY NettingStepKinds DEF Opens, Found, ChannelState
<1>2. ASSUME NEW t \in Txs, ~Found(t)'
      PROVE  t \notin DOMAIN escrow' /\ payout'[t] = None
  BY <1>1, <1>2, NettingStepKinds DEF Opens, PaysOut, Untouched, NotYetFound, Found,
      ChannelState
<1>3. ASSUME NEW t \in Txs, ~Found(t)' PROVE records'[t] = <<>>
  <2>1. ~Found(t) /\ records[t] = <<>>
    BY <1>1, <1>3 DEF NotYetFound
  <2>2. ASSUME NEW m \in MeterCalls, MeterStep(m) PROVE records'[t] = records[t]
    <3>1. CASE MeterAppend(m)
      <4>1. Found(MeterOn[m])
        BY <3>1 DEF MeterAppend, InMeter, NotYetFound
      <4> QED BY <1>0, <2>1, <3>1, <4>1, AppendShape
    <3> QED BY <2>2, <3>1 DEF MeterStep, MeterCheck, MeterLink
  <2> QED BY <2>1, <2>2, NoMeterStep DEF meterVars
<1>4. ASSUME NEW c \in Closers, pc'[c] # "called" PROVE Found(CloserOn[c])'
  <2>1. CASE pc[c] # "called"
    BY <1>1, <2>1, CloserKinds DEF NotYetFound
  <2>2. ASSUME pc[c] = "called" PROVE CloserCheck(c)
    <3>1. ASSUME NEW b \in Closers, CloserStep(b) PROVE b = c
      BY <1>0, <1>4, <2>2, <3>1
         DEF CloserStep, SettleStep, CloserCheck, CheckTransition, WriteTransition,
             MarkDisputed, VerifyChain, ReadTotal, SplitDeposit, NoFundsHeld,
             CloseChannel, IssueReceipt, Goto, CallTypes
    <3>2. ASSUME NEW t \in Txs, OpenStep(t) PROVE UNCHANGED pc
      BY <3>2 DEF OpenStep, RequestChannel, OpenChannel, RefuseChannel, closerVars
    <3>3. ASSUME NEW m \in MeterCalls, MeterStep(m) PROVE UNCHANGED pc
      BY <3>3 DEF MeterStep, MeterCheck, MeterLink, MeterAppend, closerVars
    <3>4. ASSUME NEW t \in Txs, NEW d \in Disputes, DisputeCall(d, t) PROVE UNCHANGED pc
      BY <3>4 DEF DisputeCall, closerVars
    <3>5. CloserStep(c)
      BY <1>4, <2>2, <3>1, <3>2, <3>3, <3>4 DEF Next, vars, closerVars
    <3>6. "called" \notin DOMAIN Target /\ pending[c] = None
      BY <1>0, <2>2, TransitionTables DEF CallTypes, CallsInPlace
    <3> QED BY <2>2, <3>5, <3>6
            DEF CloserStep, SettleStep, CheckTransition, WriteTransition, MarkDisputed,
                VerifyChain, ReadTotal, SplitDeposit, NoFundsHeld, CloseChannel,
                IssueReceipt, At
  <2> QED BY <1>1, <2>1, <2>2, CloserKinds DEF CloserCheck, Found
<1>5. ASSUME NEW m \in MeterCalls, InMeter(m)' PROVE Found(MeterOn[m])'
  <2>1. CASE InMeter(m)
    BY <1>1, <2>1, CloserKinds DEF NotYetFound
  <2>2. ASSUME ~InMeter(m) PROVE Found(MeterOn[m])
    BY <1>0, <1>5, <2>2, NoMeterStep
       DEF MeterStep, MeterCheck, MeterLink, MeterAppend, MeterGoto, InMeter, MeterTypes,
           meterVars, Found
  <2> QED BY <1>1, <2>1, <2>2, CloserKinds
<1> QED BY <1>2, <1>3, <1>4, <1>5 DEF NotYetFound

LEMMA StepOneSplit ==
    ASSUME NettingShape, ChannelInv, [Next]_vars
    PROVE  OneSplit'
<1>0. CallTypes /\ DisputesTypeOK
  BY ShapeParts
<1>a. \A t \in Txs : payout[t] = "split" => payout'[t] = "split"
  BY NettingPayouts DEF ChannelInv, PayoutsStay, None
<1> USE <1>0, <1>a, CloserKinds DEF OneSplit, PastSplit
<1>b. ChannelInv => OneSplit
  BY DEF ChannelInv
<1>1. ASSUME UNCHANGED closerVars,
             \A t \in Txs : channel_state'[t] = "SETTLED" => channel_state[t] = "SETTLED"
      PROVE  OneSplit'
  BY <1>1, <1>b DEF closerVars
<1>2. ASSUME NEW t \in Txs, OpenStep(t) PROVE OneSplit'
  BY <1>1, <1>2
     DEF OpenStep, RequestChannel, OpenChannel, RefuseChannel, SetChannel, CallTypes
<1>3. ASSUME NEW m \in MeterCalls, MeterStep(m) PROVE OneSplit'
  BY <1>1, <1>3 DEF MeterStep, MeterCheck, MeterLink, MeterAppend
<1>4. ASSUME NEW t \in Txs, NEW d \in Disputes, DisputeCall(d, t) PROVE OneSplit'
  BY <1>1, <1>4 DEF DisputeCall
<1>5. ASSUME NEW c \in Closers, CloserStep(c) PROVE OneSplit'
  <2> USE <1>b DEF Goto, At, CallTypes
  <2>1. CASE CloserCheck(c)
    BY <2>1 DEF CloserCheck
  <2>2. CASE CheckTransition(c)
    BY <2>2, TransitionTables DEF CheckTransition
  <2>3. CASE WriteTransition(c)
    <3>1. pc'[c] = After[pc[c]] /\ pc[c] \in DOMAIN Target
      BY <2>3 DEF WriteTransition, CallsInPlace
    <3>2. pc'[c] \notin {"close", "receipt", "returned"} /\ pc[c] # "returned"
      BY <3>1 DEF After, Target
    <3> QED BY <2>3, <3>2 DEF WriteTransition
  <2>4. CASE c \in Freezes /\ MarkDisputed(c)
    BY <2>4 DEF MarkDisputed, SetChannel
  <2>5. CASE c \in Settles /\ (VerifyChain(c) \/ ReadTotal(c) \/ NoFundsHeld(c))
    BY <2>5 DEF VerifyChain, ReadTotal, NoFundsHeld
  <2>6. CASE c \in Settles /\ SplitDeposit(c)
    <3>1. payout[CloserOn[c]] = None /\ UNCHANGED <<channel_state, receipts>>
      BY <2>6 DEF SplitDeposit, split_escrow, Take, ChannelInv, PaidNotHeld
    <3>2. \A s \in Settles : CloserOn[s] = CloserOn[c] => ~PastSplit(s)
      BY <3>1 DEF None
    <3>3. \/ pc' = [pc EXCEPT ![c] = "close"] /\ payout'[CloserOn[c]] = "split"
          \/ pc' = [pc EXCEPT ![c] = "raised"]
      BY <2>6 DEF SplitDeposit, Paid, DisputesTypeOK
    <3>4. pc[c] = "split"
      BY <2>6 DEF SplitDeposit
    <3> QED BY <2>6, <3>1, <3>2, <3>3, <3>4
  <2>7. CASE c \in Settles /\ CloseChannel(c)
    BY <2>7 DEF CloseChannel, SetChannel
  <2>8. CASE c \in Settles /\ IssueReceipt(c)
    BY <2>8 DEF IssueReceipt
  <2> QED BY <1>5, <2>1, <2>2, <2>3, <2>4, <2>5, <2>6, <2>7, <2>8
          DEF CloserStep, SettleStep
<1>6. ASSUME UNCHANGED vars PROVE OneSplit'
  BY <1>1, <1>6 DEF vars
<1> QED BY <1>2, <1>3, <1>4, <1>5, <1>6 DEF Next

LEMMA InitChannelInv == Init => ChannelInv
<1> SUFFICES ASSUME Init PROVE ChannelInv
  OBVIOUS
<1> QED BY CloserKinds DEF Init, LedgerInit, DisputesInit, ChannelInv, PaidNotHeld,
           NotYetFound, OneSplit, PastSplit, Found, ChannelState, InMeter

LEMMA AlwaysChannelInv == Spec => []ChannelInv
<1>1. NettingShape /\ ChannelInv /\ [Next]_vars => ChannelInv'
  BY NettingPayouts, StepNotYetFound, StepOneSplit DEF ChannelInv
<1> QED BY <1>1, InitChannelInv, AlwaysShape, PTL DEF Spec

\* A total that settle() has read is the sum of a prefix of the chain, and a
\* receipt's is a prefix of the records it counts.
Totalled(s) ==
    pc[s] \in {"to_running", "to_delivered", "to_verified", "to_split_state", "split",
               "close", "receipt", "returned"}

TotalsArePrefixes ==
    /\ \A s \in Settles : Totalled(s) =>
          \E k \in 0..Len(records[CloserOn[s]]) : net[s] = PrefixTotal(CloserOn[s], k)
    /\ \A s \in DOMAIN receipts :
          /\ receipts[s].tasks_metered \in 0..Len(records[CloserOn[s]])
          /\ \E k \in 0..receipts[s].tasks_metered :
                receipts[s].net_to_provider = PrefixTotal(CloserOn[s], k)

\* A settle() gets its total by reading it, and keeps it; and a receipt by
\* issuing it, and keeps that.
LEMMA TotalsKept ==
    ASSUME CallTypes, [Next]_vars, NEW s \in Settles
    PROVE  /\ Totalled(s)' => ReadTotal(s) \/ (Totalled(s) /\ net'[s] = net[s])
           /\ s \in DOMAIN receipts' =>
                 IssueReceipt(s) \/ (s \in DOMAIN receipts /\ receipts'[s] = receipts[s])
<1> DEFINE Goal ==
        /\ Totalled(s)' => ReadTotal(s) \/ (Totalled(s) /\ net'[s] = net[s])
        /\ s \in DOMAIN receipts' =>
              IssueReceipt(s) \/ (s \in DOMAIN receipts /\ receipts'[s] = receipts[s])
<1> USE CloserKinds DEF Totalled
<1>1. ASSUME UNCHANGED closerVars PROVE Goal
  BY <1>1 DEF closerVars
<1>2. ASSUME NEW t \in Txs, OpenStep(t) PROVE Goal
  BY <1>1, <1>2 DEF OpenStep, RequestChannel, OpenChannel, RefuseChannel
<1>3. ASSUME NEW m \in MeterCalls, MeterStep(m) PROVE Goal
  BY <1>1, <1>3 DEF MeterStep, MeterCheck, MeterLink, MeterAppend
<1>4. ASSUME NEW t \in Txs, NEW d \in Disputes, DisputeCall(d, t) PROVE Goal
  BY <1>1, <1>4 DEF DisputeCall
<1>5. ASSUME NEW c \in Closers, CloserStep(c) PROVE Goal
  <2> USE DEF Goto, At, CallTypes, CallsInPlace
  <2>1. CASE CloserCheck(c)
    BY <2>1 DEF CloserCheck
  <2>2. CASE CheckTransition(c)
    BY <2>2, TransitionTables DEF CheckTransition
  <2>3. CASE WriteTransition(c)
    <3>1. /\ pc' = [pc EXCEPT ![c] = After[pc[c]]] /\ pc[c] \in DOMAIN Target
          /\ UNCHANGED <<net, receipts>>
      BY <2>3 DEF WriteTransition
    <3>2. c \in Settles => Totalled(c)
      BY <3>1, TransitionTables DEF SettlePosition, FreezePosition
    <3> QED BY <3>1, <3>2
  <2>4. CASE c \in Freezes /\ MarkDisputed(c)
    BY <2>4 DEF MarkDisputed
  <2>5. CASE c \in Settles /\ (VerifyChain(c) \/ NoFundsHeld(c) \/ SplitDeposit(c)
                                 \/ CloseChannel(c))
    BY <2>5 DEF VerifyChain, NoFundsHeld, SplitDeposit, CloseChannel
  <2>6. CASE c \in Settles /\ ReadTotal(c)
    <3>1. CASE c = s
      BY <2>6, <3>1 DEF ReadTotal
    <3>2. CASE c # s
      BY <2>6, <3>2 DEF ReadTotal
    <3> QED BY <3>1, <3>2
  <2>7. CASE c \in Settles /\ IssueReceipt(c)
    <3>1. CASE c = s
      BY <2>7, <3>1 DEF IssueReceipt
    <3>2. CASE c # s
      BY <2>7, <3>2 DEF IssueReceipt
    <3> QED BY <3>1, <3>2
  <2> QED BY <1>5, <2>1, <2>2, <2>3, <2>4, <2>5, <2>6, <2>7 DEF CloserStep, SettleStep
<1>6. ASSUME UNCHANGED vars PROVE Goal
  BY <1>1, <1>6 DEF vars
<1> QED BY <1>2, <1>3, <1>4, <1>5, <1>6 DEF Next

LEMMA StepTotalsArePrefixes ==
    ASSUME NettingShape, TotalsArePrefixes, [Next]_vars
    PROVE  TotalsArePrefixes'
<1>0. CallTypes /\ MeterTypes /\ MeterTypes'
  BY ShapeParts, MeterPart
<1>1. ASSUME NEW t \in Txs
      PROVE  /\ Len(records[t]) \in Nat /\ Len(records'[t]) \in Nat
             /\ Len(records[t]) <= Len(records'[t])
             /\ \A k \in 0..Len(records[t]) : PrefixTotal(t, k)' = PrefixTotal(t, k)
  <2>1. Grows(t) /\ RecordsOK /\ RecordsOK'
    BY <1>0, ChainsGrow DEF MeterTypes
  <2>2. records[t] \in Seq(UsageRecord) /\ records'[t] \in Seq(UsageRecord)
    BY <2>1 DEF RecordsOK
  <2>3. /\ Len(records[t]) \in Nat /\ Len(records'[t]) \in Nat
        /\ Len(records[t]) <= Len(records'[t])
    BY <2>1, <2>2 DEF Grows
  <2>4. ASSUME NEW k \in 0..Len(records[t])
        PROVE  PrefixTotal(t, k)' = PrefixTotal(t, k)
    BY <2>1, PrefixesStay
  <2> QED BY <2>3, <2>4
<1>2. ASSUME NEW s \in Settles, Totalled(s)'
      PROVE  \E k \in 0..Len(records'[CloserOn[s]]) :
                net'[s] = PrefixTotal(CloserOn[s], k)'
  <2>1. CASE ReadTotal(s)
    <3>1. net'[s] = PrefixTotal(CloserOn[s], Len(records[CloserOn[s]])) /\ UNCHANGED records
      BY <1>0, <2>1, CloserKinds, TotalIsPrefix
         DEF ReadTotal, CallTypes, MeterTypes, meterVars
    <3> QED BY <1>1, <3>1, CloserKinds
  <2>2. CASE Totalled(s) /\ net'[s] = net[s]
    <3>1. PICK k \in 0..Len(records[CloserOn[s]]) : net[s] = PrefixTotal(CloserOn[s], k)
      BY <2>2 DEF TotalsArePrefixes
    <3> QED BY <1>1, <2>2, <3>1, CloserKinds
  <2> QED BY <1>0, <1>2, <2>1, <2>2, TotalsKept
<1>3. ASSUME NEW s \in DOMAIN receipts'
      PROVE  /\ receipts'[s].tasks_metered \in 0..Len(records'[CloserOn[s]])
             /\ \E k \in 0..receipts'[s].tasks_metered :
                   receipts'[s].net_to_provider = PrefixTotal(CloserOn[s], k)'
  <2>0. s \in Settles
    BY <1>0, CallPart DEF CallTypes
  <2>1. CASE IssueReceipt(s)
    <3>1. /\ receipts'[s] = [net_to_provider |-> net[s],
                             tasks_metered |-> Len(records[CloserOn[s]])]
          /\ UNCHANGED records /\ Totalled(s)
      BY <2>1 DEF IssueReceipt, At, Totalled, meterVars
    <3>2. PICK k \in 0..Len(records[CloserOn[s]]) : net[s] = PrefixTotal(CloserOn[s], k)
      BY <2>0, <3>1 DEF TotalsArePrefixes
    <3> QED BY <1>1, <2>0, <3>1, <3>2, CloserKinds
  <2>2. CASE s \in DOMAIN receipts /\ receipts'[s] = receipts[s]
    <3>1. receipts[s].tasks_metered \in 0..Len(records[CloserOn[s]])
      BY <2>2 DEF TotalsArePrefixes
    <3>2. PICK k \in 0..receipts[s].tasks_metered :
             receipts[s].net_to_provider = PrefixTotal(CloserOn[s], k)
      BY <2>2 DEF TotalsArePrefixes
    <3>3. k \in 0..Len(records[CloserOn[s]])
      BY <1>1, <2>0, <3>1, CloserKinds
    <3> QED BY <1>1, <2>0, <2>2, <3>1, <3>2, <3>3, CloserKinds
  <2> QED BY <1>0, <2>0, <2>1, <2>2, TotalsKept
<1> QED BY <1>2, <1>3 DEF TotalsArePrefixes

LEMMA AlwaysTotalsArePrefixes == Spec => []TotalsArePrefixes
<1>1. Init => TotalsArePrefixes
  BY DEF Init, TotalsArePrefixes, Totalled, Closers
<1>2. NettingShape /\ TotalsArePrefixes /\ [Next]_vars => TotalsArePrefixes'
  BY StepTotalsArePrefixes
<1> QED BY <1>1, <1>2, AlwaysShape, PTL DEF Spec

\* However its calls race, a channel pays once: a SETTLED channel was paid by a
\* split, one settle() returns its receipt, and for records that it had seen.
THEOREM ChannelPaysOnce == Spec => []SettledPaysOnce
<1>1. NettingShape /\ ChannelInv /\ TotalsArePrefixes => SettledPaysOnce
  BY DEF ChannelInv, OneSplit, PastSplit, TotalsArePrefixes, SettledPaysOnce,
         NettingShape, NettingTypeOK
<1> QED BY <1>1, AlwaysShape, AlwaysChannelInv, AlwaysTotalsArePrefixes, PTL
-----------------------------------------------------------------------------
(* A chain that one thread meters *)

\* Of one channel's calls one at a time is between its check and its append;
\* what it has read is still the end of the chain when it appends; and what it
\* adds still fits.
OneMeters ==
    \A m, n \in MeterCalls :
        InMeter(m) /\ InMeter(n) /\ MeterOn[m] = MeterOn[n] => m = n
LinkIsEnd ==
    \A m \in MeterCalls : meter_pc[m] = "append" =>
        meter_link[m] = [sequence |-> Len(records[MeterOn[m]]),
                         prev |-> chain_head(MeterOn[m])]
AmountFits ==
    \A m \in MeterCalls : InMeter(m) =>
        net_total(MeterOn[m]) + MeterAmount[m] <= spendable(MeterOn[m])

\* A channel is found only when its deposit and its fee were accepted.
Accepted(t) == Deposit[t] > 0 /\ ~FeeRefused(ChannelPolicy, Deposit[t])
OnlyAccepted ==
    \A t \in Txs : channel_state[t] = "requested" \/ Found(t) => Accepted(t)

ChainInv ==
    OneMeters /\ LinkIsEnd /\ AmountFits /\ OnlyAccepted /\ ChainIntact /\ DepositCovers

\* What an accepted deposit leaves for the provider is the transaction's price.
LEMMA AcceptedPrice ==
    ASSUME NEW t \in Txs
    PROVE  /\ spendable(t) \in Int
           /\ Accepted(t) => Amount[t] = spendable(t) /\ spendable(t) \in Nat
<1>1. Deposit[t] \in Nat /\ Fee[t] \in Nat /\ Fee[t] = fee_for(ChannelPolicy, Deposit[t])
  BY ChannelParameters, ParameterTypes
<1>2. Accepted(t) => Fee[t] < Deposit[t] /\ Amount[t] = Deposit[t] - Fee[t]
  BY <1>1, ChannelParameters DEF Accepted, FeeRefused
<1> QED BY <1>1, <1>2 DEF spendable

LEMMA SameTotal ==
    ASSUME NEW t \in Txs, records'[t] = records[t]
    PROVE  /\ net_total(t)' = net_total(t) /\ chain_head(t)' = chain_head(t)
           /\ verify_chain(t)' = verify_chain(t)
BY DEF net_total, chain_head, verify_chain

\* The channels that can be found, and their deposits.
LEMMA StepAccepted ==
    ASSUME NettingShape, ChannelInv, OnlyAccepted, [Next]_vars
    PROVE  OnlyAccepted'
<1>0. CallTypes
  BY ShapeParts
<1> SUFFICES ASSUME NEW u \in Txs, channel_state'[u] = "requested" \/ Found(u)'
             PROVE  Accepted(u)
  BY DEF OnlyAccepted, Accepted
<1>1. CASE Found(u)'
  <2>1. Found(u) \/ channel_state[u] = "requested"
    BY <1>1, NettingStepKinds DEF ChannelInv, Opens
  <2> QED BY <2>1 DEF OnlyAccepted
<1>2. ASSUME channel_state'[u] = "requested", channel_state[u] # "requested"
      PROVE  RequestChannel(u)
  <2>1. ASSUME NEW t \in Txs, OpenStep(t) PROVE RequestChannel(u)
    BY <1>0, <1>2, <2>1
       DEF OpenStep, RequestChannel, OpenChannel, RefuseChannel, SetChannel, CallTypes
  <2>2. ASSUME NEW c \in Closers, CloserStep(c) PROVE FALSE
    BY <1>0, <1>2, <2>2
       DEF CloserStep, SettleStep, CloserCheck, CheckTransition, WriteTransition,
           MarkDisputed, VerifyChain, ReadTotal, SplitDeposit, NoFundsHeld, CloseChannel,
           IssueReceipt, SetChannel, CallTypes
  <2>3. ASSUME NEW m \in MeterCalls, MeterStep(m) PROVE FALSE
    BY <1>2, <2>3 DEF MeterStep, MeterCheck, MeterLink, MeterAppend
  <2>4. ASSUME NEW t \in Txs, NEW d \in Disputes, DisputeCall(d, t) PROVE FALSE
    BY <1>2, <2>4 DEF DisputeCall
  <2> QED BY <1>2, <2>1, <2>2, <2>3, <2>4 DEF Next, vars
<1> QED BY <1>1, <1>2 DEF OnlyAccepted, RequestChannel, Accepted

\* A step that is not a call's leaves the chains, and lets a channel be found
\* only with its deposit unspent.
LEMMA OtherStepChain ==
    ASSUME NettingShape, ChannelInv, ChainInv, OnlyAccepted', [Next]_vars,
           UNCHANGED meterVars
    PROVE  ChainInv'
<1>0. MeterTypes /\ UNCHANGED <<records, meter_pc, meter_link>>
  BY ShapeParts DEF meterVars
<1>1. \A t \in Txs : /\ net_total(t)' = net_total(t) /\ chain_head(t)' = chain_head(t)
                     /\ verify_chain(t)' = verify_chain(t)
  BY <1>0, SameTotal
<1>2. OneMeters' /\ LinkIsEnd' /\ AmountFits' /\ ChainIntact'
  BY <1>0, <1>1, CloserKinds
     DEF ChainInv, OneMeters, LinkIsEnd, AmountFits, ChainIntact, InMeter, spendable
<1>3. ASSUME NEW t \in Txs, Found(t)' PROVE net_total(t) <= spendable(t)
  <2>1. CASE Found(t)
    BY <2>1 DEF ChainInv, DepositCovers, Found
  <2>2. CASE ~Found(t)
    <3>1. records[t] = <<>> /\ RecordsOK
      BY <1>0, <2>2 DEF ChannelInv, NotYetFound, MeterTypes
    <3>2. DOMAIN records[t] = {}
      BY <3>1
    <3>3. net_total(t) = 0
      <4>1. [i \in DOMAIN records[t] |-> MeterAmount[records[t][i].call]] = [i \in {} |-> 0]
        BY <3>2
      <4>2. IsFiniteSet({})
        BY FS_EmptySet
      <4> QED BY <3>2, <4>1, <4>2, SumZero DEF net_total
    <3>4. spendable(t) \in Nat
      BY <1>3, AcceptedPrice DEF OnlyAccepted, Accepted
    <3> QED BY <3>3, <3>4
  <2> QED BY <2>1, <2>2
<1>4. DepositCovers'
  BY <1>1, <1>3 DEF DepositCovers, Found, spendable
<1> QED BY <1>2, <1>4 DEF ChainInv

\* The steps of meter() keep the chain, when one thread meters each channel.
LEMMA MeterStepChain ==
    ASSUME OneThreadPerChannel, NettingShape, ChannelInv, ChainInv, OnlyAccepted',
           NEW m \in MeterCalls, MeterStep(m)
    PROVE  ChainInv'
<1>0. MeterTypes /\ UNCHANGED channel_state /\ MeterOn[m] \in Txs
  BY ShapeParts, CloserKinds DEF MeterStep, MeterCheck, MeterLink, MeterAppend
<1>a. /\ meter_pc \in [MeterCalls -> {"called", "link", "append", "returned", "refused"}]
      /\ meter_link \in [MeterCalls -> [sequence : Nat,
                                        prev : MeterCalls \cup {GENESIS_HASH}]]
  BY <1>0 DEF MeterTypes
<1>b. \A n \in MeterCalls : MeterOn[n] \in Txs
  BY CloserKinds
<1>c. ASSUME UNCHANGED records
      PROVE  /\ \A t \in Txs : /\ net_total(t)' = net_total(t)
                               /\ chain_head(t)' = chain_head(t)
             /\ ChainIntact' /\ DepositCovers'
  <2>1. \A t \in Txs : /\ net_total(t)' = net_total(t) /\ chain_head(t)' = chain_head(t)
                       /\ verify_chain(t)' = verify_chain(t)
    BY <1>c, SameTotal
  <2> QED BY <1>0, <2>1 DEF ChainInv, ChainIntact, DepositCovers, spendable
<1>1. CASE MeterCheck(m)
  <2>1. UNCHANGED <<records, meter_link>>
    BY <1>1 DEF MeterCheck
  <2>2. /\ \A n \in MeterCalls \ {m} : meter_pc'[n] = meter_pc[n]
        /\ meter_pc'[m] \in {"link", "refused"}
        /\ meter_pc'[m] = "link" => MayMeter(m)
    BY <1>a, <1>1 DEF MeterCheck, MeterGoto
  <2>3. \A n \in MeterCalls : MeterOn[n] = MeterOn[m] => ~InMeter(n)
    BY <1>1 DEF OneThreadPerChannel, MeterCheck, ThreadFree
  <2>4. OneMeters' /\ LinkIsEnd'
    BY <1>b, <1>c, <2>1, <2>2, <2>3 DEF ChainInv, OneMeters, LinkIsEnd, InMeter
  <2>5. AmountFits'
    BY <1>b, <1>c, <2>1, <2>2 DEF ChainInv, AmountFits, InMeter, MayMeter, spendable
  <2> QED BY <1>c, <2>1, <2>4, <2>5 DEF ChainInv
<1>2. CASE MeterLink(m)
  <2>1. UNCHANGED records
    BY <1>2 DEF MeterLink
  <2>2. /\ \A n \in MeterCalls \ {m} : /\ meter_pc'[n] = meter_pc[n]
                                       /\ meter_link'[n] = meter_link[n]
        /\ meter_pc[m] = "link" /\ meter_pc'[m] = "append"
        /\ meter_link'[m] = [sequence |-> Len(records[MeterOn[m]]),
                             prev |-> chain_head(MeterOn[m])]
    BY <1>a, <1>2 DEF MeterLink, MeterGoto
  <2>3. OneMeters' /\ LinkIsEnd'
    BY <1>b, <1>c, <2>1, <2>2 DEF ChainInv, OneMeters, LinkIsEnd, InMeter
  <2>4. AmountFits'
    BY <1>b, <1>c, <2>1, <2>2 DEF ChainInv, AmountFits, InMeter, spendable
  <2> QED BY <1>c, <2>1, <2>3, <2>4 DEF ChainInv
<1>3. CASE MeterAppend(m)
  <2> DEFINE u == MeterOn[m]
             l == Len(records[u])
  <2>1. /\ \A n \in MeterCalls \ {m} : meter_pc'[n] = meter_pc[n]
        /\ meter_pc[m] = "append" /\ meter_pc'[m] = "returned"
        /\ UNCHANGED meter_link
    BY <1>a, <1>3 DEF MeterAppend, MeterGoto
  <2>2. /\ NewRecord(m) \in UsageRecord /\ RecordsOK /\ RecordsOK'
        /\ records'[u] = Append(records[u], NewRecord(m))
        /\ \A t \in Txs \ {u} : records'[t] = records[t]
    BY <1>0, <1>3, AppendShape DEF MeterTypes
  <2>3. NewRecord(m) = [call |-> m, sequence |-> l, prev |-> chain_head(u)]
    <3>1. meter_link[m] = [sequence |-> l, prev |-> chain_head(u)]
      BY <2>1 DEF ChainInv, LinkIsEnd
    <3> HIDE DEF l, u
    <3> QED BY <3>1 DEF NewRecord
  <2>4. /\ Grows(u) /\ Len(records'[u]) = l + 1 /\ records'[u][l + 1] = NewRecord(m)
        /\ net_total(u)' = net_total(u) + MeterAmount[m]
    BY <1>0, <2>2, <2>3, AppendRaisesTotal
  <2>5. \A n \in MeterCalls \ {m} : InMeter(n) => MeterOn[n] # u
    BY <2>1 DEF ChainInv, OneMeters, InMeter
  <2>6. \A t \in Txs \ {u} : /\ net_total(t)' = net_total(t)
                             /\ chain_head(t)' = chain_head(t)
                             /\ verify_chain(t)' = verify_chain(t)
    BY <2>2, SameTotal
  <2>7. OneMeters' /\ LinkIsEnd' /\ AmountFits'
    <3>1. \A n \in MeterCalls : InMeter(n)' => InMeter(n) /\ n # m /\ MeterOn[n] \in Txs \ {u}
      BY <1>b, <2>1, <2>5 DEF InMeter
    <3>2. \A n \in MeterCalls : meter_pc'[n] = "append" =>
             meter_pc[n] = "append" /\ MeterOn[n] \in Txs \ {u}
      BY <2>1, <3>1 DEF InMeter
    <3>3. OneMeters'
      BY <3>1 DEF ChainInv, OneMeters
    <3>4. LinkIsEnd'
      BY <2>1, <2>2, <2>6, <3>2 DEF ChainInv, LinkIsEnd
    <3>5. AmountFits'
      BY <2>6, <3>1 DEF ChainInv, AmountFits, spendable
    <3> QED BY <3>3, <3>4, <3>5
  <2>8. verify_chain(u)'
    <3>1. l \in Nat /\ DOMAIN records[u] = 1..l /\ DOMAIN records'[u] = 1..(l + 1)
      BY <1>0, <2>2, <2>4, RecordAmounts DEF RecordsOK
    <3>2. \A i \in 1..l : records'[u][i] = records[u][i]
      BY <2>4 DEF Grows
    <3>3. /\ records'[u][l + 1].sequence = l
          /\ records'[u][l + 1].prev = chain_head(u)
      BY <2>3, <2>4
    <3>4. chain_head(u) = IF l = 0 THEN GENESIS_HASH ELSE records[u][l].call
      BY <1>0, <2>2, <3>1 DEF chain_head, RecordsOK
    <3>5. verify_chain(u)
      BY <1>0 DEF ChainInv, ChainIntact
    <3> HIDE DEF l, u
    <3>6. ASSUME NEW i \in 1..(l + 1)
          PROVE  /\ records'[u][i].sequence = i - 1
                 /\ records'[u][i].prev = IF i = 1 THEN GENESIS_HASH
                                                   ELSE records'[u][i - 1].call
      <4>1. CASE i = l + 1
        <5>1. records'[u][i].sequence = i - 1 /\ records'[u][i].prev = chain_head(u)
          BY <3>1, <3>3, <4>1
        <5>2. CASE l = 0
          BY <3>4, <4>1, <5>1, <5>2
        <5>3. CASE l # 0
          <6>1. i # 1 /\ i - 1 = l /\ l \in 1..l
            BY <3>1, <4>1, <5>3
          <6> QED BY <3>2, <3>4, <5>1, <5>3, <6>1
        <5> QED BY <5>2, <5>3
      <4>2. CASE i \in 1..l
        <5>1. /\ records[u][i].sequence = i - 1
              /\ records[u][i].prev = IF i = 1 THEN GENESIS_HASH
                                               ELSE records[u][i - 1].call
          BY <3>1, <3>5, <4>2 DEF verify_chain
        <5>2. i # 1 => i - 1 \in 1..l
          BY <3>1, <4>2
        <5> QED BY <3>2, <4>2, <5>1, <5>2
      <4> QED BY <3>1, <4>1, <4>2
    <3> QED BY <3>1, <3>6 DEF verify_chain
  <2>9. ChainIntact'
    BY <2>6, <2>8 DEF ChainInv, ChainIntact
  <2>10. net_total(u)' <= spendable(u)
    BY <2>1, <2>4 DEF ChainInv, AmountFits, InMeter
  <2>11. DepositCovers'
    BY <1>0, <2>6, <2>10 DEF ChainInv, DepositCovers, spendable
  <2> QED BY <2>7, <2>9, <2>11 DEF ChainInv
<1> QED BY <1>1, <1>2, <1>3 DEF MeterStep

LEMMA AlwaysChainInv ==
    ASSUME OneThreadPerChannel
    PROVE  Spec => []ChainInv
<1>1. Init => ChainInv
  BY DEF Init, ChainInv, OneMeters, LinkIsEnd, AmountFits, OnlyAccepted, ChainIntact,
         DepositCovers, InMeter, Found, ChannelState, verify_chain
<1>2. NettingShape /\ ChannelInv /\ ChainInv /\ [Next]_vars => ChainInv'
  BY StepAccepted, OtherStepChain, MeterStepChain, NoMeterStep DEF ChainInv
<1> QED BY <1>1, <1>2, AlwaysShape, AlwaysChannelInv, PTL DEF Spec

\* When one thread meters each channel, every record commits to the one before
\* it, whatever settle(), dispute() and the other channels do meanwhile.
THEOREM ChainsVerify ==
    ASSUME OneThreadPerChannel
    PROVE  Spec => []ChainIntact
<1>1. ChainInv => ChainIntact
  BY DEF ChainInv
<1> QED BY <1>1, AlwaysChainInv, PTL

\* When one thread meters each channel, no channel is metered beyond what its
\* deposit leaves after the fee.
THEOREM DepositsCover ==
    ASSUME OneThreadPerChannel
    PROVE  Spec => []DepositCovers
<1>1. ChainInv => DepositCovers
  BY DEF ChainInv
<1> QED BY <1>1, AlwaysChainInv, PTL

\* The two together are what settle() needs to verify and pay a channel.
THEOREM MeteringIsSound ==
    ASSUME OneThreadPerChannel
    PROVE  Spec => []MeteredSoundly
BY ChainsVerify, DepositsCover, PTL DEF MeteredSoundly
-----------------------------------------------------------------------------
(* Credits *)

\* The total that a settle() has read fits the deposit, so its split is in range.
TotalsCovered == \A s \in Settles : Totalled(s) => net[s] <= spendable(CloserOn[s])

LEMMA StepTotalsCovered ==
    ASSUME NettingShape, ChannelInv, ChainInv, TotalsCovered, [Next]_vars
    PROVE  TotalsCovered'
<1> SUFFICES ASSUME NEW s \in Settles, Totalled(s)'
             PROVE  net'[s] <= spendable(CloserOn[s])
  BY DEF TotalsCovered, spendable
<1>0. CallTypes /\ s \in Closers /\ CloserOn[s] \in Txs
  BY ShapeParts, CloserKinds
<1>1. CASE ReadTotal(s)
  <2>1. net'[s] = net_total(CloserOn[s]) /\ pc[s] # "called"
    BY <1>0, <1>1 DEF ReadTotal, At, CallTypes
  <2>2. Found(CloserOn[s])
    BY <1>0, <2>1 DEF ChannelInv, NotYetFound
  <2> QED BY <1>0, <2>1, <2>2 DEF ChainInv, DepositCovers, Found
<1>2. CASE Totalled(s) /\ net'[s] = net[s]
  BY <1>2 DEF TotalsCovered
<1> QED BY <1>0, <1>1, <1>2, TotalsKept

LEMMA AlwaysTotalsCovered ==
    ASSUME OneThreadPerChannel
    PROVE  Spec => []TotalsCovered
<1>1. Init => TotalsCovered
  BY DEF Init, TotalsCovered, Totalled, Closers
<1>2. NettingShape /\ ChannelInv /\ ChainInv /\ TotalsCovered /\ [Next]_vars
        => TotalsCovered'
  BY StepTotalsCovered
<1> QED BY <1>1, <1>2, AlwaysShape, AlwaysChannelInv, AlwaysChainInv, PTL DEF Spec

LEMMA SplitFits ==
    ASSUME NettingShape, ChannelInv, ChainInv, TotalsCovered,
           NEW s \in Settles, SplitDeposit(s)
    PROVE  InRange(CloserOn[s], net[s])
<1>1. /\ net[s] \in Nat /\ pc[s] = "split" /\ s \in Closers
      /\ CloserOn[s] \in Txs /\ Amount[CloserOn[s]] \in Nat
  BY ShapeParts, CloserKinds, ParameterTypes DEF SplitDeposit, At, CallTypes
<1>2. net[s] <= spendable(CloserOn[s])
  BY <1>1 DEF TotalsCovered, Totalled
<1>3. Amount[CloserOn[s]] = spendable(CloserOn[s])
  BY <1>1, AcceptedPrice DEF ChannelInv, NotYetFound, ChainInv, OnlyAccepted
<1> QED BY <1>1, <1>2, <1>3 DEF InRange

LEMMA StepZeroSum ==
    ASSUME NettingShape, ChannelInv, ChainInv, TotalsCovered, SplitsInRange, ZeroSum,
           [Next]_vars
    PROVE  ZeroSum'
<1>1. LedgerInv
  BY ShapeParts
<1>2. CASE [LedgerNext]_ledgerVars
  <2>1. LedgerTotal' = LedgerTotal
    BY <1>1, <1>2, StepMovesTotal DEF SplitsInRange
  <2> QED BY <2>1 DEF ZeroSum, total_supply
<1>3. ASSUME NEW s \in Settles, SplitDeposit(s) PROVE ZeroSum'
  <2>1. InRange(CloserOn[s], net[s])
    BY <1>3, SplitFits
  <2>2. LedgerTotal' = LedgerTotal
    BY <1>1, <1>3, <2>1, SplitShare, SplitMovesTotal
  <2> QED BY <2>2 DEF ZeroSum, total_supply
<1> QED BY <1>2, <1>3, LedgerMoves

\* When one thread meters each channel, and no dispute is split above a price,
\* channels neither create nor destroy a credit: settle() never asks for more
\* than it holds, which would take the deposit and pay nobody.
THEOREM NettingZeroSum ==
    ASSUME OneThreadPerChannel, SplitsInRange
    PROVE  Spec => []ZeroSum
<1>1. NettingShape /\ ChannelInv /\ ChainInv /\ TotalsCovered /\ ZeroSum /\ [Next]_vars
        => ZeroSum'
  BY StepZeroSum
<1>2. Init => ZeroSum
  BY InitialTotal DEF Init, ZeroSum
<1> QED BY <1>1, <1>2, AlwaysShape, AlwaysChannelInv, AlwaysChainInv,
           AlwaysTotalsCovered, PTL DEF Spec

\* A step that moves the total lowers it, by a price.
LEMMA StepLowersTotal ==
    ASSUME NettingShape, [Next]_vars
    PROVE  LedgerTotal' \in Int /\ LedgerTotal' <= LedgerTotal
<1>1. LedgerInv
  BY ShapeParts
<1>2. LedgerTotal' = LedgerTotal \/ \E t \in Txs : LedgerTotal' = LedgerTotal - Total(t)
  <2>1. CASE [LedgerNext]_ledgerVars
    BY <1>1, <2>1, StepMovesTotal
  <2>2. CASE \E s \in Settles : SplitDeposit(s)
    BY <1>1, <2>2, SplitShare, SplitMovesTotal
  <2> QED BY <2>1, <2>2, LedgerMoves
<1> QED BY <1>1, <1>2, TotalIsInt, TotalType

\* However many threads meter a channel, and whatever shares are asked for, no
\* interleaving of meter(), settle() and the dispute calls creates a credit: a
\* settle() that finds more metered than deposited destroys the deposit, and never
\* pays it twice.
THEOREM NettingCreatesNothing == Spec => []NoCreditCreated
<1>0. total_supply \in Int
  <2>1. Opening \in [Accounts -> Int] /\ IsFiniteSet(Accounts)
    BY ParameterTypes
  <2> QED BY <2>1, SumType DEF total_supply
<1>1. NettingShape /\ NoCreditCreated /\ [Next]_vars => NoCreditCreated'
  <2> SUFFICES ASSUME NettingShape, NoCreditCreated, [Next]_vars
               PROVE  NoCreditCreated'
    OBVIOUS
  <2>1. LedgerTotal \in Int
    BY ShapeParts, TotalIsInt
  <2>2. LedgerTotal' \in Int /\ LedgerTotal' <= LedgerTotal
    BY StepLowersTotal
  <2>3. total_supply' = total_supply
    BY DEF total_supply
  <2> HIDE DEF total_supply
  <2> QED BY <1>0, <2>1, <2>2, <2>3 DEF NoCreditCreated
<1>2. Init => NoCreditCreated
  BY <1>0, InitialTotal DEF Init, NoCreditCreated
<1> QED BY <1>1, <1>2, AlwaysShape, PTL DEF Spec
-----------------------------------------------------------------------------
(* Who is in charge of a deposit *)

\* Disputes are sound here as they are anywhere.
LEMMA StepNettingDisputes ==
    ASSUME NettingShape, ChannelInv, DisputeInv, [Next]_vars
    PROVE  DisputeInv'
<1>1. PayoutsStay /\ PaidNotHeld /\ DisputesTypeOK
  BY NettingPayouts, ShapeParts DEF ChannelInv
<1>2. CASE UNCHANGED <<opening, disputes, resolving>>
  BY <1>1, <1>2, OtherStepInv
<1>3. CASE \E t \in Txs, d \in Disputes : DisputeStep(d, t)
  BY <1>1, <1>3, DisputeStepInv DEF PaidNotHeld
<1> QED BY <1>2, <1>3, DisputeMoves DEF disputeVars

LEMMA AlwaysNettingDisputes == Spec => []DisputeInv
<1>1. Init => DisputeInv
  BY DisputesInitInv DEF Init
<1>2. NettingShape /\ ChannelInv /\ DisputeInv /\ [Next]_vars => DisputeInv'
  BY StepNettingDisputes
<1> QED BY <1>1, <1>2, AlwaysShape, AlwaysChannelInv, PTL DEF Spec

\* The channel was frozen, its transaction disputed, or its deposit paid.
InHand(t) == channel_state[t] = "DISPUTED" \/ Contested(t) \/ payout[t] # None

\* The state that a settle() finds at each transition() if nobody has come
\* between, and then it goes on; no call of the channel has reached one of them.
Expects ==
    [to_running  |-> "TASK_SUBMITTED",   to_delivered   |-> "TASK_RUNNING",
     to_verified |-> "RESULT_DELIVERED", to_split_state |-> "PROOF_VERIFIED"]
OnTrack(s) ==
    \/ pc[s] = "split"
    \/ pc[s] \in DOMAIN Expects /\ state[CloserOn[s]] = Expects[pc[s]]
NoneBegun(t) ==
    /\ state[t] = "TASK_SUBMITTED"
    /\ \A c \in Closers : CloserOn[c] = t =>
          pc[c] \in {"called", "chain", "total", "mark", "to_running"}

\* Of the calls that race for a channel, the last to write the transaction's
\* state is the one that goes on: there is always one, until somebody else is
\* in charge of the deposit.
SomebodyPays ==
    /\ \A t \in Txs : Found(t) => /\ t \in DOMAIN escrow \/ payout[t] # None
                                  /\ \/ InHand(t) \/ NoneBegun(t)
                                     \/ \E s \in Settles : CloserOn[s] = t /\ OnTrack(s)
    /\ \A t \in Txs : channel_state[t] = "requested" =>
          Contested(t) \/ state[t] = "TASK_SUBMITTED"
    /\ \A f \in Freezes : pc[f] \notin {"called", "mark"} => InHand(CloserOn[f])

\* The table lets a settle() that is on track go on, and its write keeps it so.
LEMMA TrackTables ==
    /\ DOMAIN Expects = {"to_running", "to_delivered", "to_verified", "to_split_state"}
    /\ \A q \in DOMAIN Expects :
          /\ q \in DOMAIN Target /\ CanTransition(Expects[q], Target[q])
          /\ After[q] = "split" \/ (After[q] \in DOMAIN Expects
                                    /\ Expects[After[q]] = Target[q])
    /\ \A q \in DOMAIN Target : q \in SettlePosition => q \in DOMAIN Expects
BY DEF Expects, Target, After, CanTransition, ALLOWED_TRANSITIONS, TransactionState,
       SettlePosition

\* Once in somebody's hands a deposit stays so, or is paid.
LEMMA InHandStays ==
    ASSUME NettingShape, ChannelInv, DisputeInv, [Next]_vars, NEW u \in Txs, InHand(u)
    PROVE  InHand(u)'
<1>0. /\ CallTypes /\ DisputesTypeOK /\ PayoutsStay /\ PaidNotHeld
      /\ \A s \in Settles : PastSplit(s) => payout[CloserOn[s]] = "split"
  BY NettingPayouts, ShapeParts DEF ChannelInv, OneSplit
<1>1. CASE payout[u] # None
  BY <1>0, <1>1 DEF PayoutsStay, InHand
<1>2. CASE Contested(u)
  <2>1. CASE UNCHANGED <<opening, disputes>>
    BY <1>2, <2>1 DEF InHand, Contested, Unresolved
  <2>2. CASE \E t \in Txs, d \in Disputes : DisputeStep(d, t)
    BY <1>0, <1>2, <2>2, ContestedStays DEF InHand
  <2> QED BY <2>1, <2>2, DisputeMoves DEF disputeVars
<1>3. CASE channel_state[u] = "DISPUTED" /\ payout[u] = None
  <2>1. ASSUME NEW t \in Txs, OpenStep(t) PROVE channel_state'[u] = "DISPUTED"
    BY <1>0, <1>3, <2>1
       DEF OpenStep, RequestChannel, OpenChannel, RefuseChannel, SetChannel, CallTypes
  <2>2. ASSUME NEW m \in MeterCalls, MeterStep(m) PROVE UNCHANGED channel_state
    BY <2>2 DEF MeterStep, MeterCheck, MeterLink, MeterAppend
  <2>3. ASSUME NEW c \in Closers, CloserStep(c) PROVE channel_state'[u] = "DISPUTED"
    <3>1. CASE c \in Settles /\ CloseChannel(c)
      <4>1. CloserOn[c] # u
        BY <1>0, <1>3, <3>1 DEF CloseChannel, At, PastSplit, None
      <4> QED BY <1>0, <1>3, <3>1, <4>1 DEF CloseChannel, SetChannel, CallTypes
    <3> QED BY <1>0, <1>3, <2>3, <3>1
            DEF CloserStep, SettleStep, CloserCheck, CheckTransition, WriteTransition,
                MarkDisputed, VerifyChain, ReadTotal, SplitDeposit, NoFundsHeld,
                IssueReceipt, SetChannel, CallTypes
  <2>4. ASSUME NEW t \in Txs, NEW d \in Disputes, DisputeCall(d, t)
        PROVE  UNCHANGED channel_state
    BY <2>4 DEF DisputeCall
  <2> QED BY <1>3, <2>1, <2>2, <2>3, <2>4 DEF Next, vars, InHand
<1> QED BY <1>1, <1>2, <1>3 DEF InHand

\* A step moves a transaction's state only by a write of settle() or dispute(),
\* by a dispute, by a payment, or when the channel is requested.
LEMMA StateMoves ==
    ASSUME NettingShape, ChannelInv, DisputeInv, [Next]_vars, NEW u \in Txs
    PROVE  \/ state'[u] = state[u] \/ Contested(u)' \/ payout'[u] # None
           \/ channel_state[u] = "absent" /\ state'[u] = "TASK_SUBMITTED"
           \/ \E c \in Closers : CloserOn[c] = u /\ WriteTransition(c)
<1> DEFINE Goal ==
        \/ state'[u] = state[u] \/ Contested(u)' \/ payout'[u] # None
        \/ channel_state[u] = "absent" /\ state'[u] = "TASK_SUBMITTED"
        \/ \E c \in Closers : CloserOn[c] = u /\ WriteTransition(c)
<1>0. /\ state \in [Txs -> TransactionState] /\ LedgerTypeOK /\ DisputesTypeOK
      /\ payout \in [Txs -> Payouts \cup {None}]
  BY ShapeParts DEF LedgerInv, LedgerTypeOK, DisputesTypeOK
<1>1. ASSUME NEW t \in Txs, OpenStep(t) PROVE Goal
  BY <1>0, <1>1 DEF OpenStep, RequestChannel, OpenChannel, RefuseChannel, hold, ledgerVars
<1>2. ASSUME NEW m \in MeterCalls, MeterStep(m) PROVE Goal
  BY <1>2 DEF MeterStep, MeterCheck, MeterLink, MeterAppend, ledgerVars
<1>3. ASSUME NEW c \in Closers, CloserStep(c) PROVE Goal
  <2>1. CASE WriteTransition(c)
    <3>1. CloserOn[c] # u => state'[u] = state[u]
      BY <1>0, <2>1 DEF WriteTransition, WriteState
    <3> QED BY <2>1, <3>1
  <2>2. CASE c \in Settles /\ SplitDeposit(c)
    <3>1. CloserOn[c] = u => payout'[u] # None
      BY <1>0, <2>2 DEF SplitDeposit, Paid, None
    <3>2. CloserOn[c] # u => state'[u] = state[u]
      BY <1>0, <2>2 DEF SplitDeposit, split_escrow
    <3> QED BY <3>1, <3>2
  <2> QED BY <1>3, <2>1, <2>2
          DEF CloserStep, SettleStep, CloserCheck, CheckTransition, MarkDisputed,
              VerifyChain, ReadTotal, NoFundsHeld, CloseChannel, IssueReceipt, ledgerVars
<1>4. ASSUME NEW t \in Txs, NEW d \in Disputes, DisputeCall(d, t) PROVE Goal
  <2>1. DisputeStep(d, t)
    BY <1>4 DEF DisputeCall, DisputeStep, OpeningStep
  <2> QED BY <1>0, <2>1, DisputeStateStep
<1>5. ASSUME UNCHANGED vars PROVE Goal
  BY <1>5 DEF vars, ledgerVars
<1> QED BY <1>1, <1>2, <1>3, <1>4, <1>5 DEF Next

\* Where a step leaves the call of a channel that nobody else has in hand.
LEMMA CallStepOnTrack ==
    ASSUME NettingShape, ChannelInv, ChainIntact, SomebodyPays,
           NEW c \in Closers, CloserStep(c),
           NEW u \in Txs, Found(u), ~InHand(u), ~InHand(u)'
    PROVE  NoneBegun(u)' \/ \E s \in Settles : CloserOn[s] = u /\ OnTrack(s)'
<1> DEFINE Goal == NoneBegun(u)' \/ \E s \in Settles : CloserOn[s] = u /\ OnTrack(s)'
<1>0. CallTypes /\ state \in [Txs -> TransactionState] /\ CloserOn[c] \in Txs
  BY ShapeParts, CloserKinds DEF LedgerInv, LedgerTypeOK
<1>a. NoneBegun(u) \/ \E s \in Settles : CloserOn[s] = u /\ OnTrack(s)
  BY DEF SomebodyPays
<1>b. channel_state[u] = "OPEN" /\ payout[u] = None
  <2>1. channel_state[u] \in ChannelState /\ channel_state[u] # "DISPUTED" /\ payout[u] = None
    BY DEF Found, InHand
  <2> QED BY <2>1 DEF ChannelState, ChannelInv, OneSplit, None
<1>c. \A b \in Closers : b \in Settles \/ b \in Freezes
  BY CloserKinds
<1> USE <1>0, <1>c, CloserKinds DEF At, Goto, CallTypes
\* A step that moves another call, or this one before its transitions.
<1>1. ASSUME UNCHANGED state, \A b \in Closers \ {c} : pc'[b] = pc[b],
             CloserOn[c] = u =>
                /\ pc[c] \in {"called", "chain", "total"}
                /\ pc'[c] \in {"chain", "total", "mark", "to_running"}
      PROVE  Goal
  <2>1. CASE NoneBegun(u)
    BY <1>1, <2>1 DEF NoneBegun
  <2>2. ASSUME NEW s \in Settles, CloserOn[s] = u, OnTrack(s) PROVE OnTrack(s)'
    <3>1. s # c /\ s \in Closers
      BY <1>1, <2>2, TrackTables DEF OnTrack
    <3> QED BY <1>1, <2>2, <3>1 DEF OnTrack
  <2> QED BY <1>a, <2>1, <2>2
<1>2. CASE CloserCheck(c)
  <2>1. /\ UNCHANGED state /\ \A b \in Closers \ {c} : pc'[b] = pc[b]
        /\ CloserOn[c] = u => pc[c] = "called" /\ pc'[c] \in {"chain", "mark"}
    BY <1>2, <1>b DEF CloserCheck, ledgerVars
  <2> QED BY <1>1, <2>1
<1>3. CASE c \in Settles /\ VerifyChain(c)
  <2>1. verify_chain(CloserOn[c])
    BY DEF ChainIntact
  <2>2. /\ UNCHANGED state /\ \A b \in Closers \ {c} : pc'[b] = pc[b]
        /\ pc[c] = "chain" /\ pc'[c] = "total"
    BY <1>3, <2>1 DEF VerifyChain, ledgerVars
  <2> QED BY <1>1, <2>2
<1>4. CASE c \in Settles /\ ReadTotal(c)
  <2>2. /\ UNCHANGED state /\ \A b \in Closers \ {c} : pc'[b] = pc[b]
        /\ pc[c] = "total" /\ pc'[c] = "to_running"
    BY <1>4 DEF ReadTotal, ledgerVars
  <2> QED BY <1>1, <2>2
<1>5. CASE CheckTransition(c)
  <2>1. UNCHANGED state /\ \A b \in Closers \ {c} : pc'[b] = pc[b]
    BY <1>5 DEF CheckTransition, ledgerVars
  <2>2. CASE CloserOn[c] # u
    BY <1>1, <2>1, <2>2
  <2>3. CASE CloserOn[c] = u
    <3>1. c \in Settles /\ pc[c] \in DOMAIN Expects
      <4>1. pc[c] \in DOMAIN Target
        BY <1>5 DEF CheckTransition
      <4>2. c \notin Freezes
        BY <2>3, <4>1, TransitionTables DEF SomebodyPays
      <4> QED BY <4>1, <4>2, TrackTables DEF CallsInPlace
    <3>2. CASE OnTrack(c)
      <4>1. state[u] = Expects[pc[c]] /\ pc[c] # "split"
        BY <2>3, <3>1, <3>2, TrackTables DEF OnTrack
      <4>2. UNCHANGED pc
        BY <1>5, <2>3, <3>1, <4>1, TrackTables DEF CheckTransition
      <4> QED BY <2>1, <2>3, <3>1, <3>2, <4>2 DEF OnTrack
    <3>3. CASE ~OnTrack(c)
      <4>1. ~NoneBegun(u)
        BY <2>3, <3>1, <3>3, TrackTables DEF NoneBegun, OnTrack, Expects
      <4>2. PICK s \in Settles : CloserOn[s] = u /\ OnTrack(s)
        BY <1>a, <4>1
      <4> QED BY <2>1, <3>3, <4>2 DEF OnTrack
    <3> QED BY <3>2, <3>3
  <2> QED BY <2>2, <2>3
<1>6. CASE WriteTransition(c)
  <2>1. /\ \A b \in Closers \ {c} : pc'[b] = pc[b]
        /\ pc'[c] = After[pc[c]] /\ pc[c] \in DOMAIN Target
        /\ state' = [state EXCEPT ![CloserOn[c]] = Target[pc[c]]]
    BY <1>6 DEF WriteTransition, WriteState, CallsInPlace
  <2>2. CASE CloserOn[c] # u
    <3>1. state'[u] = state[u]
      BY <2>1, <2>2
    <3>2. CASE NoneBegun(u)
      BY <2>1, <2>2, <3>1, <3>2 DEF NoneBegun
    <3>3. ASSUME NEW s \in Settles, CloserOn[s] = u, OnTrack(s) PROVE OnTrack(s)'
      BY <2>1, <2>2, <3>1, <3>3 DEF OnTrack
    <3> QED BY <1>a, <3>2, <3>3
  <2>3. CASE CloserOn[c] = u
    <3>1. c \notin Freezes
      BY <2>1, <2>3, TransitionTables DEF SomebodyPays
    <3>2. c \in Settles /\ pc[c] \in DOMAIN Expects
      BY <2>1, <3>1, TrackTables DEF CallsInPlace
    <3>3. state'[u] = Target[pc[c]]
      BY <2>1, <2>3
    <3>4. OnTrack(c)'
      BY <2>1, <2>3, <3>2, <3>3, TrackTables DEF OnTrack
    <3> QED BY <2>3, <3>2, <3>4
  <2> QED BY <2>2, <2>3
<1>7. CASE c \in Freezes /\ MarkDisputed(c)
  <2>1. CloserOn[c] # u
    BY <1>7 DEF MarkDisputed, SetChannel, InHand
  <2>2. UNCHANGED state /\ \A b \in Closers \ {c} : pc'[b] = pc[b]
    BY <1>7 DEF MarkDisputed, ledgerVars
  <2> QED BY <1>1, <2>1, <2>2
<1>8. CASE c \in Settles /\ SplitDeposit(c)
  <2>1. CloserOn[c] # u
    BY <1>8 DEF SplitDeposit, Paid, InHand, DisputesTypeOK, NettingShape, NettingTypeOK, None
  <2>2. state'[u] = state[u] /\ \A b \in Closers \ {c} : pc'[b] = pc[b]
    BY <1>8, <2>1 DEF SplitDeposit, split_escrow
  <2>3. CASE NoneBegun(u)
    BY <2>1, <2>2, <2>3 DEF NoneBegun
  <2>4. ASSUME NEW s \in Settles, CloserOn[s] = u, OnTrack(s) PROVE OnTrack(s)'
    BY <2>1, <2>2, <2>4 DEF OnTrack
  <2> QED BY <1>a, <2>3, <2>4
<1>9. CASE c \in Settles /\ (NoFundsHeld(c) \/ CloseChannel(c) \/ IssueReceipt(c))
  <2>1. CloserOn[c] # u
    <3>1. CASE NoFundsHeld(c)
      BY <1>b, <3>1 DEF NoFundsHeld, SomebodyPays
    <3>2. CASE CloseChannel(c) \/ IssueReceipt(c)
      BY <1>9, <1>b, <3>2 DEF CloseChannel, IssueReceipt, ChannelInv, OneSplit, PastSplit, None
    <3> QED BY <1>9, <3>1, <3>2
  <2>2. UNCHANGED state /\ \A b \in Closers \ {c} : pc'[b] = pc[b]
    BY <1>9 DEF NoFundsHeld, CloseChannel, IssueReceipt, ledgerVars
  <2> QED BY <1>1, <2>1, <2>2
<1> QED BY <1>2, <1>3, <1>4, <1>5, <1>6, <1>7, <1>8, <1>9 DEF CloserStep, SettleStep

\* The steps that are no call's leave a channel that is not in hand as it was.
LEMMA OtherStepOnTrack ==
    ASSUME NettingShape, ChannelInv, DisputeInv, SomebodyPays, [Next]_vars, UNCHANGED pc,
           NEW u \in Txs, Found(u), ~InHand(u), ~InHand(u)',
           \A c \in Closers : ~WriteTransition(c)
    PROVE  NoneBegun(u)' \/ \E s \in Settles : CloserOn[s] = u /\ OnTrack(s)'
<1>1. state'[u] = state[u]
  BY StateMoves DEF InHand, Found, ChannelState
<1>2. NoneBegun(u) \/ \E s \in Settles : CloserOn[s] = u /\ OnTrack(s)
  BY DEF SomebodyPays
<1> QED BY <1>1, <1>2 DEF NoneBegun, OnTrack

LEMMA StepSomebodyPays ==
    ASSUME NettingShape, ChannelInv, ChainIntact, DisputeInv, SomebodyPays, [Next]_vars
    PROVE  SomebodyPays'
<1>0. CallTypes /\ CallTypes' /\ DisputesTypeOK
  BY ShapeParts, CallPart
<1>1. ASSUME NEW u \in Txs, Found(u)'
      PROVE  u \in DOMAIN escrow' \/ payout'[u] # None
  BY <1>1, NettingStepKinds
     DEF ChannelInv, SomebodyPays, Opens, PaysOut, Untouched
<1>2. ASSUME NEW u \in Txs, Found(u), ~InHand(u)'
      PROVE  NoneBegun(u)' \/ \E s \in Settles : CloserOn[s] = u /\ OnTrack(s)'
  <2>1. ~InHand(u)
    BY <1>2, InHandStays
  <2>2. CASE \E c \in Closers : CloserStep(c)
    BY <1>2, <2>1, <2>2, CallStepOnTrack
  <2>3. ASSUME \A c \in Closers : ~CloserStep(c)
        PROVE  UNCHANGED pc /\ \A c \in Closers : ~WriteTransition(c)
    BY <2>3 DEF CloserStep, Next, OpenStep, RequestChannel, OpenChannel, RefuseChannel,
        MeterStep, MeterCheck, MeterLink, MeterAppend, DisputeCall, vars, closerVars
  <2> QED BY <1>2, <2>1, <2>2, <2>3, OtherStepOnTrack
<1>3. ASSUME NEW u \in Txs, channel_state'[u] = "requested"
      PROVE  Contested(u)' \/ state'[u] = "TASK_SUBMITTED"
  <2>1. ~Found(u)' /\ ~Found(u) /\ payout[u] = None /\ payout'[u] = None
    <3>1. ~Found(u)'
      BY <1>3 DEF Found, ChannelState
    <3>2. ~Found(u) /\ (PaysOut(u) \/ Untouched(u))
      BY <1>3, <3>1, NettingStepKinds DEF ChannelInv, Opens
    <3> QED BY <3>1, <3>2 DEF ChannelInv, NotYetFound, PaysOut, Untouched
  <2>2. \A c \in Closers : CloserOn[c] = u => ~WriteTransition(c)
    BY <1>0, <2>1, TransitionTables
       DEF WriteTransition, ChannelInv, NotYetFound, CallTypes, CallsInPlace
  <2>3. state'[u] = state[u] \/ Contested(u)' \/ state'[u] = "TASK_SUBMITTED"
    BY <2>1, <2>2, StateMoves
  <2>4. CASE channel_state[u] = "requested"
    <3>1. CASE Contested(u)
      <4>1. InHand(u)'
        BY <3>1, InHandStays DEF InHand
      <4> QED BY <1>3, <2>1, <4>1 DEF InHand
    <3> QED BY <2>3, <2>4, <3>1 DEF SomebodyPays
  <2>5. CASE channel_state[u] # "requested"
    <3>1. ASSUME NEW t \in Txs, OpenStep(t) PROVE state'[u] = "TASK_SUBMITTED"
      <4>1. state \in [Txs -> TransactionState]
        BY ShapeParts DEF LedgerInv, LedgerTypeOK
      <4> QED BY <1>0, <1>3, <2>5, <3>1, <4>1
              DEF OpenStep, RequestChannel, OpenChannel, RefuseChannel, SetChannel, CallTypes
    <3>2. ASSUME NEW c \in Closers, CloserStep(c) PROVE FALSE
      BY <1>0, <1>3, <2>5, <3>2
         DEF CloserStep, SettleStep, CloserCheck, CheckTransition, WriteTransition,
             MarkDisputed, VerifyChain, ReadTotal, SplitDeposit, NoFundsHeld, CloseChannel,
             IssueReceipt, SetChannel, CallTypes
    <3>3. ASSUME NEW m \in MeterCalls, MeterStep(m) PROVE FALSE
      BY <1>3, <2>5, <3>3 DEF MeterStep, MeterCheck, MeterLink, MeterAppend
    <3>4. ASSUME NEW t \in Txs, NEW d \in Disputes, DisputeCall(d, t) PROVE FALSE
      BY <1>3, <2>5, <3>4 DEF DisputeCall
    <3> QED BY <1>3, <2>5, <3>1, <3>2, <3>3, <3>4 DEF Next, vars
  <2> QED BY <2>4, <2>5
<1>4. ASSUME NEW u \in Txs, Found(u)', ~Found(u), ~InHand(u)' PROVE NoneBegun(u)'
  <2>1. Opens(u)
    BY <1>4, NettingStepKinds DEF ChannelInv
  <2>2. /\ \A c \in Closers : CloserOn[c] = u => pc[c] = "called" /\ ~WriteTransition(c)
        /\ Contested(u) \/ state[u] = "TASK_SUBMITTED"
    BY <1>0, <1>4, <2>1, TransitionTables
       DEF Opens, WriteTransition, ChannelInv, NotYetFound, CallTypes, CallsInPlace,
           SomebodyPays
  <2>3. ~Contested(u)
    BY <1>4, InHandStays DEF InHand
  <2>4. state'[u] = "TASK_SUBMITTED"
    BY <1>4, <2>1, <2>2, <2>3, StateMoves DEF InHand, Opens
  <2>5. \A c \in Closers : CloserOn[c] = u => pc'[c] = "called"
    <3> SUFFICES ASSUME NEW c \in Closers, CloserOn[c] = u PROVE pc'[c] = "called"
      OBVIOUS
    <3>1. ASSUME NEW b \in Closers, CloserStep(b) PROVE FALSE
      BY <1>0, <2>1, <3>1
         DEF CloserStep, SettleStep, CloserCheck, CheckTransition, WriteTransition,
             MarkDisputed, VerifyChain, ReadTotal, SplitDeposit, NoFundsHeld, CloseChannel,
             IssueReceipt, SetChannel, CallTypes, Opens
    <3>2. UNCHANGED pc
      BY <3>1 DEF Next, OpenStep, RequestChannel, OpenChannel, RefuseChannel,
          MeterStep, MeterCheck, MeterLink, MeterAppend, DisputeCall, vars, closerVars
    <3> QED BY <2>2, <3>2
  <2> QED BY <2>4, <2>5 DEF NoneBegun
<1>5. ASSUME NEW f \in Freezes, pc'[f] \notin {"called", "mark"}
      PROVE  InHand(CloserOn[f])'
  <2>0. f \in Closers /\ CloserOn[f] \in Txs /\ f \notin Settles
    BY CloserKinds
  <2>1. CASE pc[f] \notin {"called", "mark"}
    BY <2>0, <2>1, InHandStays DEF SomebodyPays
  <2>2. ASSUME pc[f] \in {"called", "mark"}
        PROVE  InHand(CloserOn[f])' \/ InHand(CloserOn[f])
    <3>1. ASSUME NEW c \in Closers, CloserStep(c)
          PROVE  c = f /\ (CloserCheck(f) \/ MarkDisputed(f))
      BY <1>0, <1>5, <2>0, <2>2, <3>1, TransitionTables
         DEF CloserStep, SettleStep, CloserCheck, CheckTransition, WriteTransition,
             MarkDisputed, VerifyChain, ReadTotal, SplitDeposit, NoFundsHeld, CloseChannel,
             IssueReceipt, Goto, At, CallTypes, CallsInPlace
    <3>2. \E c \in Closers : CloserStep(c)
      BY <1>5, <2>2
         DEF Next, OpenStep, RequestChannel, OpenChannel, RefuseChannel,
             MeterStep, MeterCheck, MeterLink, MeterAppend, DisputeCall, vars, closerVars
    <3>3. CASE CloserCheck(f)
      <4>1. /\ channel_state[CloserOn[f]] \in ChannelState
            /\ channel_state[CloserOn[f]] # "OPEN"
        BY <1>0, <1>5, <2>0, <3>3 DEF CloserCheck, Goto, CallTypes
      <4> QED BY <2>0, <4>1 DEF ChannelState, InHand, ChannelInv, OneSplit, None
    <3>4. CASE MarkDisputed(f)
      BY <1>0, <2>0, <3>4 DEF MarkDisputed, SetChannel, CallTypes, InHand
    <3> QED BY <3>1, <3>2, <3>3, <3>4
  <2> QED BY <2>0, <2>1, <2>2, InHandStays
<1> QED BY <1>1, <1>2, <1>3, <1>4, <1>5 DEF SomebodyPays

LEMMA AlwaysSomebodyPays ==
    ASSUME OneThreadPerChannel
    PROVE  Spec => []SomebodyPays
<1>1. Init => SomebodyPays
  BY CloserKinds DEF Init, SomebodyPays, Found, ChannelState
<1>2. NettingShape /\ ChannelInv /\ ChainInv /\ DisputeInv /\ SomebodyPays /\ [Next]_vars
        => SomebodyPays'
  BY StepSomebodyPays DEF ChainInv
<1> QED BY <1>1, <1>2, AlwaysShape, AlwaysChannelInv, AlwaysChainInv,
           AlwaysNettingDisputes, PTL DEF Spec

\* When one thread meters each channel, the settle() and dispute() calls that
\* race for one cannot all raise and leave its deposit behind: unless it was
\* frozen or its transaction disputed, one of them is still on its way.
THEOREM DepositsNotStranded ==
    ASSUME OneThreadPerChannel
    PROVE  Spec => []DepositNotStranded
<1>1. ChannelInv /\ SomebodyPays /\ NettingShape => DepositNotStranded
  <2> SUFFICES ASSUME ChannelInv, SomebodyPays, NettingShape, NEW t \in DOMAIN escrow,
                      NEW c \in Closers, CloserOn[c] = t, pc[c] # "called",
                      \A b \in Closers : CloserOn[b] = t /\ pc[b] # "called" => Ended(b)
               PROVE  channel_state[t] = "DISPUTED" \/ Contested(t)
    BY DEF DepositNotStranded
  <2>1. t \in Txs /\ payout[t] = None /\ Found(t)
    BY ShapeParts DEF LedgerInv, LedgerTypeOK, ChannelInv, PaidNotHeld, NotYetFound
  <2>2. ~NoneBegun(t)
    BY DEF NoneBegun, Ended
  <2>3. ASSUME NEW s \in Settles, CloserOn[s] = t PROVE ~OnTrack(s)
    BY <2>3, CloserKinds, TrackTables DEF OnTrack, Ended
  <2> QED BY <2>1, <2>2, <2>3 DEF SomebodyPays, InHand
<1> QED BY <1>1, AlwaysShape, AlwaysChannelInv, AlwaysSomebodyPays, PTL
=============================================================================
