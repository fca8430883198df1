------------------------ MODULE OnchainRebalanceProofs ------------------------
(***************************************************************************)
(* TLAPS proofs about OnchainRebalance, for any callers, payers, receipts, *)
(* funding transactions and bounds: types and the balance lock, the wake-  *)
(* ups of the splice inbox, the trigger's scan, the flag that disables     *)
(* rebalancing, and what is recorded about receipts and transactions.      *)
(***************************************************************************)
EXTENDS OnchainRebalance, SequenceTheorems, TLAPS

(***************************************************************************)
(* Types, in the parts that different actions change.                      *)
(***************************************************************************)

ClockOK ==
    /\ now \in 1..MaxTime /\ synced \in 0..now /\ scanned \in 0..synced
    /\ conf \in [Receipts -> 0..now]

TriggerOK == told \in [Receipts -> {"no", "yes", "early"}] /\ excused \subseteq Receipts

MetaOK ==
    /\ mem \in [Ids -> Meta] /\ disk \in [Ids -> Meta]
    /\ pend \in [Tasks \cup {Ldk} -> SUBSET Write]

NodeOK ==
    /\ chans \in [Channels -> {"none", "opening", "funded", "ready", "closed"}]
    /\ role \in [Fundings -> {"unused", "open", "jit", "in", "out"}]
    /\ nego \in {None} \cup [ch : Channels, txo : Fundings]

\* While the handler is busy there is an event it is busy with.
HandlerOK ==
    /\ ldkq \in Seq(LdkEvent)
    /\ hpc \in {"idle", "reserve", "reserved", "delivered"}
    /\ hpc # "idle" => ldkq # <<>>

WaitsOK ==
    /\ inbox \in [Channels -> Seq(Fundings)]
    /\ notified \subseteq Tasks
    /\ flag \in Channels \cup {None}

RestOK ==
    /\ enabled \in BOOLEAN
    /\ outs \subseteq Fundings
    /\ late \in Nat
    /\ spoiled \subseteq Receipts
    /\ mixed \in BOOLEAN
    /\ errors \in Nat /\ crashes \in Nat /\ errors + crashes <= MaxFaults

LockOK ==
    /\ lock \in Callers \cup {None}
    /\ call \in [Tasks -> Call]
    /\ \A c \in Callers : lock = c <=> call[c].pc \in Working

\* What a task has found out by the time it needs it.
Waited == Waiting \cup {"channel", "sleepChannel"}

CallShape ==
    /\ \A t \in Tasks :
          /\ call[t].pc \in Waited => call[t].ch \in Channels /\ call[t].own \in Fundings
          /\ call[t].pc \in {"record", "upsert"} => call[t].txo \in Fundings
    /\ \A c \in Callers :
          /\ call[c].pc # "upsert"
          /\ call[c].pc \in Waited \cup {"start", "record", "written"} => call[c].trig \in Receipts
          /\ call[c].pc # "announce" => call[c].todo = {}
          /\ call[c].pc = "list" => call[c].old = scanned /\ call[c].new \in scanned..synced
    /\ \A p \in Payers : call[p].pc \in {"idle", "record", "upsert", "written"} \cup Waiting

TypeInv ==
    /\ ClockOK /\ TriggerOK /\ MetaOK /\ NodeOK /\ HandlerOK /\ WaitsOK /\ RestOK
    /\ LockOK /\ CallShape

\* The parts together are the type invariant.
LEMMA TypeInvType == TypeInv => TypeOK
  BY DEF TypeInv, TypeOK, ClockOK, TriggerOK, MetaOK, NodeOK, HandlerOK, WaitsOK, RestOK, LockOK

\* The wallet starts well typed.
LEMMA InitType == Init => TypeInv
  <1> SUFFICES ASSUME Init PROVE TypeInv
    OBVIOUS
  <1> USE DEF Init
  <1>1. ClockOK /\ TriggerOK
    BY OnchainAssumption DEF ClockOK, TriggerOK
  <1>2. Plain("none") \in Meta
    BY DEF Plain, Meta
  <1>3. MetaOK
    BY <1>2 DEF MetaOK
  <1>4. NodeOK
    <2>1. PICK g \in Channels \cup {None} :
              role = [f \in Fundings |-> IF f = g THEN "jit" ELSE "unused"]
      OBVIOUS
    <2>2. role \in [Fundings -> {"unused", "open", "jit", "in", "out"}]
      BY ONLY <2>1
    <2>3. chans \in [Channels -> {"none", "opening", "funded", "ready", "closed"}]
      OBVIOUS
    <2> QED
      BY <2>2, <2>3 DEF NodeOK
  <1>5. HandlerOK /\ WaitsOK /\ RestOK
    <2>1. HandlerOK
      BY DEF HandlerOK
    <2>2. WaitsOK
      BY DEF WaitsOK
    <2>3. MaxFaults \in Nat
      BY OnchainAssumption
    <2>4. errors = 0 /\ crashes = 0
      OBVIOUS
    <2>5. errors \in Nat /\ crashes \in Nat /\ errors + crashes <= MaxFaults
      BY ONLY <2>3, <2>4
    <2>6. RestOK
      BY <2>5 DEF RestOK
    <2> QED
      BY <2>1, <2>2, <2>6
  <1>6. Idle \in Call /\ Idle.pc = "idle" /\ Idle.todo = {}
    BY OnchainAssumption DEF Idle, Call
  <1>7. None \notin Callers
    BY OnchainAssumption
  <1>8. LockOK
    BY <1>6, <1>7 DEF LockOK, Working, Waiting, Tasks
  <1>9. CallShape
    BY <1>6 DEF CallShape, Waited, Waiting, Tasks
  <1> QED
    BY <1>1, <1>3, <1>4, <1>5, <1>8, <1>9 DEF TypeInv

(***************************************************************************)
(* Which actions change what.                                              *)
(***************************************************************************)

CallerDoes(c) == LockBalance(c) \/ Rebalance(c)
PayerDoes(p)  == SpliceOut(p) \/ Pay(p)

\* Every step is one task's, a landing write, the handler's, LDK's, a change of
\* the flag, a restart, or changes nothing.
LEMMA StepCases ==
    ASSUME [Next]_vars
    PROVE  \/ \E c \in Callers : CallerDoes(c)
           \/ \E p \in Payers : PayerDoes(p)
           \/ \E t \in Tasks \cup {Ldk} : Flush(t)
           \/ HandleEvent
           \/ Node
           \/ \E b \in BOOLEAN : SetRebalanceEnabled(b)
           \/ Restart
           \/ UNCHANGED vars
  BY DEF Next, CallerDoes, PayerDoes

\* The steps that change the clock, the receipts' stamps or the scan.
LEMMA ClockFrame ==
    ASSUME [Next]_vars
    PROVE  \/ UNCHANGED <<now, synced, conf, scanned>>
           \/ Tick \/ SyncEnds \/ Restart
           \/ \E r \in Receipts : Confirm(r)
           \/ \E c \in Callers : ListNew(c)
  <1> USE DEF vars, clock, trigger
  <1>1. ASSUME NEW c \in Callers, CallerDoes(c)
        PROVE  ListNew(c) \/ UNCHANGED <<now, synced, conf, scanned>>
    BY <1>1 DEF CallerDoes, Rebalance, Wait, LockBalance, ReadSync, Announce, SelectTrigger,
        SpliceIn, OpenChannel, RebalanceFails, AwaitChannel, ChannelWakes, RecordTransfer,
        RebalanceReturns, Register, CheckInbox, Notified
  <1>2. ASSUME NEW p \in Payers, PayerDoes(p)
        PROVE  UNCHANGED <<now, synced, conf, scanned>>
    BY <1>2 DEF PayerDoes, Pay, Wait, SpliceOut, WriteSpliceOut, UpsertPayment, PayReturns,
        Register, CheckInbox, Notified
  <1>3. ASSUME HandleEvent PROVE UNCHANGED <<now, synced, conf, scanned>>
    BY <1>3 DEF HandleEvent, ReserveSlot, UpsertPending, ChannelPending, SpliceNegotiated,
        AddSplicePending, ChannelReady, ChannelClosed, SpliceNegotiationFailed
  <1>4. ASSUME Node
        PROVE  \/ Tick \/ SyncEnds \/ \E r \in Receipts : Confirm(r)
               \/ UNCHANGED <<now, synced, conf, scanned>>
    BY <1>4 DEF Node, LdkSplice, LdkChannel
  <1> QED
    BY <1>1, <1>2, <1>3, <1>4, StepCases DEF Flush, SetRebalanceEnabled

\* The steps that announce a receipt or excuse one.
LEMMA TriggerFrame ==
    ASSUME [Next]_vars
    PROVE  \/ UNCHANGED <<told, excused>>
           \/ \E c \in Callers : Announce(c)
           \/ (\E r \in Receipts : Confirm(r))
           \/ Restart
  <1> USE DEF vars, clock, trigger
  <1>1. ASSUME NEW c \in Callers, CallerDoes(c)
        PROVE  Announce(c) \/ UNCHANGED <<told, excused>>
    BY <1>1 DEF CallerDoes, Rebalance, Wait, LockBalance, ReadSync, ListNew, ListWith,
        SelectTrigger, SpliceIn, OpenChannel, RebalanceFails, AwaitChannel,
        ChannelWakes, RecordTransfer, RebalanceReturns, Register, CheckInbox, Notified
  <1>2. ASSUME NEW p \in Payers, PayerDoes(p)
        PROVE  UNCHANGED <<told, excused>>
    BY <1>2 DEF PayerDoes, Pay, Wait, SpliceOut, WriteSpliceOut, UpsertPayment, PayReturns,
        Register, CheckInbox, Notified
  <1>3. ASSUME HandleEvent PROVE UNCHANGED <<told, excused>>
    BY <1>3 DEF HandleEvent, ReserveSlot, UpsertPending, ChannelPending, SpliceNegotiated,
        AddSplicePending, ChannelReady, ChannelClosed, SpliceNegotiationFailed
  <1>4. ASSUME Node
        PROVE  (\E r \in Receipts : Confirm(r)) \/ UNCHANGED <<told, excused>>
    BY <1>4 DEF Node, Tick, SyncEnds, LdkSplice, LdkChannel
  <1> QED
    BY <1>1, <1>2, <1>3, <1>4, StepCases DEF Flush, SetRebalanceEnabled

\* The steps that touch the metadata.
LEMMA MetaFrame ==
    ASSUME [Next]_vars
    PROVE  \/ UNCHANGED <<mem, disk, pend>>
           \/ \E c \in Callers : SelectTrigger(c) \/ RecordTransfer(c)
           \/ \E p \in Payers : UpsertPayment(p)
           \/ UpsertPending
           \/ (\E t \in Tasks \cup {Ldk} : Flush(t)) \/ Restart
  <1> USE DEF vars, meta
  <1>1. ASSUME NEW c \in Callers, CallerDoes(c)
        PROVE  SelectTrigger(c) \/ RecordTransfer(c) \/ UNCHANGED <<mem, disk, pend>>
    BY <1>1 DEF CallerDoes, Rebalance, Wait, LockBalance, ReadSync, ListNew, ListWith, Announce,
        SpliceIn, OpenChannel, RebalanceFails, AwaitChannel, ChannelWakes,
        RebalanceReturns, Register, CheckInbox, Notified
  <1>2. ASSUME NEW p \in Payers, PayerDoes(p)
        PROVE  UpsertPayment(p) \/ UNCHANGED <<mem, disk, pend>>
    BY <1>2 DEF PayerDoes, Pay, Wait, SpliceOut, WriteSpliceOut, PayReturns, Register, CheckInbox,
        Notified
  <1>3. ASSUME HandleEvent PROVE UpsertPending \/ UNCHANGED <<mem, disk, pend>>
    BY <1>3 DEF HandleEvent, ReserveSlot, ChannelPending, SpliceNegotiated, AddSplicePending,
        ChannelReady, ChannelClosed, SpliceNegotiationFailed
  <1>4. ASSUME Node
        PROVE  UNCHANGED <<mem, disk, pend>>
    BY <1>4 DEF Node, Tick, SyncEnds, Confirm, LdkSplice, LdkChannel
  <1> QED
    BY <1>1, <1>2, <1>3, <1>4, StepCases DEF SetRebalanceEnabled

\* The steps that change what LDK is doing.
LEMMA NodeFrame ==
    ASSUME [Next]_vars
    PROVE  \/ UNCHANGED <<chans, role, nego>>
           \/ \E c \in Callers : SpliceIn(c) \/ OpenChannel(c)
           \/ \E p \in Payers : SpliceOut(p)
           \/ LdkSplice \/ (\E f \in Channels : LdkChannel(f))
           \/ Restart
  <1> USE DEF vars, node
  <1>1. ASSUME NEW c \in Callers, CallerDoes(c)
        PROVE  SpliceIn(c) \/ OpenChannel(c) \/ UNCHANGED <<chans, role, nego>>
    BY <1>1 DEF CallerDoes, Rebalance, Wait, LockBalance, ReadSync, ListNew, ListWith, Announce,
        SelectTrigger, RebalanceFails, AwaitChannel, ChannelWakes, RecordTransfer,
        RebalanceReturns, Register, CheckInbox, Notified
  <1>2. ASSUME NEW p \in Payers, PayerDoes(p)
        PROVE  SpliceOut(p) \/ UNCHANGED <<chans, role, nego>>
    BY <1>2 DEF PayerDoes, Pay, Wait, WriteSpliceOut, UpsertPayment, PayReturns, Register,
        CheckInbox, Notified
  <1>3. ASSUME HandleEvent PROVE UNCHANGED <<chans, role, nego>>
    BY <1>3 DEF HandleEvent, ReserveSlot, UpsertPending, ChannelPending, SpliceNegotiated,
        AddSplicePending, ChannelReady, ChannelClosed, SpliceNegotiationFailed
  <1>4. ASSUME Node
        PROVE  LdkSplice \/ (\E f \in Channels : LdkChannel(f)) \/ UNCHANGED <<chans, role, nego>>
    BY <1>4 DEF Node, Tick, SyncEnds, Confirm
  <1> QED
    BY <1>1, <1>2, <1>3, <1>4, StepCases DEF Flush, SetRebalanceEnabled

\* The steps that change LDK's queue or move its handler.
LEMMA HandlerFrame ==
    ASSUME [Next]_vars
    PROVE  \/ UNCHANGED <<ldkq, hpc>>
           \/ ReserveSlot \/ UpsertPending \/ ChannelPending \/ SpliceNegotiated \/ AddSplicePending \/ ChannelReady \/ ChannelClosed \/ SpliceNegotiationFailed
           \/ LdkSplice \/ (\E f \in Channels : LdkChannel(f))
           \/ Restart
  <1> USE DEF vars, handler
  <1>1. ASSUME NEW c \in Callers, CallerDoes(c)
        PROVE  UNCHANGED <<ldkq, hpc>>
    BY <1>1 DEF CallerDoes, Rebalance, Wait, LockBalance, ReadSync, ListNew, ListWith, Announce,
        SelectTrigger, SpliceIn, OpenChannel, RebalanceFails, AwaitChannel,
        ChannelWakes, RecordTransfer, RebalanceReturns, Register, CheckInbox, Notified
  <1>2. ASSUME NEW p \in Payers, PayerDoes(p)
        PROVE  UNCHANGED <<ldkq, hpc>>
    BY <1>2 DEF PayerDoes, Pay, Wait, SpliceOut, WriteSpliceOut, UpsertPayment, PayReturns,
        Register, CheckInbox, Notified
  <1>3. ASSUME HandleEvent PROVE ReserveSlot \/ UpsertPending \/ ChannelPending \/ SpliceNegotiated \/ AddSplicePending \/ ChannelReady \/ ChannelClosed \/ SpliceNegotiationFailed \/ UNCHANGED <<ldkq, hpc>>
    BY <1>3 DEF HandleEvent
  <1>4. ASSUME Node
        PROVE  LdkSplice \/ (\E f \in Channels : LdkChannel(f)) \/ UNCHANGED <<ldkq, hpc>>
    BY <1>4 DEF Node, Tick, SyncEnds, Confirm
  <1> QED
    BY <1>1, <1>2, <1>3, <1>4, StepCases DEF Flush, SetRebalanceEnabled

\* The steps that touch the inbox, the futures or the flag of the channels.
LEMMA WaitsFrame ==
    ASSUME [Next]_vars
    PROVE  \/ UNCHANGED <<inbox, notified, flag>>
           \/ \E t \in Tasks : Register(t) \/ CheckInbox(t)
           \/ SpliceNegotiated \/ ChannelReady
           \/ Restart
  <1> USE DEF vars, waits
  <1>1. ASSUME NEW c \in Callers, CallerDoes(c)
        PROVE  Register(c) \/ CheckInbox(c) \/ UNCHANGED <<inbox, notified, flag>>
    BY <1>1 DEF CallerDoes, Rebalance, Wait, LockBalance, ReadSync, ListNew, ListWith, Announce,
        SelectTrigger, SpliceIn, OpenChannel, RebalanceFails, AwaitChannel,
        ChannelWakes, RecordTransfer, RebalanceReturns, Notified
  <1>2. ASSUME NEW p \in Payers, PayerDoes(p)
        PROVE  Register(p) \/ CheckInbox(p) \/ UNCHANGED <<inbox, notified, flag>>
    BY <1>2 DEF PayerDoes, Pay, Wait, SpliceOut, WriteSpliceOut, UpsertPayment, PayReturns, Notified
  <1>3. ASSUME HandleEvent PROVE SpliceNegotiated \/ ChannelReady \/ UNCHANGED <<inbox, notified, flag>>
    BY <1>3 DEF HandleEvent, ReserveSlot, UpsertPending, ChannelPending, AddSplicePending,
        ChannelClosed, SpliceNegotiationFailed
  <1>4. ASSUME Node
        PROVE  UNCHANGED <<inbox, notified, flag>>
    BY <1>4 DEF Node, Tick, SyncEnds, Confirm, LdkSplice, LdkChannel
  <1> QED
    BY <1>1, <1>2, <1>3, <1>4, StepCases DEF Tasks, Flush, SetRebalanceEnabled

\* A task moves only in its own steps and in a restart.
LEMMA CallFrame ==
    ASSUME [Next]_vars
    PROVE  \/ UNCHANGED <<lock, call>>
           \/ \E c \in Callers : CallerDoes(c)
           \/ \E p \in Payers : PayerDoes(p)
           \/ Restart
  <1> USE DEF vars
  <1>1. ASSUME HandleEvent PROVE UNCHANGED <<lock, call>>
    BY <1>1 DEF HandleEvent, ReserveSlot, UpsertPending, ChannelPending, SpliceNegotiated,
        AddSplicePending, ChannelReady, ChannelClosed, SpliceNegotiationFailed
  <1>2. ASSUME Node PROVE UNCHANGED <<lock, call>>
    BY <1>2 DEF Node, Tick, SyncEnds, Confirm, LdkSplice, LdkChannel
  <1> QED
    BY <1>1, <1>2, StepCases DEF Flush, SetRebalanceEnabled

\* The steps that switch rebalancing or count a late open.
LEMMA FlagFrame ==
    ASSUME [Next]_vars
    PROVE  \/ UNCHANGED <<enabled, late>>
           \/ \E c \in Callers : OpenChannel(c) \/ RebalanceFails(c)
           \/ ChannelClosed
           \/ (\E b \in BOOLEAN : SetRebalanceEnabled(b))
  <1> USE DEF vars
  <1>1. ASSUME NEW c \in Callers, CallerDoes(c)
        PROVE  OpenChannel(c) \/ RebalanceFails(c) \/ UNCHANGED <<enabled, late>>
    BY <1>1 DEF CallerDoes, Rebalance, Wait, LockBalance, ReadSync, ListNew, ListWith, Announce,
        SelectTrigger, SpliceIn, AwaitChannel, ChannelWakes, RecordTransfer,
        RebalanceReturns, Register, CheckInbox, Notified
  <1>2. ASSUME NEW p \in Payers, PayerDoes(p)
        PROVE  UNCHANGED <<enabled, late>>
    BY <1>2 DEF PayerDoes, Pay, Wait, SpliceOut, WriteSpliceOut, UpsertPayment, PayReturns,
        Register, CheckInbox, Notified
  <1>3. ASSUME HandleEvent PROVE ChannelClosed \/ UNCHANGED <<enabled, late>>
    BY <1>3 DEF HandleEvent, ReserveSlot, UpsertPending, ChannelPending, SpliceNegotiated,
        AddSplicePending, ChannelReady, SpliceNegotiationFailed
  <1>4. ASSUME Node
        PROVE  UNCHANGED <<enabled, late>>
    BY <1>4 DEF Node, Tick, SyncEnds, Confirm, LdkSplice, LdkChannel
  <1> QED
    BY <1>1, <1>2, <1>3, <1>4, StepCases DEF Flush, Restart

\* The step that records a splice-out.
LEMMA OutsFrame ==
    ASSUME [Next]_vars
    PROVE  \/ UNCHANGED outs
           \/ \E p \in Payers : WriteSpliceOut(p)
  <1> USE DEF vars
  <1>1. ASSUME NEW c \in Callers, CallerDoes(c)
        PROVE  UNCHANGED outs
    BY <1>1 DEF CallerDoes, Rebalance, Wait, LockBalance, ReadSync, ListNew, ListWith, Announce,
        SelectTrigger, SpliceIn, OpenChannel, RebalanceFails, AwaitChannel,
        ChannelWakes, RecordTransfer, RebalanceReturns, Register, CheckInbox, Notified
  <1>2. ASSUME NEW p \in Payers, PayerDoes(p)
        PROVE  WriteSpliceOut(p) \/ UNCHANGED outs
    BY <1>2 DEF PayerDoes, Pay, Wait, SpliceOut, UpsertPayment, PayReturns, Register, CheckInbox,
        Notified
  <1>3. ASSUME HandleEvent PROVE UNCHANGED outs
    BY <1>3 DEF HandleEvent, ReserveSlot, UpsertPending, ChannelPending, SpliceNegotiated,
        AddSplicePending, ChannelReady, ChannelClosed, SpliceNegotiationFailed
  <1>4. ASSUME Node
        PROVE  UNCHANGED outs
    BY <1>4 DEF Node, Tick, SyncEnds, Confirm, LdkSplice, LdkChannel
  <1> QED
    BY <1>1, <1>2, <1>3, <1>4, StepCases DEF Flush, SetRebalanceEnabled, Restart

\* The steps that may tear two records apart.
LEMMA SpoiledFrame ==
    ASSUME [Next]_vars
    PROVE  \/ UNCHANGED spoiled
           \/ \E c \in Callers : RecordTransfer(c)
           \/ Restart
  <1> USE DEF vars
  <1>1. ASSUME NEW c \in Callers, CallerDoes(c)
        PROVE  RecordTransfer(c) \/ UNCHANGED spoiled
    BY <1>1 DEF CallerDoes, Rebalance, Wait, LockBalance, ReadSync, ListNew, ListWith, Announce,
        SelectTrigger, SpliceIn, OpenChannel, RebalanceFails, AwaitChannel,
        ChannelWakes, RebalanceReturns, Register, CheckInbox, Notified
  <1>2. ASSUME NEW p \in Payers, PayerDoes(p)
        PROVE  UNCHANGED spoiled
    BY <1>2 DEF PayerDoes, Pay, Wait, SpliceOut, WriteSpliceOut, UpsertPayment, PayReturns,
        Register, CheckInbox, Notified
  <1>3. ASSUME HandleEvent PROVE UNCHANGED spoiled
    BY <1>3 DEF HandleEvent, ReserveSlot, UpsertPending, ChannelPending, SpliceNegotiated,
        AddSplicePending, ChannelReady, ChannelClosed, SpliceNegotiationFailed
  <1>4. ASSUME Node
        PROVE  UNCHANGED spoiled
    BY <1>4 DEF Node, Tick, SyncEnds, Confirm, LdkSplice, LdkChannel
  <1> QED
    BY <1>1, <1>2, <1>3, <1>4, StepCases DEF Flush, SetRebalanceEnabled

\* The steps that may leave an outpoint to the wrong task.
LEMMA MixedFrame ==
    ASSUME [Next]_vars
    PROVE  \/ UNCHANGED mixed
           \/ \E c \in Callers : SpliceIn(c)
           \/ \E p \in Payers : SpliceOut(p)
           \/ SpliceNegotiated
  <1> USE DEF vars, waits
  <1>1. ASSUME NEW c \in Callers, CallerDoes(c)
        PROVE  SpliceIn(c) \/ UNCHANGED mixed
    BY <1>1 DEF CallerDoes, Rebalance, Wait, LockBalance, ReadSync, ListNew, ListWith, Announce,
        SelectTrigger, OpenChannel, RebalanceFails, AwaitChannel, ChannelWakes,
        RecordTransfer, RebalanceReturns, Register, CheckInbox, Notified
  <1>2. ASSUME NEW p \in Payers, PayerDoes(p)
        PROVE  SpliceOut(p) \/ UNCHANGED mixed
    BY <1>2 DEF PayerDoes, Pay, Wait, WriteSpliceOut, UpsertPayment, PayReturns, Register,
        CheckInbox, Notified
  <1>3. ASSUME HandleEvent PROVE SpliceNegotiated \/ UNCHANGED mixed
    BY <1>3 DEF HandleEvent, ReserveSlot, UpsertPending, ChannelPending, AddSplicePending,
        ChannelReady, ChannelClosed, SpliceNegotiationFailed
  <1>4. ASSUME Node
        PROVE  UNCHANGED mixed
    BY <1>4 DEF Node, Tick, SyncEnds, Confirm, LdkSplice, LdkChannel
  <1> QED
    BY <1>1, <1>2, <1>3, <1>4, StepCases DEF Flush, SetRebalanceEnabled, Restart

\* The steps that fail.
LEMMA FaultFrame ==
    ASSUME [Next]_vars
    PROVE  \/ UNCHANGED <<errors, crashes>>
           \/ ChannelPending \/ AddSplicePending \/ ChannelReady \/ ChannelClosed \/ SpliceNegotiationFailed
           \/ Restart
  <1> USE DEF vars, handler
  <1>1. ASSUME NEW c \in Callers, CallerDoes(c)
        PROVE  UNCHANGED <<errors, crashes>>
    BY <1>1 DEF CallerDoes, Rebalance, Wait, LockBalance, ReadSync, ListNew, ListWith, Announce,
        SelectTrigger, SpliceIn, OpenChannel, RebalanceFails, AwaitChannel,
        ChannelWakes, RecordTransfer, RebalanceReturns, Register, CheckInbox, Notified
  <1>2. ASSUME NEW p \in Payers, PayerDoes(p)
        PROVE  UNCHANGED <<errors, crashes>>
    BY <1>2 DEF PayerDoes, Pay, Wait, SpliceOut, WriteSpliceOut, UpsertPayment, PayReturns,
        Register, CheckInbox, Notified
  <1>3. ASSUME HandleEvent PROVE ChannelPending \/ AddSplicePending \/ ChannelReady \/ ChannelClosed \/ SpliceNegotiationFailed \/ UNCHANGED <<errors, crashes>>
    BY <1>3 DEF HandleEvent, ReserveSlot, UpsertPending, SpliceNegotiated
  <1>4. ASSUME Node
        PROVE  UNCHANGED <<errors, crashes>>
    BY <1>4 DEF Node, Tick, SyncEnds, Confirm, LdkSplice, LdkChannel
  <1> QED
    BY <1>1, <1>2, <1>3, <1>4, StepCases DEF Flush, SetRebalanceEnabled

(***************************************************************************)
(* The types are kept, part by part.                                       *)
(***************************************************************************)

\* The clock only moves on, and neither a sync nor a scan is ahead of it.
LEMMA ClockStep ==
    ASSUME TypeInv, [Next]_vars
    PROVE  ClockOK' /\ synced <= synced' /\ scanned <= scanned'
  <1> USE DEF ClockOK
  <1>0. /\ ClockOK /\ MaxTime \in Nat
        /\ now \in Nat /\ synced \in Nat /\ scanned \in Nat
    BY OnchainAssumption DEF TypeInv
  <1>1. CASE UNCHANGED <<now, synced, conf, scanned>>
    BY <1>0, <1>1
  <1>2. CASE Tick
    <2>1. UNCHANGED <<synced, conf, scanned>> /\ now' = now + 1 /\ now < MaxTime
      BY <1>2 DEF Tick, trigger
    <2>2. 0..now \subseteq 0..now'
      BY <2>1, <1>0
    <2>3. conf' \in [Receipts -> 0..now']
      BY <2>1, <2>2, <1>0
    <2> QED
      BY <2>1, <2>3, <1>0
  <1>3. CASE SyncEnds
    BY <1>0, <1>3 DEF SyncEnds, trigger
  <1>4. CASE Restart
    BY <1>0, <1>4 DEF Restart, clock
  <1>5. ASSUME NEW r \in Receipts, Confirm(r) PROVE ClockOK' /\ UNCHANGED <<synced, scanned>>
    BY <1>0, <1>5 DEF Confirm
  <1>6. ASSUME NEW c \in Callers, ListNew(c)
        PROVE  ClockOK' /\ UNCHANGED synced /\ scanned <= scanned'
    <2>1. /\ scanned' = call[c].new /\ UNCHANGED <<now, synced, conf>>
          /\ call[c].new \in scanned..synced
      BY <1>6 DEF ListNew, ListWith, clock, TypeInv, CallShape
    <2> QED
      BY <2>1, <1>0
  <1> QED
    BY <1>0, <1>1, <1>2, <1>3, <1>4, <1>5, <1>6, ClockFrame

\* Announcements and excuses are about receipts.
LEMMA TriggerStep ==
    ASSUME TypeInv, [Next]_vars
    PROVE  TriggerOK'
  <1> USE DEF TriggerOK
  <1>0. TriggerOK
    BY DEF TypeInv
  <1>1. CASE Restart
    BY <1>0, <1>1 DEF Restart
  <1>2. ASSUME NEW r \in Receipts, Confirm(r) PROVE TriggerOK'
    BY <1>0, <1>2 DEF Confirm
  <1>3. ASSUME NEW c \in Callers, Announce(c) PROVE TriggerOK'
    BY <1>0, <1>3 DEF Announce
  <1> QED
    BY <1>0, <1>1, <1>2, <1>3, TriggerFrame

\* Setting entries of the metadata keeps its types.
LEMMA DoSetType ==
    ASSUME MetaOK, NEW t \in Tasks \cup {Ldk}, NEW S \in SUBSET Ids, NEW m \in [S -> Meta],
           DoSet(t, m)
    PROVE  MetaOK'
  <1>1. mem' \in [Ids -> Meta] /\ disk' = disk
    BY DEF DoSet, MetaOK
  <1>2. {[id |-> i, meta |-> m[i]] : i \in DOMAIN m} \subseteq Write
    BY DEF Write
  <1>3. pend' \in [Tasks \cup {Ldk} -> SUBSET Write]
    BY <1>2 DEF DoSet, MetaOK
  <1> QED
    BY <1>1, <1>3 DEF MetaOK

\* The metadata the code sets.
LEMMA MetaValues ==
    /\ \A ty \in {"none", "payment", "trigger", "pending"} :
          Plain(ty) \in Meta /\ Plain(ty).ty = ty
    /\ \A r \in Receipts :
          Transfer(r) \in Meta /\ Transfer(r).ty = "transfer" /\ Transfer(r).trigger = r
  BY DEF Plain, Transfer, Meta

\* The event the handler is busy with is one of LDK's.
LEMMA EventType ==
    ASSUME HandlerOK, ldkq # <<>>
    PROVE  Event \in LdkEvent /\ Event.txo \in Fundings /\ Event.ch \in Channels
           /\ Tail(ldkq) \in Seq(LdkEvent)
  <1>1. Event \in LdkEvent /\ Tail(ldkq) \in Seq(LdkEvent)
    BY HeadTailProperties DEF HandlerOK, Event
  <1> QED
    BY <1>1 DEF LdkEvent

\* The metadata, in memory, on disk and on its way, is about transactions.
LEMMA MetaStep ==
    ASSUME TypeInv, [Next]_vars
    PROVE  MetaOK'
  <1>0. MetaOK /\ Receipts \subseteq Ids /\ Fundings \subseteq Ids
    BY DEF TypeInv, Ids
  <1>1. CASE UNCHANGED <<mem, disk, pend>>
    BY <1>0, <1>1 DEF MetaOK
  <1>2. CASE Restart
    BY <1>0, <1>2 DEF Restart, MetaOK
  <1>3. ASSUME NEW t \in Tasks \cup {Ldk}, Flush(t) PROVE MetaOK'
    <2>1. PICK w \in pend[t] : /\ disk' = [disk EXCEPT ![w.id] = w.meta]
                               /\ pend' = [pend EXCEPT ![t] = pend[t] \ {w}]
      BY <1>3 DEF Flush
    <2>2. w.meta \in Meta
      BY <1>0 DEF MetaOK, Write
    <2> QED
      BY <1>0, <1>3, <2>1, <2>2 DEF Flush, MetaOK
  <1>4. ASSUME NEW c \in Callers, SelectTrigger(c) PROVE MetaOK'
    <2>1. CASE UNCHANGED meta
      BY <2>1, <1>0 DEF meta, MetaOK
    <2>2. ASSUME NEW r \in Receipts, DoSet(c, [i \in {r} |-> Plain("payment")]) PROVE MetaOK'
      <3>1. [i \in {r} |-> Plain("payment")] \in [{r} -> Meta] /\ {r} \in SUBSET Ids
        BY <1>0, MetaValues
      <3> QED
        BY <3>1, <2>2, <1>0, DoSetType DEF Tasks
    <2> QED
      BY <1>4, <2>1, <2>2 DEF SelectTrigger, Candidates
  <1>5. ASSUME NEW c \in Callers, RecordTransfer(c) PROVE MetaOK'
    <2>1. CASE UNCHANGED meta
      BY <2>1, <1>0 DEF meta, MetaOK
    <2>2. CASE DoSet(c, [i \in {call[c].trig, call[c].txo} |->
                           IF i = call[c].trig THEN Plain("trigger") ELSE Transfer(call[c].trig)])
      <3>1. call[c].trig \in Receipts /\ call[c].txo \in Fundings
        BY <1>5 DEF RecordTransfer, TypeInv, CallShape, Tasks
      <3>2. PICK r \in Receipts, f \in Fundings : r = call[c].trig /\ f = call[c].txo
        BY <3>1
      <3>3. [i \in {r, f} |-> IF i = r THEN Plain("trigger") ELSE Transfer(r)] \in [{r, f} -> Meta]
        BY MetaValues
      <3>4. {r, f} \in SUBSET Ids
        BY <1>0
      <3>5. DoSet(c, [i \in {r, f} |-> IF i = r THEN Plain("trigger") ELSE Transfer(r)])
        BY <2>2, <3>2
      <3> QED
        BY <3>3, <3>4, <3>5, <1>0, DoSetType DEF Tasks
    <2> QED
      BY <1>5, <2>1, <2>2 DEF RecordTransfer
  <1>6. ASSUME NEW p \in Payers, UpsertPayment(p) PROVE MetaOK'
    <2>1. PICK f \in Fundings : f = call[p].txo
      BY <1>6 DEF UpsertPayment, TypeInv, CallShape, Tasks
    <2>2. [i \in {f} |-> Plain("payment")] \in [{f} -> Meta] /\ {f} \in SUBSET Ids
      BY <1>0, MetaValues
    <2> QED
      BY <2>1, <2>2, <1>0, <1>6, DoSetType DEF UpsertPayment, Tasks
  <1>7. ASSUME UpsertPending PROVE MetaOK'
    <2>1. PICK f \in Fundings : f = Event.txo
      BY <1>7, EventType DEF UpsertPending, TypeInv, HandlerOK
    <2>2. [i \in {f} |-> Plain("pending")] \in [{f} -> Meta] /\ {f} \in SUBSET Ids
      BY <1>0, MetaValues
    <2> QED
      BY <2>1, <2>2, <1>0, <1>7, DoSetType DEF UpsertPending
  <1> QED
    BY <1>1, <1>2, <1>3, <1>4, <1>5, <1>6, <1>7, MetaFrame

\* LDK's channels, the roles of transactions and the splice being negotiated.
LEMMA NodeStep ==
    ASSUME TypeInv, [Next]_vars
    PROVE  NodeOK'
  <1> USE DEF NodeOK
  <1>0. NodeOK /\ Channels \subseteq Fundings /\ Splices \subseteq Fundings
    BY DEF TypeInv, Fundings
  <1>1. CASE UNCHANGED <<chans, role, nego>>
    BY <1>0, <1>1
  <1>2. CASE Restart
    BY <1>0, <1>2 DEF Restart
  <1>3. ASSUME NEW t \in Tasks, NEW purpose \in {"in", "out"}, BeginSplice(t, purpose), UNCHANGED chans
        PROVE  NodeOK'
    BY <1>0, <1>3 DEF BeginSplice
  <1>4. ASSUME NEW c \in Callers, SpliceIn(c) PROVE NodeOK'
    BY <1>3, <1>4 DEF SpliceIn, Tasks
  <1>5. ASSUME NEW p \in Payers, SpliceOut(p) PROVE NodeOK'
    BY <1>3, <1>5 DEF SpliceOut, Tasks
  <1>6. ASSUME NEW c \in Callers, OpenChannel(c) PROVE NodeOK'
    BY <1>0, <1>6 DEF OpenChannel
  <1>7. ASSUME LdkSplice PROVE NodeOK'
    BY <1>0, <1>7 DEF LdkSplice
  <1>8. ASSUME NEW f \in Channels, LdkChannel(f) PROVE NodeOK'
    BY <1>0, <1>8 DEF LdkChannel, ChannelStep
  <1> QED
    BY <1>1, <1>2, <1>4, <1>5, <1>6, <1>7, <1>8, NodeFrame

\* LDK's queue holds its events, and the handler is busy with the first.
LEMMA HandlerStep ==
    ASSUME TypeInv, [Next]_vars
    PROVE  HandlerOK'
  <1>0. HandlerOK /\ NodeOK /\ Channels \subseteq Fundings
    BY DEF TypeInv, Fundings
  <1>1. CASE UNCHANGED <<ldkq, hpc>>
    BY <1>0, <1>1 DEF HandlerOK
  <1>2. CASE Restart
    BY <1>0, <1>2 DEF Restart, HandlerOK
  <1>3. ASSUME ldkq # <<>>, hpc' = "idle", ldkq' = ldkq \/ ldkq' = Tail(ldkq) PROVE HandlerOK'
    BY <1>0, <1>3, EventType DEF HandlerOK
  <1>4. ASSUME ldkq # <<>>, ldkq' = ldkq, hpc' \in {"reserve", "reserved", "delivered"}
        PROVE  HandlerOK'
    BY <1>0, <1>4 DEF HandlerOK
  <1>5. CASE ReserveSlot \/ UpsertPending \/ SpliceNegotiated
    BY <1>0, <1>4, <1>5 DEF ReserveSlot, UpsertPending, SpliceNegotiated, Is, HandlerOK
  <1>6. CASE ChannelPending \/ AddSplicePending \/ ChannelReady \/ ChannelClosed
             \/ SpliceNegotiationFailed
    BY <1>0, <1>3, <1>6 DEF ChannelPending, AddSplicePending, ChannelReady, ChannelClosed,
        SpliceNegotiationFailed, Is, Done, Fail, HandlerOK
  <1>7. ASSUME NEW ev \in {"pending", "ready", "closed", "negotiated", "failed"},
               NEW ch \in Channels, NEW txo \in Fundings, Emit(ev, ch, txo), UNCHANGED hpc
        PROVE  HandlerOK'
    <2>1. [ev |-> ev, ch |-> ch, txo |-> txo] \in LdkEvent
      BY DEF LdkEvent
    <2>2. PICK e \in LdkEvent : ldkq' = Append(ldkq, e)
      BY <1>7, <2>1 DEF Emit
    <2>3. ldkq' \in Seq(LdkEvent) /\ ldkq' # <<>>
      BY <2>2, <1>0, AppendProperties DEF HandlerOK
    <2> QED
      BY <2>3, <1>0, <1>7 DEF HandlerOK
  <1>8. ASSUME LdkSplice PROVE HandlerOK'
    <2>1. nego.ch \in Channels /\ nego.txo \in Fundings
      BY <1>0, <1>8 DEF LdkSplice, NodeOK
    <2> QED
      BY <2>1, <1>7, <1>8 DEF LdkSplice
  <1>9. ASSUME NEW f \in Channels, LdkChannel(f) PROVE HandlerOK'
    <2>1. f \in Fundings
      BY <1>0
    <2> QED
      BY <2>1, <1>7, <1>9 DEF LdkChannel, ChannelStep
  <1> QED
    BY <1>1, <1>2, <1>5, <1>6, <1>8, <1>9, HandlerFrame

\* The inbox holds outpoints.
LEMMA WaitsStep ==
    ASSUME TypeInv, [Next]_vars
    PROVE  WaitsOK'
  <1> USE DEF WaitsOK
  <1>0. WaitsOK /\ HandlerOK
    BY DEF TypeInv
  <1>1. CASE UNCHANGED <<inbox, notified, flag>>
    BY <1>0, <1>1
  <1>2. CASE Restart
    BY <1>0, <1>2 DEF Restart
  <1>3. CASE SpliceNegotiated
    <2>1. Event.ch \in Channels /\ Event.txo \in Fundings
      BY <1>0, <1>3, EventType DEF SpliceNegotiated, Is
    <2>2. Append(inbox[Event.ch], Event.txo) \in Seq(Fundings)
      BY <1>0, <2>1, AppendProperties
    <2> QED
      BY <1>0, <1>3, <2>1, <2>2 DEF SpliceNegotiated, Enabled
  <1>4. CASE ChannelReady
    <2>1. Event.ch \in Channels
      BY <1>0, <1>4, EventType DEF ChannelReady, Is
    <2> QED
      BY <1>0, <1>4, <2>1 DEF ChannelReady
  <1>5. ASSUME NEW t \in Tasks, Register(t) PROVE WaitsOK'
    BY <1>0, <1>5 DEF Register
  <1>6. ASSUME NEW t \in Tasks, CheckInbox(t) PROVE WaitsOK'
    <2>1. call[t].ch \in Channels
      BY <1>6 DEF CheckInbox, TypeInv, CallShape, Waited, Waiting
    <2>2. inbox[call[t].ch] # <<>> => Tail(inbox[call[t].ch]) \in Seq(Fundings)
      BY <1>0, <2>1, HeadTailProperties
    <2> QED
      BY <1>0, <1>6, <2>1, <2>2 DEF CheckInbox
  <1> QED
    BY <1>1, <1>2, <1>3, <1>4, <1>5, <1>6, WaitsFrame

\* The flag, the counters and the history.
LEMMA RestStep ==
    ASSUME TypeInv, [Next]_vars
    PROVE  RestOK'
  <1>0. RestOK /\ MaxFaults \in Nat
    BY OnchainAssumption DEF TypeInv
  <1>1. enabled' \in BOOLEAN /\ late' \in Nat
    <2>1. enabled' = enabled \/ enabled' = FALSE \/ enabled' = TRUE
      BY FlagFrame, Zenon DEF ChannelClosed, SetRebalanceEnabled, OpenChannel, RebalanceFails
    <2>2. late' = late \/ late' = late + 1 \/ late' = 0
      BY FlagFrame, Zenon DEF ChannelClosed, SetRebalanceEnabled, OpenChannel, RebalanceFails
    <2>3. late \in Nat /\ enabled \in BOOLEAN
      BY <1>0 DEF RestOK
    <2>4. late' \in Nat
      BY ONLY <2>2, <2>3
    <2>5. enabled' \in BOOLEAN
      BY ONLY <2>1, <2>3
    <2> QED
      BY <2>4, <2>5
  <1>2. outs' \subseteq Fundings
    BY <1>0, OutsFrame DEF RestOK, WriteSpliceOut, TypeInv, CallShape, Tasks
  <1>3. spoiled' \subseteq Receipts
    <2>1. \A c \in Callers : call[c].pc \in {"record", "written"} => call[c].trig \in Receipts
      BY DEF TypeInv, CallShape
    <2>2. ASSUME NEW c \in Callers, RecordTransfer(c) PROVE spoiled' \subseteq Receipts
      BY <1>0, <2>1, <2>2 DEF RestOK, RecordTransfer
    <2>3. CASE Restart
      BY <1>0, <2>1, <2>3 DEF RestOK, Restart
    <2> QED
      BY <1>0, <2>2, <2>3, SpoiledFrame DEF RestOK
  <1>4. mixed' \in BOOLEAN
    BY <1>0, MixedFrame DEF RestOK, SpliceIn, SpliceOut, BeginSplice, SpliceNegotiated
  <1>5. errors' \in Nat /\ crashes' \in Nat /\ errors' + crashes' <= MaxFaults
    <2>1. \/ UNCHANGED <<errors, crashes>>
          \/ errors + crashes < MaxFaults /\ errors' = errors + 1 /\ UNCHANGED crashes
          \/ errors + crashes < MaxFaults /\ crashes' = crashes + 1 /\ UNCHANGED errors
      BY FaultFrame, Zenon DEF ChannelPending, AddSplicePending, ChannelReady, ChannelClosed,
        SpliceNegotiationFailed, Done, Fail, Restart
    <2> QED
      BY <1>0, <2>1 DEF RestOK
  <1> QED
    BY <1>1, <1>2, <1>3, <1>4, <1>5 DEF RestOK

(***************************************************************************)
(* What a step makes of the calls, field by field.                         *)
(***************************************************************************)

\* Only t's call changes.
Only(t) ==
    /\ call' \in [Tasks -> Call]
    /\ \A u \in Tasks : u # t => call'[u] = call[u]

\* What t has found out about the scan, and about its transaction, stays.
SameScan(t) ==
    call'[t].old = call[t].old /\ call'[t].new = call[t].new /\ call'[t].todo = call[t].todo

SameFunding(t) ==
    /\ call'[t].trig = call[t].trig /\ call'[t].ch = call[t].ch
    /\ call'[t].own = call[t].own /\ call'[t].txo = call[t].txo

\* An idle call has found out nothing.
LEMMA IdleCall ==
    /\ Idle \in Call /\ Idle.pc = "idle" /\ Idle.todo = {} /\ Idle.old = 0 /\ Idle.new = 0
    /\ Idle.trig = None /\ Idle.ch = None /\ Idle.own = None /\ Idle.txo = None
  BY OnchainAssumption DEF Idle, Call

\* Moving on to another label.
LEMMA GotoCall ==
    ASSUME LockOK, NEW t \in Tasks, NEW l \in {"idle", "panic", "upsert"} \cup Working, Goto(t, l)
    PROVE  Only(t) /\ call'[t].pc = l /\ SameScan(t) /\ SameFunding(t)
  BY DEF LockOK, Goto, Only, SameScan, SameFunding, Call

\* Returning.
LEMMA UnlockCall ==
    ASSUME LockOK, NEW c \in Callers, Unlock(c)
    PROVE  Only(c) /\ call'[c] = Idle /\ lock' = None
  BY IdleCall DEF LockOK, Unlock, Only, Tasks

\* needs_onchain_rebalance has read the flag and the times.
LEMMA ReadCall ==
    ASSUME TypeInv, NEW c \in Callers, ReadSync(c)
    PROVE  \/ Unlock(c)
           \/ /\ Only(c) /\ call'[c].pc = "list" /\ enabled
              /\ call'[c].old = scanned /\ call'[c].new = synced
              /\ call'[c].todo = call[c].todo /\ SameFunding(c)
              /\ UNCHANGED lock
  <1>0. scanned \in 0..MaxTime /\ synced \in 0..MaxTime
    BY OnchainAssumption DEF TypeInv, ClockOK
  <1>1. CASE ~Unlock(c)
    <2>1. /\ call' = [call EXCEPT ![c].pc = "list", ![c].old = scanned, ![c].new = synced]
          /\ UNCHANGED lock /\ enabled
      BY <1>1 DEF ReadSync
    <2>2. c \in Tasks /\ call \in [Tasks -> Call]
      BY DEF TypeInv, LockOK, Tasks
    <2>3. PICK q : q = [call[c] EXCEPT !.pc = "list", !.old = scanned, !.new = synced]
      OBVIOUS
    <2>4. q \in Call
      BY <2>2, <2>3, <1>0 DEF Call, Working
    <2>5. call' = [call EXCEPT ![c] = q]
      BY <2>1, <2>2, <2>3
    <2>6. Only(c) /\ call'[c] = q
      BY <2>2, <2>4, <2>5 DEF Only
    <2> QED
      BY <2>1, <2>2, <2>3, <2>6 DEF SameFunding, Call
  <1> QED
    BY <1>1

\* ... listed the new receipts
LEMMA ListCall ==
    ASSUME TypeInv, NEW c \in Callers, ListNew(c)
    PROVE  /\ Only(c) /\ call'[c].pc = "announce"
           /\ call'[c].todo = {r \in Receipts : conf[r] > call[c].old}
           /\ call'[c].old = call[c].old /\ call'[c].new = call[c].new /\ SameFunding(c)
  <1>1. PICK S \in SUBSET Receipts : S = {r \in Receipts : conf[r] > call[c].old}
    OBVIOUS
  <1>2. call' = [call EXCEPT ![c].pc = "announce", ![c].todo = S]
    BY <1>1 DEF ListNew, ListWith
  <1>3. c \in Tasks /\ call \in [Tasks -> Call]
    BY DEF TypeInv, LockOK, Tasks
  <1>4. PICK q : q = [call[c] EXCEPT !.pc = "announce", !.todo = S]
    OBVIOUS
  <1>5. q \in Call /\ q.todo = S
    BY <1>3, <1>4 DEF Call, Working
  <1>6. call' = [call EXCEPT ![c] = q]
    BY <1>2, <1>3, <1>4
  <1>7. Only(c) /\ call'[c] = q
    BY <1>3, <1>5, <1>6 DEF Only
  <1> QED
    BY <1>1, <1>3, <1>4, <1>5, <1>7 DEF SameFunding, Call

\* ... and announced one of them, or all.
LEMMA AnnounceCall ==
    ASSUME TypeInv, NEW c \in Callers, Announce(c)
    PROVE  /\ Only(c) /\ SameFunding(c)
           /\ call'[c].old = call[c].old /\ call'[c].new = call[c].new
           /\ \/ /\ call'[c].pc = "announce"
                 /\ \E r \in call[c].todo :
                       /\ call'[c].todo = call[c].todo \ {r}
                       /\ told' = [told EXCEPT ![r] =
                                     IF conf[r] > call[c].new THEN "early" ELSE "yes"]
              \/ /\ call'[c].pc = "select" /\ call[c].todo = {} /\ call'[c].todo = {}
                 /\ UNCHANGED told
  <1>0. c \in Tasks /\ call \in [Tasks -> Call]
    BY DEF TypeInv, LockOK, Tasks
  <1>1. ASSUME NEW r \in call[c].todo, call' = [call EXCEPT ![c].todo = call[c].todo \ {r}]
        PROVE  /\ Only(c) /\ SameFunding(c) /\ call'[c].pc = call[c].pc
               /\ call'[c].old = call[c].old /\ call'[c].new = call[c].new
               /\ call'[c].todo = call[c].todo \ {r}
    <2>1. call[c].todo \ {r} \in SUBSET Receipts
      BY <1>0 DEF Call
    <2> QED
      BY <1>0, <1>1, <2>1 DEF Only, SameFunding, Call
  <1>2. CASE Goto(c, "select") /\ call[c].todo = {} /\ UNCHANGED told
    BY <1>0, <1>2, GotoCall DEF TypeInv, SameScan, Working
  <1> QED
    BY <1>1, <1>2 DEF Announce

\* The trigger found a receipt to blame.
LEMMA SelectCall ==
    ASSUME TypeInv, NEW c \in Callers, SelectTrigger(c)
    PROVE  \/ Unlock(c) /\ UNCHANGED meta
           \/ \E r \in Receipts :
                 /\ Only(c) /\ call'[c].pc = "start" /\ call'[c].trig = r /\ UNCHANGED lock
                 /\ call'[c].todo = {} /\ call'[c].ch = None /\ call'[c].own = None
                 /\ mem[r].ty \in {"none", "payment"}
                 /\ IF mem[r].ty = "none" THEN DoSet(c, [i \in {r} |-> Plain("payment")])
                    ELSE UNCHANGED meta
  <1>0. c \in Tasks /\ call \in [Tasks -> Call]
    BY DEF TypeInv, LockOK, Tasks
  <1>1. ASSUME NEW r \in Receipts,
               call' = [call EXCEPT ![c] = [Idle EXCEPT !.pc = "start", !.trig = r]]
        PROVE  /\ Only(c) /\ call'[c].pc = "start" /\ call'[c].trig = r
               /\ call'[c].todo = {} /\ call'[c].ch = None /\ call'[c].own = None
    <2>1. PICK q : q = [Idle EXCEPT !.pc = "start", !.trig = r]
      OBVIOUS
    <2>2. /\ q \in Call /\ q.pc = "start" /\ q.trig = r
          /\ q.todo = {} /\ q.ch = None /\ q.own = None
      BY <2>1, IdleCall DEF Call, Working
    <2>3. call' = [call EXCEPT ![c] = q]
      BY <1>1, <2>1
    <2> QED
      BY <1>0, <2>2, <2>3 DEF Only
  <1> QED
    BY <1>1 DEF SelectTrigger, Candidates

\* A splice was accepted.
LEMMA SpliceCall ==
    ASSUME TypeInv, NEW t \in Tasks, NEW purpose, BeginSplice(t, purpose)
    PROVE  \E ch \in Channels, f \in Splices :
              /\ chans[ch] = "ready" /\ nego = None /\ role[f] = "unused"
              /\ nego' = [ch |-> ch, txo |-> f]
              /\ role' = [role EXCEPT ![f] = purpose]
              /\ mixed' = (mixed \/ \E u \in Tasks : WaitsOn(u, ch))
              /\ Only(t) /\ SameScan(t) /\ call'[t].pc = "register"
              /\ call'[t].trig = call[t].trig /\ call'[t].ch = ch /\ call'[t].own = f
  <1>0. call \in [Tasks -> Call]
    BY DEF TypeInv, LockOK
  <1>1. ASSUME NEW ch \in Channels, NEW f \in Splices,
               call' = [call EXCEPT ![t].pc = "register", ![t].ch = ch, ![t].own = f]
        PROVE  /\ Only(t) /\ SameScan(t) /\ call'[t].pc = "register"
               /\ call'[t].trig = call[t].trig /\ call'[t].ch = ch /\ call'[t].own = f
    <2>1. PICK q : q = [call[t] EXCEPT !.pc = "register", !.ch = ch, !.own = f]
      OBVIOUS
    <2>2. q \in Call
      BY <1>0, <2>1 DEF Call, Working, Waiting, Fundings
    <2>3. call' = [call EXCEPT ![t] = q]
      BY <1>0, <1>1, <2>1
    <2>4. Only(t) /\ call'[t] = q
      BY <1>0, <2>2, <2>3 DEF Only
    <2> QED
      BY <1>0, <2>1, <2>4 DEF SameScan, Call
  <1> QED
    BY <1>1, Zenon DEF BeginSplice

\* A channel was asked for.
LEMMA OpenCall ==
    ASSUME TypeInv, NEW c \in Callers, OpenChannel(c)
    PROVE  \E f \in Channels :
              /\ role[f] = "unused" /\ role' = [role EXCEPT ![f] = "open"]
              /\ chans' = [chans EXCEPT ![f] = "opening"]
              /\ Only(c) /\ SameScan(c) /\ call'[c].pc = "channel"
              /\ call'[c].trig = call[c].trig /\ call'[c].ch = f /\ call'[c].own = f
  <1>0. call \in [Tasks -> Call] /\ c \in Tasks
    BY DEF TypeInv, LockOK, Tasks
  <1>1. ASSUME NEW f \in Channels,
               call' = [call EXCEPT ![c].pc = "channel", ![c].ch = f, ![c].own = f]
        PROVE  /\ Only(c) /\ SameScan(c) /\ call'[c].pc = "channel"
               /\ call'[c].trig = call[c].trig /\ call'[c].ch = f /\ call'[c].own = f
    <2>1. PICK q : q = [call[c] EXCEPT !.pc = "channel", !.ch = f, !.own = f]
      OBVIOUS
    <2>2. q \in Call
      BY <1>0, <2>1 DEF Call, Working, Fundings
    <2>3. call' = [call EXCEPT ![c] = q]
      BY <1>0, <1>1, <2>1
    <2>4. Only(c) /\ call'[c] = q
      BY <1>0, <2>2, <2>3 DEF Only
    <2> QED
      BY <1>0, <2>1, <2>4 DEF SameScan, Call
  <1> QED
    BY <1>1, Zenon DEF OpenChannel

\* A task has its outpoint.
LEMMA OutpointCall ==
    ASSUME LockOK, NEW t \in Tasks, NEW f \in Fundings,
           call' = [call EXCEPT ![t].pc = "record", ![t].txo = f]
    PROVE  /\ Only(t) /\ SameScan(t) /\ call'[t].pc = "record" /\ call'[t].txo = f
           /\ call'[t].trig = call[t].trig /\ call'[t].ch = call[t].ch
           /\ call'[t].own = call[t].own
  <1>0. call \in [Tasks -> Call]
    BY DEF LockOK
  <1>1. PICK q : q = [call[t] EXCEPT !.pc = "record", !.txo = f]
    OBVIOUS
  <1>2. q \in Call
    BY <1>0, <1>1 DEF Call, Working, Fundings
  <1>3. call' = [call EXCEPT ![t] = q]
    BY <1>0, <1>1
  <1>4. Only(t) /\ call'[t] = q
    BY <1>0, <1>2, <1>3 DEF Only
  <1> QED
    BY <1>0, <1>1, <1>4 DEF SameScan, Call

\* A caller looked at the channels.
LEMMA AwaitCall ==
    ASSUME TypeInv, NEW c \in Callers, AwaitChannel(c)
    PROVE  /\ Only(c) /\ SameScan(c)
           /\ call'[c].trig = call[c].trig /\ call'[c].ch = call[c].ch
           /\ call'[c].own = call[c].own
           /\ \/ call'[c].pc = "sleepChannel"
              \/ call'[c].pc = "record" /\ call'[c].txo = call[c].ch
  <1>0. c \in Tasks /\ LockOK /\ call[c].ch \in Fundings
    BY DEF TypeInv, CallShape, Tasks, Waited, AwaitChannel, Fundings
  <1>1. CASE Goto(c, "sleepChannel")
    BY <1>0, <1>1, GotoCall DEF SameFunding, Working
  <1>2. CASE call' = [call EXCEPT ![c].pc = "record", ![c].txo = call[c].ch]
    BY <1>0, <1>2, OutpointCall
  <1> QED
    BY <1>1, <1>2 DEF AwaitChannel

\* A task looked into the inbox.
LEMMA CheckCall ==
    ASSUME TypeInv, NEW t \in Tasks, CheckInbox(t)
    PROVE  /\ Only(t) /\ SameScan(t) /\ call[t].ch \in Channels
           /\ call'[t].trig = call[t].trig /\ call'[t].ch = call[t].ch
           /\ call'[t].own = call[t].own
           /\ \/ /\ call'[t].pc = "sleep" /\ inbox[call[t].ch] = <<>> /\ UNCHANGED inbox
              \/ /\ call'[t].pc = "record" /\ inbox[call[t].ch] # <<>>
                 /\ call'[t].txo = Head(inbox[call[t].ch])
                 /\ call'[t].txo \in Fundings
                 /\ inbox' = [inbox EXCEPT ![call[t].ch] = Tail(inbox[call[t].ch])]
  <1>0. LockOK /\ call[t].ch \in Channels /\ inbox[call[t].ch] \in Seq(Fundings)
    BY DEF TypeInv, CallShape, WaitsOK, Waited, Waiting, CheckInbox
  <1>1. CASE inbox[call[t].ch] = <<>>
    <2>1. Goto(t, "sleep") /\ UNCHANGED inbox
      BY <1>1 DEF CheckInbox
    <2> QED
      BY <1>0, <1>1, <2>1, GotoCall DEF SameFunding, Working, Waiting
  <1>2. CASE inbox[call[t].ch] # <<>>
    <2>1. PICK f \in Fundings : f = Head(inbox[call[t].ch])
      BY <1>0, <1>2, HeadTailProperties
    <2>2. /\ call' = [call EXCEPT ![t].pc = "record", ![t].txo = f]
          /\ inbox' = [inbox EXCEPT ![call[t].ch] = Tail(inbox[call[t].ch])]
      BY <1>2, <2>1 DEF CheckInbox
    <2> QED
      BY <1>0, <1>2, <2>1, <2>2, OutpointCall
  <1> QED
    BY <1>1, <1>2

\* The event handler was told of the transfer.
LEMMA RecordCall ==
    ASSUME TypeInv, NEW c \in Callers, RecordTransfer(c)
    PROVE  /\ Only(c) /\ call[c].trig \in Receipts /\ call[c].txo \in Fundings
           /\ \/ /\ call'[c].pc = "written" /\ UNCHANGED lock /\ SameScan(c) /\ SameFunding(c)
                 /\ mem[call[c].trig].ty = "payment"
              \/ /\ call'[c].pc = "panic" /\ lock' = None /\ call'[c].todo = {}
                 /\ UNCHANGED <<meta, spoiled>>
  <1>0. c \in Tasks /\ LockOK /\ call[c].trig \in Receipts /\ call[c].txo \in Fundings
    BY DEF TypeInv, CallShape, Tasks, RecordTransfer
  <1>1. CASE Goto(c, "written") /\ UNCHANGED lock /\ mem[call[c].trig].ty = "payment"
    BY <1>0, <1>1, GotoCall DEF Working
  <1>2. CASE /\ call' = [call EXCEPT ![c] = [Idle EXCEPT !.pc = "panic"]] /\ lock' = None
             /\ UNCHANGED <<meta, spoiled>>
    <2>1. PICK q : q = [Idle EXCEPT !.pc = "panic"]
      OBVIOUS
    <2>2. q \in Call /\ q.pc = "panic" /\ q.todo = {}
      BY <2>1, IdleCall DEF Call
    <2>3. call' = [call EXCEPT ![c] = q]
      BY <1>2, <2>1
    <2> QED
      BY <1>0, <1>2, <2>2, <2>3 DEF Only, LockOK
  <1> QED
    BY <1>0, <1>1, <1>2 DEF RecordTransfer

\* The call of a caller after its own step: what CallShape and LockOK ask of it.
CallerFine(c) ==
    /\ Only(c)
    /\ lock \in {c, None} /\ lock' \in {c, None}
    /\ lock' = c <=> call'[c].pc \in Working
    /\ call'[c].pc \in Waited => call'[c].ch \in Channels /\ call'[c].own \in Fundings
    /\ call'[c].pc = "record" => call'[c].txo \in Fundings
    /\ call'[c].pc # "upsert"
    /\ call'[c].pc \in Waited \cup {"start", "record", "written"} => call'[c].trig \in Receipts
    /\ call'[c].pc # "announce" => call'[c].todo = {}
    /\ call'[c].pc = "list" =>
          /\ call'[c].old = scanned /\ call'[c].new \in scanned..synced
          /\ UNCHANGED <<scanned, synced>>

\* A caller takes the lock, works with it and leaves it, and finds out what it
\* needs before it needs it.
LEMMA CallerMoves ==
    ASSUME TypeInv, NEW c \in Callers, CallerDoes(c)
    PROVE  CallerFine(c)
  <1> USE DEF CallerFine
  <1>0. /\ LockOK /\ CallShape /\ c \in Tasks /\ c # None
        /\ lock = c <=> call[c].pc \in Working
        /\ lock \in Callers \cup {None}
    BY OnchainAssumption DEF TypeInv, LockOK, Tasks
  <1>1. ASSUME Unlock(c), lock = c PROVE CallerFine(c)
    BY <1>0, <1>1, UnlockCall, IdleCall DEF Working, Waiting, Waited
  <1>2. CASE LockBalance(c)
    <2>1. Only(c) /\ call'[c].pc = "read" /\ SameScan(c) /\ lock = None /\ lock' = c
      BY <1>0, <1>2, GotoCall DEF LockBalance, Working
    <2>2. call[c].todo = {}
      BY <1>0, <1>2 DEF LockBalance, CallShape
    <2> QED
      BY <2>1, <2>2 DEF SameScan, Working, Waiting, Waited
  <1>3. CASE ReadSync(c)
    <2>1. lock = c /\ call[c].todo = {}
      BY <1>0, <1>3 DEF ReadSync, Working, CallShape
    <2>2. scanned \in Nat /\ synced \in Nat /\ scanned <= synced /\ UNCHANGED <<scanned, synced>>
      BY <1>3, OnchainAssumption DEF ReadSync, clock, trigger, TypeInv, ClockOK
    <2> QED
      BY <1>0, <1>1, <1>3, <2>1, <2>2, ReadCall DEF Working, Waiting, Waited
  <1>4. CASE ListNew(c)
    <2>1. lock = c /\ lock' = lock
      BY <1>0, <1>4 DEF ListNew, ListWith, Working
    <2> QED
      BY <1>4, <2>1, ListCall DEF Working, Waiting, Waited
  <1>5. CASE Announce(c)
    <2>1. lock = c /\ lock' = lock
      BY <1>0, <1>5 DEF Announce, Working
    <2> QED
      BY <1>5, <2>1, AnnounceCall DEF Working, Waiting, Waited
  <1>6. CASE SelectTrigger(c)
    <2>1. lock = c
      BY <1>0, <1>6 DEF SelectTrigger, Working
    <2> QED
      BY <1>1, <1>6, <2>1, SelectCall DEF Working, Waiting, Waited
  <1>7. CASE SpliceIn(c)
    <2>1. /\ lock = c /\ lock' = lock /\ call[c].trig \in Receipts /\ call[c].todo = {}
          /\ BeginSplice(c, "in")
      BY <1>0, <1>7 DEF SpliceIn, Working, CallShape
    <2>2. PICK ch \in Channels, f \in Splices :
              /\ Only(c) /\ SameScan(c) /\ call'[c].pc = "register"
              /\ call'[c].trig = call[c].trig /\ call'[c].ch = ch /\ call'[c].own = f
      BY <1>0, <2>1, SpliceCall
    <2> QED
      BY <2>1, <2>2 DEF SameScan, Working, Waiting, Waited, Fundings
  <1>8. CASE OpenChannel(c)
    <2>1. lock = c /\ lock' = lock /\ call[c].trig \in Receipts /\ call[c].todo = {}
      BY <1>0, <1>8 DEF OpenChannel, Working, CallShape
    <2> QED
      BY <1>8, <2>1, OpenCall DEF SameScan, Working, Waiting, Waited, Fundings
  <1>9. CASE RebalanceFails(c) \/ RebalanceReturns(c)
    BY <1>0, <1>1, <1>9 DEF RebalanceFails, RebalanceReturns, Working
  <1>10. CASE AwaitChannel(c)
    <2>1. /\ lock = c /\ lock' = lock /\ call[c].trig \in Receipts /\ call[c].todo = {}
          /\ call[c].ch \in Channels /\ call[c].own \in Fundings
      BY <1>0, <1>10 DEF AwaitChannel, Working, CallShape, Waited
    <2> QED
      BY <1>10, <2>1, AwaitCall DEF SameScan, Working, Waiting, Waited, Fundings
  <1>11. ASSUME NEW l \in Waited, Goto(c, l), call[c].pc \in Waited, UNCHANGED lock
         PROVE  CallerFine(c)
    <2>1. /\ lock = c /\ lock' = lock /\ call[c].trig \in Receipts /\ call[c].todo = {}
          /\ call[c].ch \in Channels /\ call[c].own \in Fundings
      BY <1>0, <1>11 DEF Working, Waiting, CallShape, Waited
    <2> QED
      BY <1>0, <1>11, <2>1, GotoCall DEF SameScan, SameFunding, Working, Waiting, Waited
  <1>12. CASE ChannelWakes(c) \/ Register(c) \/ Notified(c)
    BY <1>11, <1>12 DEF ChannelWakes, Register, Notified, Waited, Waiting
  <1>13. CASE CheckInbox(c)
    <2>1. /\ lock = c /\ lock' = lock /\ call[c].trig \in Receipts /\ call[c].todo = {}
          /\ call[c].ch \in Channels /\ call[c].own \in Fundings
      BY <1>0, <1>13 DEF CheckInbox, Working, CallShape, Waited, Waiting
    <2> QED
      BY <1>0, <1>13, <2>1, CheckCall DEF SameScan, Working, Waiting, Waited
  <1>14. CASE RecordTransfer(c)
    <2>1. lock = c /\ call[c].todo = {}
      BY <1>0, <1>14 DEF RecordTransfer, Working, CallShape
    <2> QED
      BY <1>14, <2>1, RecordCall, <1>0 DEF SameScan, SameFunding, Working, Waiting, Waited
  <1> QED
    BY <1>2, <1>3, <1>4, <1>5, <1>6, <1>7, <1>8, <1>9, <1>10, <1>12, <1>13, <1>14
    DEF CallerDoes, Rebalance, Wait

\* A payer's step leaves the lock alone.
PayerFine(p) ==
    /\ Only(p) /\ UNCHANGED lock
    /\ call'[p].pc \in {"idle", "record", "upsert", "written"} \cup Waiting
    /\ call'[p].pc \in Waiting => call'[p].ch \in Channels /\ call'[p].own \in Fundings
    /\ call'[p].pc \in {"record", "upsert"} => call'[p].txo \in Fundings

\* A payer splices, waits, records and returns.
LEMMA PayerMoves ==
    ASSUME TypeInv, NEW p \in Payers, PayerDoes(p)
    PROVE  PayerFine(p)
  <1> USE DEF PayerFine
  <1>0. LockOK /\ CallShape /\ p \in Tasks
    BY DEF TypeInv, Tasks
  <1>1. CASE SpliceOut(p)
    <2>1. BeginSplice(p, "out") /\ UNCHANGED lock
      BY <1>1 DEF SpliceOut
    <2>2. PICK ch \in Channels, f \in Splices :
              Only(p) /\ call'[p].pc = "register" /\ call'[p].ch = ch /\ call'[p].own = f
      BY <1>0, <2>1, SpliceCall
    <2> QED
      BY <2>1, <2>2 DEF Waiting, Fundings
  <1>2. ASSUME NEW l \in {"upsert", "written"} \cup Waiting, Goto(p, l),
               call[p].pc \in {"record", "upsert"} \cup Waiting,
               l = "upsert" => call[p].pc = "record",
               l \in Waiting => call[p].pc \in Waiting, UNCHANGED lock
        PROVE  PayerFine(p)
    <2>1. /\ call[p].pc \in Waiting => call[p].ch \in Channels /\ call[p].own \in Fundings
          /\ call[p].pc = "record" => call[p].txo \in Fundings
      BY <1>0 DEF CallShape, Waited
    <2>2. Only(p) /\ call'[p].pc = l /\ SameFunding(p)
      BY <1>0, <1>2, GotoCall DEF Working
    <2> QED
      BY <1>2, <2>1, <2>2 DEF SameFunding, Waiting
  <1>3. CASE Register(p) \/ Notified(p) \/ WriteSpliceOut(p) \/ UpsertPayment(p)
    BY <1>2, <1>3 DEF Register, Notified, WriteSpliceOut, UpsertPayment, Waiting
  <1>4. CASE CheckInbox(p)
    <2>1. call[p].ch \in Channels /\ call[p].own \in Fundings /\ UNCHANGED lock
      BY <1>0, <1>4 DEF CheckInbox, CallShape, Waited, Waiting
    <2> QED
      BY <1>0, <1>4, <2>1, CheckCall DEF Waiting
  <1>5. CASE PayReturns(p)
    BY <1>0, <1>5, IdleCall DEF PayReturns, Only, LockOK, Waiting
  <1> QED
    BY <1>1, <1>3, <1>4, <1>5 DEF PayerDoes, Pay, Wait

\* The lock is held by the caller that works, and each task knows what it needs.
LEMMA CallStep ==
    ASSUME TypeInv, [Next]_vars
    PROVE  LockOK' /\ CallShape'
  <1>0. /\ LockOK /\ CallShape /\ ClockOK
        /\ Tasks = Callers \cup Payers /\ Callers \cap Payers = {} /\ None \notin Callers
    BY OnchainAssumption DEF TypeInv, Tasks
  <1>1. CASE UNCHANGED <<lock, call>>
    <2>1. LockOK'
      BY <1>0, <1>1 DEF LockOK
    <2>2. ASSUME NEW c \in Callers, call[c].pc = "list"
          PROVE  scanned' = scanned /\ synced <= synced'
      <3>1. scanned' = scanned
        <4>1. ~Restart
          BY <1>1, <2>2, <1>0, IdleCall DEF Restart, LockOK, Tasks
        <4>2. \A d \in Callers : ~ListNew(d)
          BY <1>1, ListCall, <1>0 DEF ListNew, ListWith
        <4> QED
          BY <4>1, <4>2, ClockFrame DEF Tick, SyncEnds, Confirm, trigger
      <3> QED
        BY <3>1, ClockStep
    <2>3. CallShape'
      BY <1>0, <1>1, <2>2, ClockStep DEF CallShape, ClockOK
    <2> QED
      BY <2>1, <2>3
  <1>2. ASSUME NEW c \in Callers, CallerDoes(c) PROVE LockOK' /\ CallShape'
    <2>1. CallerFine(c)
      BY <1>2, CallerMoves
    <2>2. \A d \in Callers : d # c => call'[d] = call[d] /\ call[d].pc \notin Working
      BY <1>0, <2>1 DEF CallerFine, Only, LockOK
    <2>3. LockOK'
      BY <1>0, <2>1, <2>2 DEF CallerFine, Only, LockOK
    <2>4. \A p \in Payers : call'[p] = call[p]
      BY <1>0, <2>1 DEF CallerFine, Only
    <2>5. CallShape'
      BY <1>0, <2>1, <2>2, <2>4 DEF CallerFine, CallShape, Waited, Working, Waiting
    <2> QED
      BY <2>3, <2>5
  <1>3. ASSUME NEW p \in Payers, PayerDoes(p) PROVE LockOK' /\ CallShape'
    <2>1. PayerFine(p)
      BY <1>3, PayerMoves
    <2>2. \A t \in Tasks : t # p => call'[t] = call[t]
      BY <2>1 DEF PayerFine, Only
    <2>3. UNCHANGED <<scanned, synced>>
      BY <1>3 DEF PayerDoes, Pay, Wait, SpliceOut, WriteSpliceOut, UpsertPayment, PayReturns,
          Register, CheckInbox, Notified, clock, trigger
    <2>4. LockOK'
      BY <1>0, <2>1, <2>2 DEF PayerFine, Only, LockOK
    <2>5. CallShape'
      BY <1>0, <2>1, <2>2, <2>3 DEF PayerFine, CallShape, Waited, Waiting
    <2> QED
      BY <2>4, <2>5
  <1>4. CASE Restart
    BY <1>0, <1>4, IdleCall DEF Restart, LockOK, CallShape, Working, Waiting, Waited
  <1> QED
    BY <1>1, <1>2, <1>3, <1>4, CallFrame

\* Every variable keeps its type and the lock its meaning, in every step.
LEMMA TypeStep ==
    ASSUME TypeInv, [Next]_vars
    PROVE  TypeInv'
  BY ClockStep, TriggerStep, MetaStep, NodeStep, HandlerStep, WaitsStep, RestStep, CallStep
  DEF TypeInv

\* The typing invariant holds always: the later proofs start from it.
THEOREM TypeAlways == Spec => []TypeInv
  BY InitType, TypeStep, PTL DEF Spec

\* Every variable always has its type, and balance_mutex is held by exactly the
\* caller between taking it and returning (do_onchain_rebalance_if_needed).
THEOREM TypeSafe == Spec => []TypeOK
  BY TypeAlways, TypeInvType, PTL

(***************************************************************************)
(* The inbox wakes who sleeps.                                             *)
(***************************************************************************)

\* A caller falls asleep only after it has looked into the inbox,
LEMMA CallerSleeps ==
    ASSUME TypeInv, NEW c \in Callers, CallerDoes(c), call'[c].pc = "sleep"
    PROVE  CheckInbox(c)
  <1>0. LockOK /\ c \in Tasks
    BY DEF TypeInv, Tasks
  <1>1. ~Unlock(c)
    BY <1>0, UnlockCall, IdleCall
  <1>2. \A l \in {"read", "channel", "sleepChannel", "check", "register"} : ~Goto(c, l)
    BY <1>0, GotoCall DEF Working, Waiting
  <1>3. ~BeginSplice(c, "in")
    BY <1>0, SpliceCall
  <1> QED
    BY <1>1, <1>2, <1>3, ReadCall, ListCall, AnnounceCall, SelectCall, OpenCall, AwaitCall, RecordCall
    DEF CallerDoes, Rebalance, Wait, LockBalance, SpliceIn, RebalanceFails, ChannelWakes,
        RebalanceReturns, Register, Notified

\* ... and so does a payer.
LEMMA PayerSleeps ==
    ASSUME TypeInv, NEW p \in Payers, PayerDoes(p), call'[p].pc = "sleep"
    PROVE  CheckInbox(p)
  <1>0. LockOK /\ p \in Tasks
    BY DEF TypeInv, Tasks
  <1>1. \A l \in {"check", "register", "upsert", "written"} : ~Goto(p, l)
    BY <1>0, GotoCall DEF Working, Waiting
  <1>2. ~BeginSplice(p, "out")
    BY <1>0, SpliceCall
  <1>3. ~PayReturns(p)
    BY <1>0, IdleCall DEF PayReturns, LockOK
  <1> QED
    BY <1>1, <1>2, <1>3
    DEF PayerDoes, Pay, Wait, SpliceOut, WriteSpliceOut, UpsertPayment, Register, Notified

\* A task that is asleep after a step has slept before it, or found its inbox
\* empty in it.
LEMMA Sleepers ==
    ASSUME TypeInv, [Next]_vars, NEW t \in Tasks, call'[t].pc = "sleep"
    PROVE  call'[t] = call[t] \/ CheckInbox(t)
  <1>0. Tasks = Callers \cup Payers
    BY DEF Tasks
  <1>1. ASSUME NEW c \in Callers, CallerDoes(c) PROVE call'[t] = call[t] \/ CheckInbox(t)
    BY <1>1, CallerMoves, CallerSleeps DEF CallerFine, Only
  <1>2. ASSUME NEW p \in Payers, PayerDoes(p) PROVE call'[t] = call[t] \/ CheckInbox(t)
    BY <1>2, PayerMoves, PayerSleeps DEF PayerFine, Only
  <1>3. ~Restart
    BY IdleCall DEF Restart
  <1> QED
    BY <1>1, <1>2, <1>3, CallFrame

\* No wake-up is lost: a task that sleeps without a notification to come has an
\* empty inbox (SplicePendingInbox::deliver, wait_for).
THEOREM WakeupSafe == Spec => []NoLostWakeup
  <1>1. Init => NoLostWakeup
    BY IdleCall DEF Init, NoLostWakeup
  <1>2. TypeInv /\ NoLostWakeup /\ [Next]_vars => NoLostWakeup'
    <2> SUFFICES ASSUME TypeInv, NoLostWakeup, [Next]_vars,
                        NEW t \in Tasks, call'[t].pc = "sleep", t \notin notified'
                 PROVE  inbox'[call'[t].ch] = <<>>
      BY DEF NoLostWakeup
    <2>1. CASE CheckInbox(t)
      BY <2>1, CheckCall
    <2>2. CASE ~CheckInbox(t)
      <3>1. call'[t] = call[t] /\ call[t].ch \in Channels
        BY <2>2, Sleepers DEF TypeInv, CallShape, Waited, Waiting
      <3>2. ~Restart
        BY IdleCall DEF Restart
      <3>3. ASSUME UNCHANGED <<inbox, notified>> PROVE inbox'[call'[t].ch] = <<>>
        BY <3>1, <3>3 DEF NoLostWakeup
      <3>4. ~SpliceNegotiated
        BY <3>1 DEF SpliceNegotiated, Enabled
      <3>5. ASSUME NEW u \in Tasks, Register(u) PROVE inbox'[call'[t].ch] = <<>>
        <4>1. u # t
          BY <3>1, <3>5 DEF Register
        <4>2. t \notin notified /\ UNCHANGED inbox
          BY <3>5, <4>1 DEF Register
        <4> QED
          BY <3>1, <4>2 DEF NoLostWakeup
      <3>6. ASSUME NEW u \in Tasks, CheckInbox(u) PROVE inbox'[call'[t].ch] = <<>>
        <4>1. t \notin notified
          BY <3>6 DEF CheckInbox
        <4>2. inbox[call[t].ch] = <<>>
          BY <3>1, <4>1 DEF NoLostWakeup
        <4>3. UNCHANGED inbox \/ call[u].ch # call[t].ch
          BY <3>6, <4>2, CheckCall
        <4>4. call[u].ch \in Channels /\ inbox \in [Channels -> Seq(Fundings)]
          BY <3>6, CheckCall DEF TypeInv, WaitsOK
        <4> QED
          BY <3>1, <3>6, <4>2, <4>3, <4>4, CheckCall
      <3>7. ChannelReady => UNCHANGED <<inbox, notified>>
        BY DEF ChannelReady
      <3> QED
        BY <3>2, <3>3, <3>4, <3>5, <3>6, <3>7, WaitsFrame
    <2> QED
      BY <2>1, <2>2
  <1> QED
    BY <1>1, <1>2, TypeAlways, PTL DEF Spec

(***************************************************************************)
(* At most one channel is asked for after rebalancing was disabled.        *)
(***************************************************************************)

\* A caller has read the flag and not yet asked LDK.
Asking == {"list", "announce", "select", "start"}

LateInv ==
    /\ enabled => late = 0
    /\ late <= 1
    /\ late = 1 => \A c \in Callers : call[c].pc \notin Asking

\* A caller comes that far only while rebalancing is enabled.
LEMMA StartsAsking ==
    ASSUME TypeInv, NEW c \in Callers, CallerDoes(c), call'[c].pc \in Asking
    PROVE  call[c].pc \in Asking \/ enabled
  <1> USE DEF Asking
  <1>0. LockOK /\ c \in Tasks
    BY DEF TypeInv, Tasks
  <1>1. ~Unlock(c)
    BY <1>0, UnlockCall, IdleCall
  <1>2. \A l \in {"read", "channel", "sleepChannel", "check", "register"} : ~Goto(c, l)
    BY <1>0, GotoCall DEF Working, Waiting
  <1>3. ~BeginSplice(c, "in")
    BY <1>0, SpliceCall
  <1> QED
    BY <1>0, <1>1, <1>2, <1>3, ReadCall, OpenCall, AwaitCall, CheckCall, RecordCall
    DEF CallerDoes, Rebalance, Wait, LockBalance, ListNew, ListWith, Announce, SelectTrigger,
        SpliceIn, RebalanceFails, ChannelWakes, RebalanceReturns, Register, Notified

\* Once LDK was asked, nobody is still asking.
LEMMA StopsAsking ==
    ASSUME TypeInv, NEW c \in Callers, OpenChannel(c) \/ RebalanceFails(c)
    PROVE  call[c].pc = "start" /\ \A d \in Callers : call'[d].pc \notin Asking
  <1>0. LockOK /\ c \in Tasks /\ CallerDoes(c) /\ Callers \subseteq Tasks
    BY DEF TypeInv, Tasks, CallerDoes, Rebalance
  <1>1. call[c].pc = "start"
    BY DEF OpenChannel, RebalanceFails
  <1>2. lock = c
    BY <1>0, <1>1 DEF LockOK, Working
  <1>3. ASSUME NEW d \in Callers, d # c PROVE call'[d].pc \notin Asking
    BY <1>0, <1>2, <1>3, CallerMoves DEF CallerFine, Only, LockOK, Working, Asking
  <1>4. call'[c].pc \notin Asking
    BY <1>0, OpenCall, UnlockCall, IdleCall DEF RebalanceFails, Asking
  <1> QED
    BY <1>1, <1>3, <1>4

\* "new channels will not be opened until it is explicitly enabled again": at
\* most the one call that had read the flag before still asks for one.
THEOREM LateOpenSafe == Spec => []AtMostOneLateOpen
  <1>1. Init => LateInv
    BY DEF Init, LateInv
  <1>2. TypeInv /\ LateInv /\ [Next]_vars => LateInv'
    <2> SUFFICES ASSUME TypeInv, LateInv, [Next]_vars PROVE LateInv'
      OBVIOUS
    <2>0. late \in Nat /\ (late <= 1 => late = 0 \/ late = 1)
      BY DEF TypeInv, RestOK
    <2>1. ASSUME UNCHANGED <<enabled, late>> PROVE LateInv'
      <3>1. ASSUME late = 1, NEW c \in Callers, call'[c].pc \in Asking PROVE FALSE
        <4>1. ~enabled /\ call[c].pc \notin Asking
          BY <3>1 DEF LateInv
        <4>2. ~CallerDoes(c) /\ ~Restart
          BY <3>1, <4>1, StartsAsking, IdleCall DEF Restart, Asking, Tasks
        <4>3. call'[c] = call[c]
          BY <4>2, CallFrame, CallerMoves, PayerMoves, OnchainAssumption
          DEF CallerFine, PayerFine, Only, Tasks
        <4> QED
          BY <3>1, <4>1, <4>3
      <3> QED
        BY <2>1, <3>1 DEF LateInv
    <2>2. CASE ChannelClosed
      BY <2>2 DEF ChannelClosed, LateInv
    <2>3. ASSUME NEW b \in BOOLEAN, SetRebalanceEnabled(b) PROVE LateInv'
      <3>1. CASE b = TRUE
        BY <2>3, <3>1 DEF SetRebalanceEnabled, LateInv
      <3>2. CASE b = FALSE
        <4>1. enabled
          BY <2>3, <3>2 DEF SetRebalanceEnabled, TypeInv, RestOK
        <4>2. late' = 0 /\ enabled' = FALSE
          BY <2>3, <3>2, <4>1 DEF SetRebalanceEnabled, LateInv
        <4> QED
          BY <4>2 DEF LateInv
      <3> QED
        BY <3>1, <3>2
    <2>4. ASSUME NEW c \in Callers, OpenChannel(c) \/ RebalanceFails(c) PROVE LateInv'
      <3>1. call[c].pc \in Asking /\ \A d \in Callers : call'[d].pc \notin Asking
        BY <2>4, StopsAsking DEF Asking
      <3>2. late = 0
        BY <2>0, <3>1 DEF LateInv
      <3>3. enabled' = enabled /\ (late' = late \/ (~enabled /\ late' = late + 1))
        BY <2>4, Zenon DEF OpenChannel, RebalanceFails
      <3>4. (late' = 0 \/ ~enabled') /\ late' <= 1 /\ late' \in Nat
        BY <3>2, <3>3
      <3> QED
        BY <3>1, <3>4, <3>2, <3>3 DEF LateInv
    <2> QED
      BY <2>1, <2>2, <2>3, <2>4, FlagFrame
  <1>3. LateInv => AtMostOneLateOpen
    BY DEF LateInv, AtMostOneLateOpen
  <1> QED
    BY <1>1, <1>2, <1>3, TypeAlways, PTL DEF Spec

(***************************************************************************)
(* The trigger's scan misses no receipt.                                   *)
(***************************************************************************)

\* A receipt that is still to be announced stays so until it is announced.
LEMMA TodoStays ==
    ASSUME TypeInv, [Next]_vars, NEW c \in Callers, NEW r \in call[c].todo
    PROVE  Announce(c) \/ Restart \/ r \in call'[c].todo
  <1>0. c \in Tasks /\ c \notin Payers
    BY OnchainAssumption DEF Tasks
  <1>1. call[c].pc = "announce"
    BY DEF TypeInv, CallShape
  <1>2. CallerDoes(c) => Announce(c)
    BY <1>1 DEF CallerDoes, Rebalance, Wait, LockBalance, ReadSync, ListNew, ListWith, SelectTrigger,
        SpliceIn, OpenChannel, RebalanceFails, AwaitChannel, ChannelWakes, RecordTransfer,
        RebalanceReturns, Register, CheckInbox, Notified
  <1>3. ASSUME NEW d \in Callers, CallerDoes(d), d # c PROVE call'[c] = call[c]
    BY <1>0, <1>3, CallerMoves DEF CallerFine, Only
  <1>4. ASSUME NEW p \in Payers, PayerDoes(p) PROVE call'[c] = call[c]
    BY <1>0, <1>4, PayerMoves DEF PayerFine, Only
  <1> QED
    BY <1>2, <1>3, <1>4, CallFrame

\* The trigger misses no receipt (needs_onchain_rebalance): one that is not
\* newer than the last scan was announced, or is about to be, unless it was
\* stamped in the second of an earlier sync or before the process started.
THEOREM ReceiptSafe == Spec => []NoReceiptSkipped
  <1>1. Init => NoReceiptSkipped
    BY DEF Init, NoReceiptSkipped
  <1>2. TypeInv /\ NoReceiptSkipped /\ [Next]_vars => NoReceiptSkipped'
    <2> SUFFICES ASSUME TypeInv, NoReceiptSkipped, [Next]_vars,
                        NEW r \in Receipts, conf'[r] \in 1..scanned', r \notin excused'
                 PROVE  told'[r] # "no" \/ \E c \in Callers : r \in call'[c].todo
      BY DEF NoReceiptSkipped
    <2>0. /\ now \in Nat /\ synced \in 0..now /\ scanned \in 0..synced
          /\ conf \in [Receipts -> 0..now] /\ Receipts \subseteq Nat
          /\ told \in [Receipts -> {"no", "yes", "early"}]
      BY OnchainAssumption DEF TypeInv, ClockOK, TriggerOK
    <2>1. ~Restart
      <3> SUFFICES ASSUME Restart PROVE FALSE
        OBVIOUS
      <3>1. /\ scanned' = synced /\ conf' = conf
            /\ excused' = excused \cup {q \in Receipts : conf[q] \in 1..synced}
        BY DEF Restart, clock
      <3> QED
        BY <3>1
    <2>2. ASSUME NEW c \in Callers, Announce(c)
          PROVE  told'[r] # "no" \/ \E d \in Callers : r \in call'[d].todo
      <3>1. /\ UNCHANGED <<conf, scanned, excused>>
            /\ \A d \in Callers : d # c => call'[d] = call[d]
        BY <2>2, AnnounceCall DEF Announce, clock, Only, Tasks
      <3>2. told[r] # "no" \/ \E d \in Callers : r \in call[d].todo
        BY <3>1 DEF NoReceiptSkipped
      <3>3. CASE /\ call'[c].todo = call[c].todo /\ UNCHANGED told
        BY <3>1, <3>2, <3>3
      <3>4. ASSUME NEW q \in call[c].todo, call'[c].todo = call[c].todo \ {q},
                   told' = [told EXCEPT ![q] = IF conf[q] > call[c].new THEN "early" ELSE "yes"]
            PROVE  told'[r] # "no" \/ \E d \in Callers : r \in call'[d].todo
        BY <2>0, <3>1, <3>2, <3>4
      <3> QED
        BY <2>2, <3>3, <3>4, AnnounceCall
    <2>3. CASE \A c \in Callers : ~Announce(c)
      <3>1. UNCHANGED told
        BY <2>1, <2>3, TriggerFrame DEF Confirm
      <3>2. ASSUME r \notin excused, conf[r] \in 1..scanned
            PROVE  told'[r] # "no" \/ \E d \in Callers : r \in call'[d].todo
        BY <2>1, <2>3, <3>1, <3>2, TodoStays DEF NoReceiptSkipped
      <3>3. r \notin excused
        BY <2>1, <2>3, TriggerFrame DEF Confirm
      <3>4. ASSUME NEW q \in Receipts, Confirm(q) PROVE conf[r] \in 1..scanned
        <4>1. /\ UNCHANGED <<scanned, synced>> /\ conf' = [conf EXCEPT ![q] = now]
              /\ excused' = IF synced = now THEN excused \cup {q} ELSE excused
          BY <3>4 DEF Confirm
        <4>2. q # r
          BY <2>0, <4>1
        <4> QED
          BY <2>0, <4>1, <4>2
      <3>5. ASSUME NEW c \in Callers, ListNew(c)
            PROVE  conf[r] \in 1..scanned \/ r \in call'[c].todo
        <4>1. /\ conf' = conf /\ call[c].old = scanned
              /\ call'[c].todo = {q \in Receipts : conf[q] > call[c].old}
          BY <3>5, ListCall DEF ListNew, ListWith, clock, TypeInv, CallShape
        <4> QED
          BY <2>0, <4>1
      <3>6. CASE Tick \/ SyncEnds
        BY <3>2, <3>3, <3>6 DEF Tick, SyncEnds, trigger
      <3> QED
        BY <2>1, <3>2, <3>3, <3>4, <3>5, <3>6, ClockFrame
    <2> QED
      BY <2>2, <2>3
  <1> QED
    BY <1>1, <1>2, TypeAlways, PTL DEF Spec

(***************************************************************************)
(* The records say what the transactions are.                              *)
(***************************************************************************)

\* What may be recorded about i, in memory, on disk or on its way there.
Matches(i, m) ==
    i \in Fundings => /\ m.ty = "transfer" => role[i] \in {"open", "in"}
                      /\ m.ty = "payment" => role[i] = "out"

\* Nobody else waits for the channel's next outpoint, and the inbox holds none
\* but the waiting task's own.
InboxInv ==
    /\ \A t, u \in Tasks : /\ call[t].pc \in Waiting /\ call[u].pc \in Waiting
                           /\ call[t].ch = call[u].ch
                           => t = u
    /\ \A ch \in Channels :
          inbox[ch] # <<>> =>
              \E t \in Tasks : WaitsOn(t, ch) /\ inbox[ch] = <<call[t].own>>

\* A task's transaction is what the task asked for, and the outpoint it got is
\* its own.
OwnInv ==
    /\ \A c \in Callers :
          /\ call[c].pc \in Waited => role[call[c].own] \in {"open", "in"}
          /\ call[c].pc \in {"channel", "sleepChannel"} => call[c].ch = call[c].own
          /\ call[c].pc = "record" =>
                call[c].txo = call[c].own /\ role[call[c].txo] \in {"open", "in"}
    /\ \A p \in Payers :
          /\ call[p].pc \in Waiting => role[call[p].own] = "out"
          /\ call[p].pc \in {"record", "upsert"} => role[call[p].txo] = "out"

RecordsInv ==
    /\ \A f \in outs : role[f] = "out"
    /\ \A i \in Ids : Matches(i, mem[i]) /\ Matches(i, disk[i])
    /\ \A t \in Tasks \cup {Ldk} : \A w \in pend[t] : Matches(w.id, w.meta)

MatchInv == ~mixed => InboxInv /\ OwnInv /\ RecordsInv


\* What brings a caller to where it waits, or to the record.
LEMMA CallerTo ==
    ASSUME TypeInv, NEW c \in Callers, CallerDoes(c), call'[c].pc \in Waited \cup {"record"}
    PROVE  \/ SpliceIn(c) \/ OpenChannel(c) \/ AwaitChannel(c) \/ CheckInbox(c)
           \/ /\ Register(c) \/ Notified(c)
              /\ call[c].pc \in Waiting /\ call'[c].pc \in Waiting /\ SameFunding(c)
           \/ /\ call[c].pc = "sleepChannel" /\ call'[c].pc = "channel" /\ SameFunding(c)
  <1>0. LockOK /\ c \in Tasks
    BY DEF TypeInv, Tasks
  <1>1. ~Unlock(c)
    BY <1>0, UnlockCall, IdleCall DEF Waited, Waiting
  <1>2. ~LockBalance(c)
    BY <1>0, GotoCall DEF LockBalance, Working, Waited, Waiting
  <1>3. ~ReadSync(c) /\ ~ListNew(c) /\ ~Announce(c) /\ ~SelectTrigger(c) /\ ~RecordTransfer(c)
    BY <1>1, ReadCall, ListCall, AnnounceCall, SelectCall, RecordCall DEF Waited, Waiting
  <1>4. ~RebalanceFails(c) /\ ~RebalanceReturns(c)
    BY <1>1 DEF RebalanceFails, RebalanceReturns
  <1>5. Register(c) \/ Notified(c) =>
            call[c].pc \in Waiting /\ call'[c].pc \in Waiting /\ SameFunding(c)
    BY <1>0, GotoCall DEF Register, Notified, Working, Waiting
  <1>6. ChannelWakes(c) =>
            call[c].pc = "sleepChannel" /\ call'[c].pc = "channel" /\ SameFunding(c)
    BY <1>0, GotoCall DEF ChannelWakes, Working
  <1> QED
    BY <1>2, <1>3, <1>4, <1>5, <1>6 DEF CallerDoes, Rebalance, Wait

\* ... and a payer.
LEMMA PayerTo ==
    ASSUME TypeInv, NEW p \in Payers, PayerDoes(p), call'[p].pc \in Waiting \cup {"record", "upsert"}
    PROVE  \/ SpliceOut(p) \/ CheckInbox(p)
           \/ /\ Register(p) \/ Notified(p)
              /\ call[p].pc \in Waiting /\ call'[p].pc \in Waiting /\ SameFunding(p)
           \/ /\ WriteSpliceOut(p)
              /\ call[p].pc = "record" /\ call'[p].pc = "upsert" /\ SameFunding(p)
  <1>0. LockOK /\ p \in Tasks
    BY DEF TypeInv, Tasks
  <1>1. ~PayReturns(p)
    BY <1>0, IdleCall DEF PayReturns, LockOK, Waiting
  <1>2. ~UpsertPayment(p)
    BY <1>0, GotoCall DEF UpsertPayment, Working, Waiting
  <1>3. Register(p) \/ Notified(p) =>
            call[p].pc \in Waiting /\ call'[p].pc \in Waiting /\ SameFunding(p)
    BY <1>0, GotoCall DEF Register, Notified, Working, Waiting
  <1>4. WriteSpliceOut(p) => call[p].pc = "record" /\ call'[p].pc = "upsert" /\ SameFunding(p)
    BY <1>0, GotoCall DEF WriteSpliceOut
  <1> QED
    BY <1>1, <1>2, <1>3, <1>4 DEF PayerDoes, Pay, Wait

\* What a transaction is for is settled once.
LEMMA RoleStays ==
    ASSUME TypeInv, [Next]_vars, NEW f \in Fundings, role[f] # "unused"
    PROVE  role'[f] = role[f]
  <1>0. role \in [Fundings -> {"unused", "open", "jit", "in", "out"}]
    BY DEF TypeInv, NodeOK
  <1>1. ASSUME NEW t \in Tasks, NEW purpose, BeginSplice(t, purpose) PROVE role'[f] = role[f]
    BY <1>0, <1>1 DEF BeginSplice
  <1>2. ASSUME NEW c \in Callers, OpenChannel(c) PROVE role'[f] = role[f]
    BY <1>0, <1>2 DEF OpenChannel
  <1>3. ASSUME NEW g \in Channels, LdkChannel(g) PROVE role'[f] = role[f]
    BY <1>0, <1>3 DEF LdkChannel
  <1> QED
    BY <1>1, <1>2, <1>3, NodeFrame DEF SpliceIn, SpliceOut, LdkSplice, Restart, Tasks

\* An outpoint that went to the wrong task stays there.
LEMMA MixedStays ==
    ASSUME TypeInv, [Next]_vars, ~mixed'
    PROVE  ~mixed
  BY MixedFrame DEF SpliceIn, SpliceOut, BeginSplice, SpliceNegotiated

\* A task that waits after a step waited for the same before, or has just
\* spliced.
LEMMA Waiters ==
    ASSUME TypeInv, [Next]_vars, NEW t \in Tasks, call'[t].pc \in Waiting
    PROVE  \/ call[t].pc \in Waiting /\ call'[t].ch = call[t].ch /\ call'[t].own = call[t].own
           \/ SpliceIn(t) /\ t \in Callers
           \/ SpliceOut(t) /\ t \in Payers
  <1>0. Tasks = Callers \cup Payers /\ Waiting \subseteq Waited
    BY DEF Tasks, Waited
  <1>1. ~Restart
    BY IdleCall DEF Restart, Waiting
  <1>2. ASSUME NEW c \in Callers, CallerDoes(c), c # t PROVE call'[t] = call[t]
    BY <1>2, CallerMoves DEF CallerFine, Only
  <1>3. ASSUME NEW p \in Payers, PayerDoes(p), p # t PROVE call'[t] = call[t]
    BY <1>3, PayerMoves DEF PayerFine, Only
  <1>4. CheckInbox(t) =>
            call[t].pc \in Waiting /\ call'[t].ch = call[t].ch /\ call'[t].own = call[t].own
    BY CheckCall DEF CheckInbox, Waiting
  <1>5. ASSUME t \in Callers, CallerDoes(t)
        PROVE  \/ call[t].pc \in Waiting /\ call'[t].ch = call[t].ch /\ call'[t].own = call[t].own
               \/ SpliceIn(t)
    <2>1. ~OpenChannel(t) /\ ~AwaitChannel(t)
      BY <1>5, OpenCall, AwaitCall DEF Waiting
    <2> QED
      BY <1>0, <1>4, <1>5, <2>1, CallerTo DEF SameFunding, Waiting
  <1>6. ASSUME t \in Payers, PayerDoes(t)
        PROVE  \/ call[t].pc \in Waiting /\ call'[t].ch = call[t].ch /\ call'[t].own = call[t].own
               \/ SpliceOut(t)
    BY <1>4, <1>6, PayerTo DEF SameFunding, Waiting
  <1> QED
    BY <1>0, <1>1, <1>2, <1>3, <1>5, <1>6, CallFrame

\* A task waits until it finds something in the inbox.
LEMMA WaitsOnwards ==
    ASSUME TypeInv, [Next]_vars, NEW t \in Tasks, call[t].pc \in Waiting
    PROVE  \/ /\ call'[t].pc \in Waiting
              /\ call'[t].ch = call[t].ch /\ call'[t].own = call[t].own
           \/ CheckInbox(t) /\ inbox[call[t].ch] # <<>>
           \/ Restart
  <1>0. Tasks = Callers \cup Payers
    BY DEF Tasks
  <1>1. ASSUME Wait(t)
        PROVE  \/ /\ call'[t].pc \in Waiting
                  /\ call'[t].ch = call[t].ch /\ call'[t].own = call[t].own
               \/ CheckInbox(t) /\ inbox[call[t].ch] # <<>>
    <2>1. CASE Register(t) \/ Notified(t)
      BY <2>1, GotoCall DEF Register, Notified, Working, Waiting, SameFunding, TypeInv
    <2>2. CASE CheckInbox(t)
      BY <2>2, CheckCall DEF Waiting
    <2> QED
      BY <1>1, <2>1, <2>2 DEF Wait
  <1>2. ASSUME NEW c \in Callers, CallerDoes(c), c # t PROVE call'[t] = call[t]
    BY <1>2, CallerMoves DEF CallerFine, Only
  <1>3. ASSUME NEW p \in Payers, PayerDoes(p), p # t PROVE call'[t] = call[t]
    BY <1>3, PayerMoves DEF PayerFine, Only
  <1>4. CallerDoes(t) => Wait(t)
    BY DEF CallerDoes, Rebalance, LockBalance, ReadSync, ListNew, ListWith, Announce, SelectTrigger,
        SpliceIn, OpenChannel, RebalanceFails, AwaitChannel, ChannelWakes, RecordTransfer,
        RebalanceReturns, Waiting
  <1>5. PayerDoes(t) => Wait(t)
    BY DEF PayerDoes, Pay, SpliceOut, WriteSpliceOut, UpsertPayment, PayReturns, Waiting
  <1> QED
    BY <1>0, <1>1, <1>2, <1>3, <1>4, <1>5, CallFrame

\* A task that splices is alone on its channel, or an outpoint can go astray.
LEMMA SplicesAlone ==
    ASSUME TypeInv, [Next]_vars, ~mixed', NEW t \in Tasks,
           (SpliceIn(t) /\ t \in Callers) \/ (SpliceOut(t) /\ t \in Payers)
    PROVE  /\ call'[t].ch \in Channels /\ call'[t].own \in Fundings
           /\ \A u \in Tasks : ~WaitsOn(u, call'[t].ch)
           /\ \A u \in Tasks : u # t => call'[u] = call[u]
           /\ role'[call'[t].own] = IF t \in Callers THEN "in" ELSE "out"
           /\ role[call'[t].own] = "unused"
           /\ call'[t].pc = "register"
  <1>1. \/ BeginSplice(t, "in") /\ t \in Callers
        \/ BeginSplice(t, "out") /\ t \in Payers
    BY DEF SpliceIn, SpliceOut
  <1>2. PICK purpose : /\ BeginSplice(t, purpose)
                       /\ purpose = IF t \in Callers THEN "in" ELSE "out"
    BY <1>1, OnchainAssumption
  <1>3. PICK ch \in Channels, f \in Splices :
              /\ role[f] = "unused" /\ role' = [role EXCEPT ![f] = purpose]
              /\ mixed' = (mixed \/ \E u \in Tasks : WaitsOn(u, ch))
              /\ Only(t) /\ call'[t].pc = "register"
              /\ call'[t].ch = ch /\ call'[t].own = f
    BY <1>2, SpliceCall
  <1>4. \A u \in Tasks : ~WaitsOn(u, ch)
    BY <1>3
  <1>5. role'[f] = purpose
    BY <1>3 DEF TypeInv, NodeOK, Fundings
  <1> QED
    BY <1>2, <1>3, <1>4, <1>5 DEF Only, Fundings

\* The inbox keeps what is in it for the one task that waits.
LEMMA InboxStep ==
    ASSUME TypeInv, [Next]_vars, ~mixed', InboxInv
    PROVE  InboxInv'
  <1>1. ASSUME NEW t \in Tasks, NEW u \in Tasks, call'[t].pc \in Waiting, call'[u].pc \in Waiting,
               call'[t].ch = call'[u].ch
        PROVE  t = u
    <2> SUFFICES ASSUME t # u PROVE FALSE
      OBVIOUS
    <2>1. ASSUME NEW v \in Tasks, NEW w \in Tasks, v # w, call'[v].ch = call'[w].ch,
                 call'[w].pc \in Waiting,
                 (SpliceIn(v) /\ v \in Callers) \/ (SpliceOut(v) /\ v \in Payers)
          PROVE  FALSE
      BY <2>1, SplicesAlone DEF WaitsOn
    <2>2. /\ call[t].pc \in Waiting /\ call'[t].ch = call[t].ch
          /\ call[u].pc \in Waiting /\ call'[u].ch = call[u].ch
      BY <1>1, <2>1, Waiters
    <2> QED
      BY <1>1, <2>2 DEF InboxInv
  <1>2. ASSUME NEW ch \in Channels, inbox'[ch] # <<>>
        PROVE  \E t \in Tasks : call'[t].pc \in Waiting /\ call'[t].ch = ch
                                /\ inbox'[ch] = <<call'[t].own>>
    <2>0. inbox \in [Channels -> Seq(Fundings)] /\ ~Restart
      BY <1>2 DEF TypeInv, WaitsOK, Restart
    <2>1. ASSUME inbox'[ch] = inbox[ch], \A v \in Tasks : ~CheckInbox(v) \/ call[v].ch # ch
          PROVE  \E t \in Tasks : call'[t].pc \in Waiting /\ call'[t].ch = ch
                                  /\ inbox'[ch] = <<call'[t].own>>
      <3>1. PICK t \in Tasks : WaitsOn(t, ch) /\ inbox[ch] = <<call[t].own>>
        BY <1>2, <2>1 DEF InboxInv
      <3>2. /\ call'[t].pc \in Waiting
            /\ call'[t].ch = call[t].ch /\ call'[t].own = call[t].own
        BY <2>0, <2>1, <3>1, WaitsOnwards DEF WaitsOn
      <3> QED
        BY <2>1, <3>1, <3>2 DEF WaitsOn
    <2>2. ASSUME NEW v \in Tasks, CheckInbox(v)
          PROVE  \E t \in Tasks : call'[t].pc \in Waiting /\ call'[t].ch = ch
                                  /\ inbox'[ch] = <<call'[t].own>>
      <3>1. /\ call[v].ch \in Channels
            /\ \/ inbox[call[v].ch] = <<>> /\ UNCHANGED inbox
               \/ /\ inbox[call[v].ch] # <<>>
                  /\ inbox' = [inbox EXCEPT ![call[v].ch] = Tail(inbox[call[v].ch])]
        BY <2>2, CheckCall
      <3>2. call[v].pc \in Waiting /\ \A u \in Tasks : u # v => ~CheckInbox(u)
        <4>1. Only(v) /\ call'[v].pc # "check" /\ call[v].pc = "check"
          BY <2>2, CheckCall DEF CheckInbox
        <4>2. ASSUME NEW u \in Tasks, CheckInbox(u), u # v PROVE FALSE
          BY <4>1, <4>2, CheckCall DEF Only
        <4> QED
          BY <4>1, <4>2 DEF Waiting
      <3>3. CASE call[v].ch # ch
        BY <2>0, <2>1, <3>1, <3>2, <3>3
      <3>4. CASE call[v].ch = ch
        <4>1. inbox[ch] # <<>>
          BY <1>2, <3>1, <3>4
        <4>2. PICK t \in Tasks : WaitsOn(t, ch) /\ inbox[ch] = <<call[t].own>>
          BY <4>1 DEF InboxInv
        <4>3. Tail(inbox[ch]) = <<>>
          BY <4>2
        <4>4. inbox'[ch] = Tail(inbox[ch])
          BY <2>0, <3>1, <3>4, <4>1
        <4> QED
          BY <1>2, <4>3, <4>4
      <3> QED
        BY <3>3, <3>4
    <2>3. ASSUME SpliceNegotiated
          PROVE  \E t \in Tasks : call'[t].pc \in Waiting /\ call'[t].ch = ch
                                  /\ inbox'[ch] = <<call'[t].own>>
      <3>1. /\ Event.txo \notin ToSet(inbox[Event.ch])
            /\ \E t \in Tasks : WaitsOn(t, Event.ch) /\ call[t].own = Event.txo
            /\ inbox' = [inbox EXCEPT ![Event.ch] = Append(inbox[Event.ch], Event.txo)]
            /\ UNCHANGED call
        BY <2>3 DEF SpliceNegotiated
      <3>2. PICK t \in Tasks : WaitsOn(t, Event.ch) /\ call[t].own = Event.txo
        BY <3>1
      <3>3. Event.ch \in Channels
        BY <2>3, EventType DEF SpliceNegotiated, Is, TypeInv
      <3>4. CASE ch # Event.ch
        BY <2>0, <2>1, <3>1, <3>3, <3>4, CheckCall DEF CheckInbox
      <3>5. CASE ch = Event.ch
        <4>1. inbox[ch] = <<>>
          <5> SUFFICES ASSUME inbox[ch] # <<>> PROVE FALSE
            OBVIOUS
          <5>1. PICK u \in Tasks : WaitsOn(u, ch) /\ inbox[ch] = <<call[u].own>>
            BY DEF InboxInv
          <5>2. u = t
            BY <3>2, <3>5, <5>1 DEF InboxInv, WaitsOn
          <5>3. inbox[ch] = <<Event.txo>>
            BY <3>2, <5>1, <5>2
          <5>4. Event.txo \in ToSet(inbox[ch])
            BY <5>3 DEF ToSet
          <5> QED
            BY <3>1, <3>5, <5>4
        <4>2. inbox'[ch] = Append(<<>>, Event.txo)
          BY <2>0, <3>1, <3>3, <3>5, <4>1
        <4>3. inbox'[ch] = <<Event.txo>>
          BY <4>2
        <4> QED
          BY <3>1, <3>2, <3>5, <4>3 DEF WaitsOn
      <3> QED
        BY <3>4, <3>5
    <2>4. ASSUME UNCHANGED inbox, \A v \in Tasks : ~CheckInbox(v)
          PROVE  \E t \in Tasks : call'[t].pc \in Waiting /\ call'[t].ch = ch
                                  /\ inbox'[ch] = <<call'[t].own>>
      BY <2>1, <2>4
    <2> QED
      BY <2>0, <2>2, <2>3, <2>4, WaitsFrame DEF Register, ChannelReady
  <1> QED
    BY <1>1, <1>2 DEF InboxInv, WaitsOn

\* The outpoint a task takes out of the inbox is its own.
LEMMA TakesItsOwn ==
    ASSUME TypeInv, InboxInv, NEW t \in Tasks, CheckInbox(t), call'[t].pc = "record"
    PROVE  call'[t].txo = call[t].own
  <1>1. /\ call[t].ch \in Channels /\ inbox[call[t].ch] # <<>>
        /\ call'[t].txo = Head(inbox[call[t].ch])
    BY CheckCall
  <1>2. PICK u \in Tasks : WaitsOn(u, call[t].ch) /\ inbox[call[t].ch] = <<call[u].own>>
    BY <1>1 DEF InboxInv
  <1>3. u = t
    BY <1>2 DEF InboxInv, WaitsOn, CheckInbox, Waiting
  <1>4. Head(inbox[call[t].ch]) = call[u].own
    BY <1>2
  <1> QED
    BY <1>1, <1>3, <1>4

\* A task's transaction stays what the task asked for.
LEMMA OwnStep ==
    ASSUME TypeInv, [Next]_vars, ~mixed', InboxInv, OwnInv
    PROVE  OwnInv'
  <1>0. Callers \subseteq Tasks /\ Payers \subseteq Tasks /\ Callers \cap Payers = {}
    BY OnchainAssumption DEF Tasks
  <1>r. \A f \in Fundings : role[f] # "unused" => role'[f] = role[f]
    BY RoleStays
  <1>1. ASSUME NEW c \in Callers
        PROVE  /\ call'[c].pc \in Waited => role'[call'[c].own] \in {"open", "in"}
               /\ call'[c].pc \in {"channel", "sleepChannel"} => call'[c].ch = call'[c].own
               /\ call'[c].pc = "record" =>
                     call'[c].txo = call'[c].own /\ role'[call'[c].txo] \in {"open", "in"}
    <2> SUFFICES ASSUME call'[c].pc \in Waited \cup {"record"}
                 PROVE  /\ role'[call'[c].own] \in {"open", "in"}
                        /\ call'[c].pc \in {"channel", "sleepChannel"} => call'[c].ch = call'[c].own
                        /\ call'[c].pc = "record" => call'[c].txo = call'[c].own
      BY DEF Waited
    <2>0. c \in Tasks /\ c \notin Payers
      BY <1>0
    <2>1. ASSUME call[c].pc \in Waited \cup {"record"}, call'[c].own = call[c].own
          PROVE  role'[call'[c].own] \in {"open", "in"}
      <3>1. call[c].own \in Fundings /\ role[call[c].own] \in {"open", "in"}
        BY <2>1, <2>0 DEF OwnInv, TypeInv, CallShape
      <3> QED
        BY <3>1, <2>1, <1>r
    <2>2. CASE call'[c] = call[c]
      BY <2>1, <2>2 DEF OwnInv
    <2>3. CASE SpliceIn(c)
      BY <2>0, <2>3, SplicesAlone
    <2>4. CASE OpenChannel(c)
      <3>1. PICK f \in Channels :
                /\ role' = [role EXCEPT ![f] = "open"] /\ call'[c].pc = "channel"
                /\ call'[c].ch = f /\ call'[c].own = f
        BY <2>4, OpenCall
      <3>2. role'[f] = "open"
        BY <3>1 DEF TypeInv, NodeOK, Fundings
      <3> QED
        BY <3>1, <3>2
    <2>5. CASE AwaitChannel(c)
      <3>1. call[c].pc = "channel" /\ call[c].ch = call[c].own
        BY <2>5 DEF AwaitChannel, OwnInv
      <3> QED
        BY <2>1, <2>5, <3>1, AwaitCall DEF Waited
    <2>6. CASE CheckInbox(c)
      BY <2>0, <2>1, <2>6, CheckCall, TakesItsOwn DEF CheckInbox, Waited, Waiting
    <2>7. CASE call[c].pc \in Waiting /\ call'[c].pc \in Waiting /\ SameFunding(c)
      BY <2>1, <2>7 DEF SameFunding, Waited, Waiting
    <2>8. CASE call[c].pc = "sleepChannel" /\ call'[c].pc = "channel" /\ SameFunding(c)
      BY <2>1, <2>8 DEF SameFunding, Waited, Waiting, OwnInv
    <2>9. ~Restart
      BY <2>0, IdleCall DEF Restart, Waited, Waiting
    <2>10. ASSUME NEW d \in Callers, CallerDoes(d), d # c PROVE call'[c] = call[c]
      BY <2>0, <2>10, CallerMoves DEF CallerFine, Only
    <2>11. ASSUME NEW p \in Payers, PayerDoes(p) PROVE call'[c] = call[c]
      BY <2>0, <2>11, PayerMoves DEF PayerFine, Only
    <2> QED
      BY <2>2, <2>3, <2>4, <2>5, <2>6, <2>7, <2>8, <2>9, <2>10, <2>11, CallerTo, CallFrame
  <1>2. ASSUME NEW p \in Payers
        PROVE  /\ call'[p].pc \in Waiting => role'[call'[p].own] = "out"
               /\ call'[p].pc \in {"record", "upsert"} => role'[call'[p].txo] = "out"
    <2> SUFFICES ASSUME call'[p].pc \in Waiting \cup {"record", "upsert"}
                 PROVE  /\ call'[p].pc \in Waiting => role'[call'[p].own] = "out"
                        /\ call'[p].pc \in {"record", "upsert"} => role'[call'[p].txo] = "out"
      OBVIOUS
    <2>0. p \in Tasks /\ p \notin Callers
      BY <1>0
    <2>1. ASSUME call[p].pc \in Waiting PROVE role'[call[p].own] = "out"
      <3>1. call[p].own \in Fundings /\ role[call[p].own] = "out"
        BY <2>1, <2>0 DEF OwnInv, TypeInv, CallShape, Waited
      <3> QED
        BY <3>1, <1>r
    <2>2. ASSUME call[p].pc \in {"record", "upsert"} PROVE role'[call[p].txo] = "out"
      <3>1. call[p].txo \in Fundings /\ role[call[p].txo] = "out"
        BY <2>2, <2>0 DEF OwnInv, TypeInv, CallShape
      <3> QED
        BY <3>1, <1>r
    <2>3. CASE call'[p] = call[p]
      BY <2>1, <2>2, <2>3
    <2>4. CASE SpliceOut(p)
      BY <2>0, <2>4, SplicesAlone DEF Waiting
    <2>5. CASE CheckInbox(p)
      BY <2>0, <2>1, <2>5, CheckCall, TakesItsOwn DEF CheckInbox, Waiting
    <2>6. CASE call[p].pc \in Waiting /\ call'[p].pc \in Waiting /\ SameFunding(p)
      BY <2>1, <2>6 DEF SameFunding, Waiting
    <2>7. CASE call[p].pc = "record" /\ call'[p].pc = "upsert" /\ SameFunding(p)
      BY <2>2, <2>7 DEF SameFunding, Waiting
    <2>8. ~Restart
      BY <2>0, IdleCall DEF Restart, Waiting
    <2>9. ASSUME NEW c \in Callers, CallerDoes(c) PROVE call'[p] = call[p]
      BY <2>0, <2>9, CallerMoves DEF CallerFine, Only
    <2>10. ASSUME NEW q \in Payers, PayerDoes(q), q # p PROVE call'[p] = call[p]
      BY <2>0, <2>10, PayerMoves DEF PayerFine, Only
    <2> QED
      BY <2>3, <2>4, <2>5, <2>6, <2>7, <2>8, <2>9, <2>10, PayerTo, CallFrame
  <1> QED
    BY <1>1, <1>2 DEF OwnInv

\* Setting entries that match leaves all of them matching.
LEMMA MatchingSet ==
    ASSUME TypeInv, TypeInv', [Next]_vars, RecordsInv, NEW t \in Tasks \cup {Ldk},
           NEW S \in SUBSET Ids, NEW m \in [S -> Meta], DoSet(t, m),
           \A i \in S : Matches(i, m[i])'
    PROVE  /\ \A i \in Ids : Matches(i, mem[i])' /\ Matches(i, disk[i])'
           /\ \A u \in Tasks \cup {Ldk} : \A w \in pend'[u] : Matches(w.id, w.meta)'
  <1>r. \A f \in Fundings : role[f] # "unused" => role'[f] = role[f]
    BY RoleStays
  <1>2. ASSUME NEW i \in Ids PROVE Matches(i, mem[i])'
    <2>1. CASE i \in S
      <3>1. mem'[i] = m[i]
        BY <2>1 DEF DoSet
      <3> QED
        BY <2>1, <3>1 DEF Matches
    <2>2. CASE i \notin S
      <3>1. mem'[i] = mem[i]
        BY <2>2 DEF DoSet
      <3>2. Matches(i, mem[i])
        BY DEF RecordsInv
      <3> QED
        BY <3>1, <3>2, <1>r DEF Matches
    <2> QED
      BY <2>1, <2>2
  <1>3. ASSUME NEW i \in Ids PROVE Matches(i, disk[i])'
    <2>1. disk' = disk /\ Matches(i, disk[i])
      BY DEF DoSet, RecordsInv
    <2> QED
      BY <2>1, <1>r DEF Matches
  <1>4. ASSUME NEW u \in Tasks \cup {Ldk}, NEW w \in pend'[u] PROVE Matches(w.id, w.meta)'
    <2>1. CASE u = t
      <3>1. pend'[t] = {[id |-> i, meta |-> m[i]] : i \in S}
        BY DEF DoSet, TypeInv, MetaOK
      <3>2. PICK i \in S : w = [id |-> i, meta |-> m[i]]
        BY <2>1, <3>1
      <3>3. w.id = i /\ w.meta = m[i]
        BY <3>2
      <3> QED
        BY <3>3 DEF Matches
    <2>2. CASE u # t
      <3>1. pend'[u] = pend[u]
        BY <2>2 DEF DoSet, TypeInv, MetaOK
      <3>2. Matches(w.id, w.meta)
        BY <3>1 DEF RecordsInv
      <3> QED
        BY <3>2, <1>r DEF Matches
    <2> QED
      BY <2>1, <2>2
  <1> QED
    BY <1>2, <1>3, <1>4

\* What is recorded keeps matching the transactions.
LEMMA RecordsStep ==
    ASSUME TypeInv, TypeInv', [Next]_vars, OwnInv, RecordsInv
    PROVE  RecordsInv'
  <1>0. Receipts \cap Fundings = {} /\ Receipts \subseteq Ids /\ Fundings \subseteq Ids
    BY OnchainAssumption DEF Ids
  <1>r. \A f \in Fundings : role[f] # "unused" => role'[f] = role[f]
    BY RoleStays
  <1>o. \A f \in outs' : role'[f] = "out"
    <2>1. ASSUME NEW p \in Payers, WriteSpliceOut(p) PROVE \A f \in outs' : role'[f] = "out"
      <3>1. call[p].txo \in Fundings /\ role[call[p].txo] = "out"
        BY <2>1 DEF WriteSpliceOut, OwnInv, TypeInv, CallShape, Tasks
      <3>2. outs \subseteq Fundings /\ outs' = outs \cup {call[p].txo}
        BY <2>1 DEF WriteSpliceOut, TypeInv, RestOK
      <3> QED
        BY <1>r, <3>1, <3>2 DEF RecordsInv
    <2>2. CASE UNCHANGED outs
      BY <1>r, <2>2 DEF RecordsInv, TypeInv, RestOK
    <2> QED
      BY <2>1, <2>2, OutsFrame
  <1> DEFINE Rest == /\ \A i \in Ids : Matches(i, mem[i])' /\ Matches(i, disk[i])'
                     /\ \A t \in Tasks \cup {Ldk} : \A w \in pend'[t] : Matches(w.id, w.meta)'
  <1>1. ASSUME UNCHANGED <<mem, disk, pend>> PROVE Rest
    BY <1>1, <1>r DEF RecordsInv, Matches
  <1>2. ASSUME Restart PROVE Rest
    <2>1. /\ mem' = disk /\ disk' = disk
          /\ \A t \in Tasks \cup {Ldk} : pend'[t] = {}
      BY <1>2 DEF Restart
    <2> QED
      BY <2>1, <1>r DEF RecordsInv, Matches
  <1>3. ASSUME NEW t \in Tasks \cup {Ldk}, Flush(t) PROVE Rest
    <2>1. PICK w \in pend[t] : /\ disk' = [disk EXCEPT ![w.id] = w.meta]
                               /\ pend' = [pend EXCEPT ![t] = pend[t] \ {w}]
      BY <1>3 DEF Flush
    <2>2. UNCHANGED <<mem, role>>
      BY <1>3 DEF Flush, node
    <2>3. Matches(w.id, w.meta) /\ \A i \in Ids : Matches(i, mem[i]) /\ Matches(i, disk[i])
      BY DEF RecordsInv
    <2>4. \A i \in Ids : Matches(i, mem[i])' /\ Matches(i, disk[i])'
      BY <2>1, <2>2, <2>3 DEF Matches, TypeInv, MetaOK
    <2>5. \A u \in Tasks \cup {Ldk} : pend'[u] \subseteq pend[u]
      BY <2>1 DEF TypeInv, MetaOK
    <2>6. \A u \in Tasks \cup {Ldk} : \A x \in pend'[u] : Matches(x.id, x.meta)'
      BY <2>2, <2>5 DEF RecordsInv, Matches
    <2> QED
      BY <2>4, <2>6
  <1>4. ASSUME NEW c \in Callers, SelectTrigger(c) PROVE Rest
    <2>1. ASSUME UNCHANGED meta PROVE Rest
      BY <2>1, <1>1 DEF meta
    <2>2. ASSUME NEW r \in Receipts, DoSet(c, [i \in {r} |-> Plain("payment")]) PROVE Rest
      <3>1. [i \in {r} |-> Plain("payment")] \in [{r} -> Meta] /\ {r} \in SUBSET Ids
        BY <1>0, MetaValues
      <3>2. PICK m \in [{r} -> Meta] : DoSet(c, m)
        BY <2>2, <3>1
      <3>3. \A i \in {r} : Matches(i, m[i])'
        BY <1>0 DEF Matches
      <3> QED
        BY <3>1, <3>2, <3>3, MatchingSet DEF Tasks
    <2> QED
      BY <1>4, <2>1, <2>2, SelectCall
  <1>5. ASSUME NEW c \in Callers, RecordTransfer(c) PROVE Rest
    <2>1. ASSUME UNCHANGED meta PROVE Rest
      BY <2>1, <1>1 DEF meta
    <2>2. CASE DoSet(c, [i \in {call[c].trig, call[c].txo} |->
                           IF i = call[c].trig THEN Plain("trigger") ELSE Transfer(call[c].trig)])
      <3>1. PICK r \in Receipts, f \in Fundings : r = call[c].trig /\ f = call[c].txo
        BY <1>5, RecordCall
      <3>2. PICK m : m = [i \in {r, f} |-> IF i = r THEN Plain("trigger") ELSE Transfer(r)]
        OBVIOUS
      <3>3. m \in [{r, f} -> Meta] /\ m[f].ty = "transfer" /\ {r, f} \in SUBSET Ids
        BY <1>0, <3>2, MetaValues
      <3>4. DoSet(c, m)
        BY <2>2, <3>1, <3>2
      <3>5. role[f] \in {"open", "in"} /\ role'[f] = role[f]
        BY <1>5, <1>r, <3>1 DEF OwnInv, RecordTransfer
      <3>6. \A i \in {r, f} : Matches(i, m[i])'
        BY <1>0, <3>3, <3>5 DEF Matches
      <3> QED
        BY <3>3, <3>4, <3>6, MatchingSet DEF Tasks
    <2> QED
      BY <1>5, <2>1, <2>2 DEF RecordTransfer
  <1>6. ASSUME NEW p \in Payers, UpsertPayment(p) PROVE Rest
    <2>1. PICK f \in Fundings : f = call[p].txo /\ role[f] = "out"
      BY <1>6 DEF UpsertPayment, TypeInv, CallShape, Tasks, OwnInv
    <2>2. PICK m : m = [i \in {f} |-> Plain("payment")]
      OBVIOUS
    <2>3. m \in [{f} -> Meta] /\ {f} \in SUBSET Ids /\ m[f].ty = "payment"
      BY <1>0, <2>2, MetaValues
    <2>4. DoSet(p, m)
      BY <1>6, <2>1, <2>2 DEF UpsertPayment
    <2>5. \A i \in {f} : Matches(i, m[i])'
      BY <1>r, <2>1, <2>3 DEF Matches
    <2> QED
      BY <2>3, <2>4, <2>5, MatchingSet DEF Tasks
  <1>7. ASSUME UpsertPending PROVE Rest
    <2>1. PICK f \in Fundings : f = Event.txo
      BY <1>7, EventType DEF UpsertPending, TypeInv, HandlerOK
    <2>2. PICK m : m = [i \in {f} |-> Plain("pending")]
      OBVIOUS
    <2>3. m \in [{f} -> Meta] /\ {f} \in SUBSET Ids /\ m[f].ty = "pending"
      BY <1>0, <2>2, MetaValues
    <2>4. DoSet(Ldk, m)
      BY <1>7, <2>1, <2>2 DEF UpsertPending
    <2>5. \A i \in {f} : Matches(i, m[i])'
      BY <2>3 DEF Matches
    <2> QED
      BY <2>3, <2>4, <2>5, MatchingSet
  <1>8. Rest
    BY <1>1, <1>2, <1>3, <1>4, <1>5, <1>6, <1>7, MetaFrame
  <1> QED
    BY <1>o, <1>8 DEF RecordsInv

\* The wallet starts with nothing recorded and nobody waiting.
LEMMA InitMatch == Init => MatchInv
  <1> SUFFICES ASSUME Init PROVE InboxInv /\ OwnInv /\ RecordsInv
    BY DEF MatchInv
  <1>1. \A t \in Tasks : call[t].pc = "idle"
    BY IdleCall DEF Init
  <1>2. InboxInv /\ OwnInv
    BY <1>1 DEF Init, InboxInv, OwnInv, Waited, Waiting, Tasks
  <1>3. /\ outs = {} /\ \A i \in Ids : mem[i].ty = "none" /\ disk[i].ty = "none"
        /\ \A t \in Tasks \cup {Ldk} : pend[t] = {}
    BY MetaValues DEF Init
  <1>4. RecordsInv
    BY <1>3 DEF RecordsInv, Matches
  <1> QED
    BY <1>2, <1>4

\* As long as no outpoint went astray, the inbox, the tasks and the records agree
\* on what each transaction is for.
THEOREM MatchAlways == Spec => []MatchInv
  <1>1. TypeInv /\ TypeInv' /\ MatchInv /\ [Next]_vars => MatchInv'
    BY MixedStays, InboxStep, OwnStep, RecordsStep DEF MatchInv
  <1> QED
    BY <1>1, InitMatch, TypeAlways, PTL DEF Spec

\* "each consumer takes its own event": the records say what the transactions
\* are, as long as no outpoint was delivered while another task waited for the
\* channel's next one, or with nobody waiting for it.
THEOREM RecordsSafe == Spec => []RecordsMatchTransactions
  <1>1. MatchInv => RecordsMatchTransactions
    BY DEF MatchInv, RecordsInv, Matches, RecordsMatchTransactions, Ids
  <1> QED
    BY <1>1, MatchAlways, PTL

(***************************************************************************)
(* A transfer has both its ends.                                           *)
(***************************************************************************)

Promoted(r) == mem[r].ty = "trigger"

\* Who may have writes on their way, and which.
WritesInv ==
    /\ \A w \in pend[Ldk] : hpc = "reserved" /\ w.id = Event.txo /\ w.meta = Plain("pending")
    /\ \A c \in Callers : \A w \in pend[c] :
          \/ call[c].pc = "start" /\ w.id \in Receipts /\ mem[w.id].ty = "payment"
             /\ w.meta = Plain("payment")
          \/ /\ call[c].pc = "written"
             /\ \/ w.id = call[c].trig /\ w.meta = Plain("trigger") /\ Promoted(w.id)
                \/ /\ w.id \in Fundings /\ w.meta = Transfer(call[c].trig)
                   /\ \/ mem[w.id] = w.meta
                      \/ mem[w.id].ty # "transfer" /\ call[c].trig \in spoiled
    /\ \A p \in Payers : \A w \in pend[p] :
          call[p].pc = "written" /\ w.id \in Fundings /\ w.meta = Plain("payment")

\* The transaction a caller waits for, or is about to record, is not recorded yet.
FreshInv ==
    \A c \in Callers : call[c].pc \in Waited \cup {"record"} => mem[call[c].own].ty # "transfer"

\* The handler does not overwrite a transfer it has not seen, or its trigger is
\* spoiled.
ReserveInv ==
    \A r \in Receipts \ spoiled, f \in Fundings :
        mem[f] = Transfer(r) => /\ ~(hpc = "reserve" /\ Event.txo = f)
                                /\ \A w \in pend[Ldk] : w.id # f

\* The disk says what the memory says, but for writes on their way.
OnItsWay(r, i) ==
    \E c \in Callers : /\ call[c].pc = "written" /\ call[c].trig = r
                       /\ \E w \in pend[c] : w.id = i

DiskInv ==
    \A r \in Receipts \ spoiled :
        /\ disk[r].ty = "trigger" => Promoted(r)
        /\ Promoted(r) => disk[r].ty = "trigger" \/ OnItsWay(r, r)
        /\ \A f \in Fundings :
              /\ disk[f] = Transfer(r) => mem[f] = Transfer(r)
              /\ mem[f] = Transfer(r) => disk[f] = Transfer(r) \/ OnItsWay(r, f)

\* A promoted trigger has one transfer, and a transfer's trigger is promoted.
BothEnds ==
    \A r \in Receipts \ spoiled :
        /\ Promoted(r) => \E f \in Fundings : mem[f] = Transfer(r)
        /\ \A f \in Fundings : mem[f] = Transfer(r) => Promoted(r)
        /\ \A f, g \in Fundings : mem[f] = Transfer(r) /\ mem[g] = Transfer(r) => f = g

EndsParts == WritesInv /\ FreshInv /\ ReserveInv /\ DiskInv /\ BothEnds

EndsInv == ~mixed => EndsParts

\* LDK's first event stays while the handler has not finished reserving its entry.
LEMMA StillReserving ==
    ASSUME TypeInv, [Next]_vars, ~Restart
    PROVE  /\ hpc = "reserve" /\ ~UpsertPending => hpc' = "reserve" /\ Event' = Event
           /\ hpc = "reserved" /\ ~Landed(Ldk) => hpc' = "reserved" /\ Event' = Event
           /\ hpc' = "reserve" => (hpc = "reserve" /\ Event' = Event) \/ ReserveSlot
  <1>0. ldkq \in Seq(LdkEvent) /\ (hpc # "idle" => ldkq # <<>>)
    BY DEF TypeInv, HandlerOK
  <1>1. ASSUME NEW e, ldkq' = Append(ldkq, e), ldkq # <<>> PROVE Event' = Event
    <2>1. Len(ldkq) \in Nat /\ Len(ldkq) > 0
      BY <1>0, <1>1, EmptySeq, LenProperties
    <2>2. Append(ldkq, e)[1] = ldkq[1]
      BY <1>0, <2>1
    <2>3. Head(Append(ldkq, e)) = Append(ldkq, e)[1] /\ Head(ldkq) = ldkq[1]
      BY <1>0, <1>1, <2>1
    <2> QED
      BY <1>1, <2>2, <2>3 DEF Event
  <1>2. CASE LdkSplice
    BY <1>0, <1>1, <1>2 DEF LdkSplice, Emit, ReserveSlot
  <1>3. ASSUME NEW f \in Channels, LdkChannel(f)
        PROVE  hpc' = hpc /\ (hpc # "idle" => Event' = Event)
    BY <1>0, <1>1, <1>3 DEF LdkChannel, ChannelStep, Emit
  <1>4. CASE UNCHANGED <<ldkq, hpc>>
    BY <1>4 DEF Event
  <1>5. CASE ReserveSlot \/ UpsertPending
    BY <1>5 DEF ReserveSlot, UpsertPending, Event
  <1>6. CASE \/ ChannelPending \/ SpliceNegotiated \/ AddSplicePending \/ ChannelReady
             \/ ChannelClosed \/ SpliceNegotiationFailed
    BY <1>6 DEF ChannelPending, SpliceNegotiated, AddSplicePending, ChannelReady,
        ChannelClosed, SpliceNegotiationFailed
  <1> QED
    BY <1>2, <1>3, <1>4, <1>5, <1>6, HandlerFrame

\* Nobody moves on before the writes it waits for have landed.
LEMMA WriterStays ==
    ASSUME TypeInv, [Next]_vars, ~Restart, WritesInv, NEW t \in Tasks, ~Landed(t)
    PROVE  call'[t] = call[t]
  <1>0. Tasks = Callers \cup Payers /\ \E w : w \in pend[t]
    BY DEF Tasks, Landed
  <1>1. ASSUME NEW c \in Callers, CallerDoes(c), c # t PROVE call'[t] = call[t]
    BY <1>1, CallerMoves DEF CallerFine, Only
  <1>2. ASSUME NEW p \in Payers, PayerDoes(p), p # t PROVE call'[t] = call[t]
    BY <1>2, PayerMoves DEF PayerFine, Only
  <1>3. ~(t \in Callers /\ CallerDoes(t))
    <2>1. t \in Callers => call[t].pc \in {"start", "written"}
      BY <1>0 DEF WritesInv
    <2> QED
      BY <2>1 DEF CallerDoes, Rebalance, Wait, LockBalance, ReadSync, ListNew, ListWith, Announce,
        SelectTrigger, SpliceIn, OpenChannel, RebalanceFails, AwaitChannel, ChannelWakes,
        RecordTransfer, RebalanceReturns, Register, CheckInbox, Notified
  <1>4. ~(t \in Payers /\ PayerDoes(t))
    <2>1. t \in Payers => call[t].pc = "written"
      BY <1>0 DEF WritesInv
    <2> QED
      BY <2>1 DEF PayerDoes, Pay, Wait, SpliceOut, WriteSpliceOut, UpsertPayment, PayReturns,
        Register, CheckInbox, Notified
  <1> QED
    BY <1>0, <1>1, <1>2, <1>3, <1>4, CallFrame

\* Only the caller that holds the lock works.
LEMMA OneWorks ==
    ASSUME TypeInv, NEW c \in Callers, NEW d \in Callers,
           call[c].pc \in Working, call[d].pc \in Working
    PROVE  c = d
  BY DEF TypeInv, LockOK

\* A caller waits for a transaction of its own from the moment LDK accepts it.
LEMMA FreshStep ==
    ASSUME TypeInv, [Next]_vars, ~mixed', OwnInv, RecordsInv, FreshInv,
           \A f \in Fundings : mem'[f].ty = "transfer" => mem[f].ty = "transfer"
    PROVE  FreshInv'
  <1> SUFFICES ASSUME NEW c \in Callers, call'[c].pc \in Waited \cup {"record"}
               PROVE  mem'[call'[c].own].ty # "transfer"
    BY DEF FreshInv
  <1>0. c \in Tasks /\ c \notin Payers
    BY OnchainAssumption DEF Tasks
  <1>1. ASSUME NEW f \in Fundings, role[f] = "unused" PROVE mem'[f].ty # "transfer"
    BY <1>1 DEF RecordsInv, Matches, Ids
  <1>2. ASSUME call[c].pc \in Waited \cup {"record"}, call'[c].own = call[c].own
        PROVE  mem'[call'[c].own].ty # "transfer"
    <2>1. call[c].own \in Fundings
      BY <1>0, <1>2 DEF OwnInv, TypeInv, CallShape
    <2> QED
      BY <1>2, <2>1 DEF FreshInv
  <1>3. CASE SpliceIn(c)
    BY <1>0, <1>1, <1>3, SplicesAlone
  <1>4. CASE OpenChannel(c)
    BY <1>1, <1>4, OpenCall DEF Fundings
  <1>5. CASE AwaitChannel(c)
    BY <1>2, <1>5, AwaitCall DEF AwaitChannel, Waited
  <1>6. CASE CheckInbox(c)
    BY <1>0, <1>2, <1>6, CheckCall DEF CheckInbox, Waited, Waiting
  <1>7. CASE /\ call[c].pc \in Waiting \cup {"sleepChannel"}
             /\ SameFunding(c)
    BY <1>2, <1>7 DEF SameFunding, Waited, Waiting
  <1>8. ~Restart
    BY <1>0, IdleCall DEF Restart, Waited, Waiting
  <1>9. ASSUME NEW d \in Callers, CallerDoes(d), d # c PROVE call'[c] = call[c]
    BY <1>0, <1>9, CallerMoves DEF CallerFine, Only
  <1>10. ASSUME NEW p \in Payers, PayerDoes(p) PROVE call'[c] = call[c]
    BY <1>0, <1>10, PayerMoves DEF PayerFine, Only
  <1>11. CASE call'[c] = call[c]
    BY <1>2, <1>11
  <1> QED
    BY <1>3, <1>4, <1>5, <1>6, <1>7, <1>8, <1>9, <1>10, <1>11, CallerTo, CallFrame

\* To every trigger that is not spoiled the memory says what it said before.
SameView ==
    \A r \in Receipts \ spoiled :
        /\ mem'[r].ty = "trigger" <=> mem[r].ty = "trigger"
        /\ \A f \in Fundings : mem'[f] = Transfer(r) <=> mem[f] = Transfer(r)

\* A write that was on its way still is.
LEMMA StillOnItsWay ==
    ASSUME TypeInv, [Next]_vars, ~Restart, WritesInv, NEW r, NEW i, OnItsWay(r, i),
           \A c \in Callers : ~Landed(c) => pend'[c] = pend[c]
    PROVE  OnItsWay(r, i)'
  <1>1. PICK c \in Callers : /\ call[c].pc = "written" /\ call[c].trig = r
                             /\ \E w \in pend[c] : w.id = i
    BY DEF OnItsWay
  <1>2. c \in Tasks /\ ~Landed(c)
    BY <1>1 DEF Landed, Tasks
  <1>3. call'[c] = call[c] /\ pend'[c] = pend[c]
    BY <1>2, WriterStays
  <1> QED
    BY <1>1, <1>3 DEF OnItsWay

\* A step that changes nothing of that on disk or in memory.
LEMMA SameEnds ==
    ASSUME TypeInv, [Next]_vars, ~Restart, WritesInv, DiskInv, BothEnds, SameView,
           UNCHANGED <<disk, spoiled>>, \A c \in Callers : ~Landed(c) => pend'[c] = pend[c]
    PROVE  DiskInv' /\ BothEnds'
  <1>1. ASSUME NEW r \in Receipts, NEW i, OnItsWay(r, i) PROVE OnItsWay(r, i)'
    BY <1>1, StillOnItsWay
  <1>2. DiskInv'
    BY <1>1 DEF DiskInv, SameView, Promoted
  <1>3. BothEnds'
    BY DEF BothEnds, SameView, Promoted
  <1> QED
    BY <1>2, <1>3

\* What setting entries does to the store.
LEMMA DoSetFacts ==
    ASSUME MetaOK, NEW t \in Tasks \cup {Ldk}, NEW S \in SUBSET Ids, NEW m \in [S -> Meta],
           DoSet(t, m)
    PROVE  /\ \A i \in S : mem'[i] = m[i]
           /\ \A i \in Ids \ S : mem'[i] = mem[i]
           /\ disk' = disk
           /\ \A u \in Tasks \cup {Ldk} : u # t => pend'[u] = pend[u]
           /\ \A w \in pend'[t] : w.id \in S /\ w.meta = m[w.id]
           /\ \A i \in S : \E w \in pend'[t] : w.id = i
  <1>1. pend'[t] = {[id |-> i, meta |-> m[i]] : i \in S}
    BY DEF DoSet, MetaOK
  <1>2. \A w \in pend'[t] : w.id \in S /\ w.meta = m[w.id]
    BY <1>1
  <1>3. ASSUME NEW i \in S PROVE \E w \in pend'[t] : w.id = i
    <2>1. [id |-> i, meta |-> m[i]] \in pend'[t] /\ [id |-> i, meta |-> m[i]].id = i
      BY <1>1
    <2> QED
      BY <2>1
  <1>4. \A u \in Tasks \cup {Ldk} : u # t => pend'[u] = pend[u]
    BY DEF DoSet, MetaOK
  <1> QED
    BY <1>2, <1>3, <1>4 DEF DoSet

\* A step that leaves the metadata alone keeps the ends together.
LEMMA QuietEnds ==
    ASSUME TypeInv, [Next]_vars, ~Restart, ~mixed', OwnInv, RecordsInv, EndsParts,
           UNCHANGED <<mem, disk, pend, spoiled>>
    PROVE  EndsParts'
  <1> USE DEF EndsParts
  <1>1. FreshInv'
    BY FreshStep
  <1>2. DiskInv' /\ BothEnds'
    <2>1. SameView
      BY DEF SameView
    <2> QED
      BY <2>1, SameEnds
  <1>3. WritesInv'
    <2>1. ASSUME NEW w \in pend[Ldk]
          PROVE  hpc' = "reserved" /\ Event' = Event
      BY <2>1, StillReserving DEF WritesInv, Landed
    <2>2. ASSUME NEW t \in Tasks, NEW w \in pend[t] PROVE call'[t] = call[t]
      BY <2>2, WriterStays DEF Landed
    <2>3. Callers \subseteq Tasks /\ Payers \subseteq Tasks
      BY DEF Tasks
    <2>4. \A w \in pend'[Ldk] : hpc' = "reserved" /\ w.id = Event'.txo /\ w.meta = Plain("pending")
      BY <2>1 DEF WritesInv
    <2>5. ASSUME NEW c \in Callers, NEW w \in pend'[c] PROVE call'[c] = call[c] /\ w \in pend[c]
      BY <2>2, <2>3, <2>5
    <2>6. ASSUME NEW p \in Payers, NEW w \in pend'[p] PROVE call'[p] = call[p] /\ w \in pend[p]
      BY <2>2, <2>3, <2>6
    <2> QED
      BY <2>4, <2>5, <2>6 DEF WritesInv, Promoted
  <1>4. ReserveInv'
    <2>1. ReserveSlot /\ hpc' = "reserve" => mem[Event.txo].ty = "none" /\ Event' = Event
      BY DEF ReserveSlot, Event
    <2>2. \A r \in Receipts : Transfer(r).ty # "none"
      BY MetaValues
    <2> QED
      BY <2>1, <2>2, StillReserving DEF ReserveInv
  <1> QED
    BY <1>1, <1>2, <1>3, <1>4

\* The receipt to blame gets its entry.
LEMMA SelectEnds ==
    ASSUME TypeInv, [Next]_vars, ~mixed', OwnInv, RecordsInv, EndsParts,
           NEW c \in Callers, SelectTrigger(c), ~UNCHANGED meta
    PROVE  EndsParts'
  <1> USE DEF EndsParts
  <1>0. /\ Callers \subseteq Tasks /\ Payers \subseteq Tasks /\ Ldk \notin Tasks
        /\ c \in Tasks /\ c \notin Payers
        /\ Receipts \subseteq Ids /\ Fundings \subseteq Ids /\ Receipts \cap Fundings = {}
        /\ MetaOK
    BY OnchainAssumption DEF Tasks, Ids, TypeInv
  <1>1. PICK r \in Receipts :
            /\ Only(c) /\ call'[c].pc = "start" /\ call'[c].trig = r
            /\ mem[r].ty = "none" /\ DoSet(c, [i \in {r} |-> Plain("payment")])
    BY SelectCall
  <1>2. PICK m : m = [i \in {r} |-> Plain("payment")]
    OBVIOUS
  <1>3. /\ m \in [{r} -> Meta] /\ {r} \in SUBSET Ids
        /\ m[r] = Plain("payment") /\ m[r].ty = "payment" /\ DoSet(c, m)
    BY <1>0, <1>1, <1>2, MetaValues
  <1>4. /\ mem'[r] = m[r]
        /\ \A i \in Ids : i # r => mem'[i] = mem[i]
        /\ disk' = disk
        /\ \A u \in Tasks \cup {Ldk} : u # c => pend'[u] = pend[u]
        /\ \A w \in pend'[c] : w.id = r /\ w.meta = m[r]
    BY <1>0, <1>3, DoSetFacts
  <1>5. UNCHANGED <<ldkq, hpc, spoiled>> /\ ~Restart /\ call[c].pc = "select"
    <2>1. UNCHANGED <<ldkq, hpc, spoiled>> /\ call[c].pc = "select"
      BY DEF SelectTrigger, handler
    <2>2. ~Restart
      BY <1>0, <1>1, IdleCall DEF Restart
    <2> QED
      BY <2>1, <2>2
  <1>6. Landed(c)
    BY <1>5 DEF WritesInv, Landed
  <1>7. \A f \in Fundings : mem'[f] = mem[f]
    BY <1>0, <1>4
  <1>8. FreshInv'
    BY <1>7, FreshStep
  <1>9. DiskInv' /\ BothEnds'
    <2>1. SameView
      BY <1>0, <1>1, <1>3, <1>4, <1>7 DEF SameView
    <2>2. \A d \in Callers : ~Landed(d) => pend'[d] = pend[d]
      BY <1>0, <1>4, <1>6
    <2> QED
      BY <1>4, <1>5, <2>1, <2>2, SameEnds
  <1>10. ReserveInv'
    BY <1>0, <1>4, <1>5, <1>7 DEF ReserveInv, Event
  <1>11. WritesInv'
    <2>1. \A w \in pend'[Ldk] : hpc' = "reserved" /\ w.id = Event'.txo /\ w.meta = Plain("pending")
      BY <1>0, <1>4, <1>5 DEF WritesInv, Event
    <2>2. \A p \in Payers : \A w \in pend'[p] :
              call'[p].pc = "written" /\ w.id \in Fundings /\ w.meta = Plain("payment")
      BY <1>0, <1>1, <1>4 DEF WritesInv, Only
    <2>3. ASSUME NEW d \in Callers, d # c PROVE pend'[d] = {}
      <3>1. call[d].pc \notin Working
        BY <1>5, <2>3, OneWorks DEF Working
      <3> QED
        BY <1>0, <1>4, <2>3, <3>1 DEF WritesInv, Working
    <2>4. \A w \in pend'[c] : /\ call'[c].pc = "start" /\ w.id \in Receipts
                              /\ mem'[w.id].ty = "payment" /\ w.meta = Plain("payment")
      BY <1>1, <1>3, <1>4
    <2> QED
      BY <2>1, <2>2, <2>3, <2>4 DEF WritesInv
  <1> QED
    BY <1>8, <1>9, <1>10, <1>11

\* A transfer determines its trigger and is no plain entry.
LEMMA TransferOf ==
    \A r, q \in Receipts : /\ Transfer(r) = Transfer(q) => r = q
                           /\ Transfer(r).ty = "transfer"
  <1>1. \A r, q \in Receipts : Transfer(r) = Transfer(q) => r = q
    <2> SUFFICES ASSUME NEW r \in Receipts, NEW q \in Receipts, Transfer(r) = Transfer(q)
                 PROVE  r = q
      OBVIOUS
    <2>1. Transfer(r).trigger = r /\ Transfer(q).trigger = q
      BY MetaValues
    <2> QED
      BY <2>1
  <1> QED
    BY <1>1, MetaValues

\* The trigger is promoted and its transfer recorded, under one lock.
LEMMA RecordEnds ==
    ASSUME TypeInv, [Next]_vars, ~mixed', OwnInv, RecordsInv, EndsParts,
           NEW c \in Callers, RecordTransfer(c), mem[call[c].trig].ty = "payment"
    PROVE  EndsParts'
  <1> USE DEF EndsParts
  <1>0. /\ Callers \subseteq Tasks /\ Payers \subseteq Tasks /\ Ldk \notin Tasks
        /\ c \in Tasks /\ c \notin Payers
        /\ Receipts \subseteq Ids /\ Fundings \subseteq Ids /\ Receipts \cap Fundings = {}
        /\ MetaOK
    BY OnchainAssumption DEF Tasks, Ids, TypeInv
  <1>1. PICK r \in Receipts, f \in Fundings : r = call[c].trig /\ f = call[c].txo
    BY RecordCall
  <1>2. PICK m : m = [i \in {r, f} |-> IF i = r THEN Plain("trigger") ELSE Transfer(r)]
    OBVIOUS
  <1>3. /\ DoSet(c, m)
        /\ spoiled' = IF Reserving(f) THEN spoiled \cup {r} ELSE spoiled
        /\ UNCHANGED <<ldkq, hpc>>
        /\ call[c].pc = "record" /\ mem[r].ty = "payment"
    <2>1. DoSet(c, [i \in {r, f} |-> IF i = r THEN Plain("trigger") ELSE Transfer(r)])
      BY <1>1 DEF RecordTransfer
    <2> QED
      BY <1>1, <1>2, <2>1 DEF RecordTransfer, handler
  <1>4. Only(c) /\ call'[c].pc = "written" /\ call'[c].trig = r
    <2>1. ~(call'[c].pc = "panic")
      <3>1. Goto(c, "written")
        BY DEF RecordTransfer
      <3> QED
        BY <1>0, <3>1, GotoCall DEF Working, TypeInv
    <2> QED
      BY <1>1, <2>1, RecordCall DEF SameFunding
  <1>5. /\ m \in [{r, f} -> Meta] /\ {r, f} \in SUBSET Ids /\ r # f
        /\ m[r] = Plain("trigger") /\ m[r].ty = "trigger" /\ m[f] = Transfer(r)
    BY <1>0, <1>2, MetaValues
  <1>6. /\ mem'[r] = m[r] /\ mem'[f] = m[f]
        /\ \A i \in Ids : i # r /\ i # f => mem'[i] = mem[i]
        /\ disk' = disk
        /\ \A u \in Tasks \cup {Ldk} : u # c => pend'[u] = pend[u]
        /\ \A w \in pend'[c] : w.id \in {r, f} /\ w.meta = m[w.id]
        /\ \E w \in pend'[c] : w.id = r
        /\ \E w \in pend'[c] : w.id = f
    <2>1. PICK S \in SUBSET Ids : S = {r, f}
      BY <1>5
    <2>2. m \in [S -> Meta] /\ c \in Tasks \cup {Ldk}
      BY <1>0, <1>5, <2>1
    <2>3. /\ \A i \in S : mem'[i] = m[i]
          /\ \A i \in Ids \ S : mem'[i] = mem[i]
          /\ disk' = disk
          /\ \A u \in Tasks \cup {Ldk} : u # c => pend'[u] = pend[u]
          /\ \A w \in pend'[c] : w.id \in S /\ w.meta = m[w.id]
          /\ \A i \in S : \E w \in pend'[c] : w.id = i
      BY <1>0, <1>3, <2>2, DoSetFacts
    <2> QED
      BY <2>1, <2>3
  <1>7. mem[f].ty # "transfer"
    BY <1>1, <1>3 DEF FreshInv, OwnInv
  <1>8. \A d \in Callers : d # c => call'[d] = call[d] /\ call[d].pc \notin Working
    BY <1>0, <1>3, <1>4, OneWorks DEF Working, Only
  <1>9. FreshInv'
    BY <1>4, <1>8 DEF FreshInv, Working, Waited, Waiting
  <1>10. WritesInv'
    <2>1. \A w \in pend'[Ldk] : hpc' = "reserved" /\ w.id = Event'.txo /\ w.meta = Plain("pending")
      BY <1>0, <1>3, <1>6 DEF WritesInv, Event
    <2>2. \A p \in Payers : \A w \in pend'[p] :
              call'[p].pc = "written" /\ w.id \in Fundings /\ w.meta = Plain("payment")
      BY <1>0, <1>4, <1>6 DEF WritesInv, Only
    <2>3. ASSUME NEW d \in Callers, d # c PROVE pend'[d] = {}
      BY <1>0, <1>6, <1>8, <2>3 DEF WritesInv, Working
    <2>4. ASSUME NEW w \in pend'[c]
          PROVE  \/ w.id = call'[c].trig /\ w.meta = Plain("trigger") /\ mem'[w.id].ty = "trigger"
                 \/ /\ w.id \in Fundings /\ w.meta = Transfer(call'[c].trig)
                    /\ mem'[w.id] = w.meta
      <3>1. w.id \in {r, f} /\ w.meta = m[w.id]
        BY <1>6, <2>4
      <3> QED
        BY <1>4, <1>5, <1>6, <3>1
    <2> QED
      BY <1>4, <2>1, <2>2, <2>3, <2>4 DEF WritesInv, Promoted
  <1>11. ASSUME NEW q \in Receipts, q \notin spoiled'
         PROVE  /\ q \notin spoiled
                /\ q # r => \A g \in Fundings : mem'[g] = Transfer(q) <=> mem[g] = Transfer(q)
                /\ q = r => /\ \A g \in Fundings : mem'[g] = Transfer(q) <=> g = f
                            /\ \A g \in Fundings : mem[g] # Transfer(q)
    <2>1. q \notin spoiled
      BY <1>3, <1>11
    <2>2. ASSUME q # r, NEW g \in Fundings PROVE mem'[g] = Transfer(q) <=> mem[g] = Transfer(q)
      <3>1. CASE g = f
        BY <1>5, <1>6, <1>7, <2>2, <3>1, TransferOf
      <3>2. CASE g # f
        BY <1>0, <1>6, <3>2
      <3> QED
        BY <3>1, <3>2
    <2>3. ASSUME q = r PROVE \A g \in Fundings : mem[g] # Transfer(q)
      BY <1>3, <2>1, <2>3 DEF BothEnds, Promoted
    <2>4. ASSUME q = r, NEW g \in Fundings PROVE mem'[g] = Transfer(q) <=> g = f
      BY <1>0, <1>5, <1>6, <2>3, <2>4
    <2> QED
      BY <2>1, <2>2, <2>3, <2>4
  <1>12. ReserveInv'
    <2> SUFFICES ASSUME NEW q \in Receipts, q \notin spoiled', NEW g \in Fundings,
                        mem'[g] = Transfer(q)
                 PROVE  ~(hpc = "reserve" /\ Event.txo = g) /\ \A w \in pend[Ldk] : w.id # g
      BY <1>0, <1>3, <1>6 DEF ReserveInv, Event
    <2>1. CASE q # r
      BY <1>11, <2>1 DEF ReserveInv
    <2>2. CASE q = r
      <3>1. g = f /\ ~Reserving(f)
        BY <1>3, <1>11, <2>2
      <3> QED
        BY <3>1 DEF Reserving, Landed, Event, WritesInv
    <2> QED
      BY <2>1, <2>2
  <1>13. /\ (OnItsWay(r, r))' /\ (OnItsWay(r, f))'
         /\ \A q, i : ~OnItsWay(q, i)
    <2>1. \A d \in Callers : call[d].pc # "written"
      BY <1>3, <1>8 DEF Working
    <2> QED
      BY <1>4, <1>6, <2>1 DEF OnItsWay
  <1>14. DiskInv'
    <2> SUFFICES ASSUME NEW q \in Receipts, q \notin spoiled'
                 PROVE  /\ disk[q].ty = "trigger" => mem'[q].ty = "trigger"
                        /\ mem'[q].ty = "trigger" => disk[q].ty = "trigger" \/ (OnItsWay(q, q))'
                        /\ \A g \in Fundings :
                              /\ disk[g] = Transfer(q) => mem'[g] = Transfer(q)
                              /\ mem'[g] = Transfer(q) =>
                                    disk[g] = Transfer(q) \/ (OnItsWay(q, g))'
      BY <1>6 DEF DiskInv, Promoted
    <2>1. CASE q # r
      <3>1. mem'[q] = mem[q]
        BY <1>0, <1>6, <2>1
      <3> QED
        BY <1>11, <1>13, <2>1, <3>1 DEF DiskInv, Promoted
    <2>2. CASE q = r
      <3>1. \A g \in Fundings : disk[g] # Transfer(q)
        BY <1>11, <2>2 DEF DiskInv
      <3> QED
        BY <1>5, <1>6, <1>11, <1>13, <2>2, <3>1
    <2> QED
      BY <2>1, <2>2
  <1>15. BothEnds'
    <2> SUFFICES ASSUME NEW q \in Receipts, q \notin spoiled'
                 PROVE  /\ mem'[q].ty = "trigger" => \E g \in Fundings : mem'[g] = Transfer(q)
                        /\ \A g \in Fundings : mem'[g] = Transfer(q) => mem'[q].ty = "trigger"
                        /\ \A g, h \in Fundings :
                              mem'[g] = Transfer(q) /\ mem'[h] = Transfer(q) => g = h
      BY DEF BothEnds, Promoted
    <2>1. CASE q # r
      <3>1. mem'[q] = mem[q]
        BY <1>0, <1>6, <2>1
      <3> QED
        BY <1>11, <2>1, <3>1 DEF BothEnds, Promoted
    <2>2. CASE q = r
      BY <1>5, <1>6, <1>11, <2>2
    <2> QED
      BY <2>1, <2>2
  <1> QED
    BY <1>9, <1>10, <1>12, <1>14, <1>15

\* A payment's entry is never a transfer's.
LEMMA PaymentEnds ==
    ASSUME TypeInv, [Next]_vars, ~mixed', OwnInv, RecordsInv, EndsParts,
           NEW p \in Payers, UpsertPayment(p)
    PROVE  EndsParts'
  <1> USE DEF EndsParts
  <1>0. /\ Callers \subseteq Tasks /\ Payers \subseteq Tasks /\ Ldk \notin Tasks
        /\ p \in Tasks /\ p \notin Callers
        /\ Receipts \subseteq Ids /\ Fundings \subseteq Ids /\ Receipts \cap Fundings = {}
        /\ MetaOK
    BY OnchainAssumption DEF Tasks, Ids, TypeInv
  <1>1. PICK f \in Fundings : f = call[p].txo /\ role[f] = "out"
    BY <1>0 DEF UpsertPayment, TypeInv, CallShape, OwnInv
  <1>2. PICK m : m = [i \in {f} |-> Plain("payment")]
    OBVIOUS
  <1>3. /\ m \in [{f} -> Meta] /\ {f} \in SUBSET Ids
        /\ m[f] = Plain("payment") /\ m[f].ty = "payment" /\ DoSet(p, m)
    BY <1>0, <1>1, <1>2, MetaValues DEF UpsertPayment
  <1>4. /\ mem'[f] = m[f]
        /\ \A i \in Ids : i # f => mem'[i] = mem[i]
        /\ disk' = disk
        /\ \A u \in Tasks \cup {Ldk} : u # p => pend'[u] = pend[u]
        /\ \A w \in pend'[p] : w.id = f /\ w.meta = m[f]
    BY <1>0, <1>3, DoSetFacts
  <1>5. UNCHANGED <<ldkq, hpc, spoiled>> /\ Only(p) /\ call'[p].pc = "written"
    <2>1. UNCHANGED <<ldkq, hpc, spoiled>> /\ Goto(p, "written")
      BY DEF UpsertPayment, handler
    <2> QED
      BY <1>0, <2>1, GotoCall DEF Working, TypeInv
  <1>6. ~Restart
    BY <1>0, <1>5, IdleCall DEF Restart
  <1>7. mem[f].ty # "transfer"
    BY <1>0, <1>1 DEF RecordsInv, Matches
  <1>8. /\ \A g \in Fundings : mem'[g].ty = "transfer" => mem[g].ty = "transfer"
        /\ \A r \in Receipts : mem'[r] = mem[r]
        /\ \A r \in Receipts, g \in Fundings : mem'[g] = Transfer(r) <=> mem[g] = Transfer(r)
    BY <1>0, <1>3, <1>4, <1>7, TransferOf
  <1>9. FreshInv'
    BY <1>8, FreshStep
  <1>10. DiskInv' /\ BothEnds'
    <2>1. SameView
      BY <1>8 DEF SameView
    <2> QED
      BY <1>0, <1>4, <1>5, <1>6, <2>1, SameEnds
  <1>11. ReserveInv'
    BY <1>0, <1>4, <1>5, <1>8 DEF ReserveInv, Event
  <1>12. WritesInv'
    <2>1. \A w \in pend'[Ldk] : hpc' = "reserved" /\ w.id = Event'.txo /\ w.meta = Plain("pending")
      BY <1>0, <1>4, <1>5 DEF WritesInv, Event
    <2>2. \A q \in Payers : \A w \in pend'[q] :
              call'[q].pc = "written" /\ w.id \in Fundings /\ w.meta = Plain("payment")
      BY <1>0, <1>3, <1>4, <1>5 DEF WritesInv, Only
    <2>3. ASSUME NEW c \in Callers, NEW w \in pend'[c]
          PROVE  /\ w \in pend[c] /\ call'[c] = call[c]
                 /\ w.id \in Receipts => mem'[w.id] = mem[w.id]
                 /\ w.id \in Fundings =>
                       \/ mem'[w.id] = mem[w.id]
                       \/ mem[w.id].ty # "transfer" /\ mem'[w.id].ty # "transfer"
      <3>1. w \in pend[c] /\ call'[c] = call[c]
        BY <1>0, <1>4, <1>5, <2>3 DEF Only
      <3> QED
        BY <1>0, <1>3, <1>4, <1>7, <1>8, <3>1
    <2>4. \A c \in Callers : call[c].pc = "written" => call[c].trig \in Receipts
      BY DEF TypeInv, CallShape
    <2>5. \A r \in Receipts : Transfer(r).ty = "transfer"
      BY MetaValues
    <2> QED
      BY <1>5, <2>1, <2>2, <2>3, <2>4, <2>5 DEF WritesInv, Promoted
  <1> QED
    BY <1>9, <1>10, <1>11, <1>12

\* The handler's placeholder overwrites no transfer whose trigger is not spoiled.
LEMMA PendingEnds ==
    ASSUME TypeInv, [Next]_vars, ~mixed', OwnInv, RecordsInv, EndsParts, UpsertPending
    PROVE  EndsParts'
  <1> USE DEF EndsParts
  <1>0. /\ Callers \subseteq Tasks /\ Payers \subseteq Tasks /\ Ldk \notin Tasks
        /\ Receipts \subseteq Ids /\ Fundings \subseteq Ids /\ Receipts \cap Fundings = {}
        /\ MetaOK
    BY OnchainAssumption DEF Tasks, Ids, TypeInv
  <1>1. PICK f \in Fundings : f = Event.txo
    BY EventType DEF UpsertPending, TypeInv, HandlerOK
  <1>2. PICK m : m = [i \in {f} |-> Plain("pending")]
    OBVIOUS
  <1>3. /\ m \in [{f} -> Meta] /\ {f} \in SUBSET Ids
        /\ m[f] = Plain("pending") /\ m[f].ty = "pending" /\ DoSet(Ldk, m)
    BY <1>0, <1>1, <1>2, MetaValues DEF UpsertPending
  <1>4. /\ mem'[f] = m[f]
        /\ \A i \in Ids : i # f => mem'[i] = mem[i]
        /\ disk' = disk
        /\ \A u \in Tasks : pend'[u] = pend[u]
        /\ \A w \in pend'[Ldk] : w.id = f /\ w.meta = m[f]
    <2>1. PICK t \in Tasks \cup {Ldk} : t = Ldk
      OBVIOUS
    <2>2. /\ mem'[f] = m[f]
          /\ \A i \in Ids : i # f => mem'[i] = mem[i]
          /\ disk' = disk
          /\ \A u \in Tasks \cup {Ldk} : u # t => pend'[u] = pend[u]
          /\ \A w \in pend'[t] : w.id = f /\ w.meta = m[f]
      BY <1>0, <1>3, <2>1, DoSetFacts
    <2> QED
      BY <1>0, <2>1, <2>2
  <1>5. /\ UNCHANGED <<call, spoiled, ldkq>> /\ hpc = "reserve" /\ hpc' = "reserved"
        /\ Event' = Event
    BY DEF UpsertPending, Event
  <1>6. ~Restart
    BY <1>5 DEF Restart
  <1>7. \A r \in Receipts : mem[f] = Transfer(r) => r \in spoiled
    BY <1>1, <1>5 DEF ReserveInv
  <1>8. /\ \A g \in Fundings : mem'[g].ty = "transfer" => mem[g].ty = "transfer"
        /\ \A r \in Receipts : mem'[r] = mem[r]
        /\ \A r \in Receipts \ spoiled, g \in Fundings :
              mem'[g] = Transfer(r) <=> (mem[g] = Transfer(r) /\ g # f)
        /\ \A r \in Receipts \ spoiled : mem[f] # Transfer(r)
    BY <1>0, <1>3, <1>4, <1>7, TransferOf
  <1>9. FreshInv'
    BY <1>8, FreshStep
  <1>10. DiskInv' /\ BothEnds'
    <2>1. SameView
      BY <1>8 DEF SameView
    <2> QED
      BY <1>0, <1>4, <1>5, <1>6, <2>1, SameEnds
  <1>11. ReserveInv'
    BY <1>4, <1>5, <1>8 DEF ReserveInv
  <1>12. WritesInv'
    <2>1. \A w \in pend'[Ldk] : hpc' = "reserved" /\ w.id = Event'.txo /\ w.meta = Plain("pending")
      BY <1>1, <1>3, <1>4, <1>5
    <2>2. \A q \in Payers : \A w \in pend'[q] :
              call'[q].pc = "written" /\ w.id \in Fundings /\ w.meta = Plain("payment")
      BY <1>0, <1>4, <1>5 DEF WritesInv
    <2>3. \A c \in Callers : call[c].pc = "written" => call[c].trig \in Receipts
      BY DEF TypeInv, CallShape
    <2>4. ASSUME NEW c \in Callers, NEW w \in pend[c], w.id \in Fundings, call[c].pc = "written",
                 w.meta = Transfer(call[c].trig),
                 mem[w.id] = w.meta \/ (mem[w.id].ty # "transfer" /\ call[c].trig \in spoiled)
          PROVE  mem'[w.id] = w.meta \/ (mem'[w.id].ty # "transfer" /\ call[c].trig \in spoiled)
      <3>1. CASE w.id = f
        BY <1>3, <1>4, <1>7, <2>3, <2>4, <3>1
      <3>2. CASE w.id # f
        BY <1>0, <1>4, <2>4, <3>2
      <3> QED
        BY <3>1, <3>2
    <2>5. ASSUME NEW c \in Callers, NEW w \in pend'[c]
          PROVE  /\ w \in pend[c] /\ call'[c] = call[c]
                 /\ w.id \in Receipts => mem'[w.id] = mem[w.id]
      BY <1>0, <1>4, <1>5, <1>8, <2>5
    <2> QED
      BY <1>5, <2>1, <2>2, <2>3, <2>4, <2>5 DEF WritesInv, Promoted
  <1> QED
    BY <1>9, <1>10, <1>11, <1>12

\* A write that lands brings the disk nearer to the memory.
LEMMA FlushEnds ==
    ASSUME TypeInv, [Next]_vars, ~mixed', OwnInv, RecordsInv, EndsParts,
           NEW t \in Tasks \cup {Ldk}, Flush(t)
    PROVE  EndsParts'
  <1> USE DEF EndsParts
  <1>0. /\ Callers \subseteq Tasks /\ Payers \subseteq Tasks /\ Ldk \notin Tasks
        /\ Callers \cap Payers = {} /\ Tasks = Callers \cup Payers
        /\ Receipts \subseteq Ids /\ Fundings \subseteq Ids /\ Receipts \cap Fundings = {}
        /\ MetaOK
    BY OnchainAssumption DEF Tasks, Ids, TypeInv
  <1>1. PICK w \in pend[t] : /\ disk' = [disk EXCEPT ![w.id] = w.meta]
                             /\ pend' = [pend EXCEPT ![t] = pend[t] \ {w}]
    BY DEF Flush
  <1>2. UNCHANGED <<mem, call, ldkq, hpc, spoiled, role>>
    BY DEF Flush, handler, node
  <1>3. /\ w.id \in Ids /\ w.meta \in Meta
        /\ disk'[w.id] = w.meta
        /\ \A i \in Ids : i # w.id => disk'[i] = disk[i]
        /\ \A u \in Tasks \cup {Ldk} : pend'[u] \subseteq pend[u]
        /\ \A u \in Tasks \cup {Ldk} : \A x \in pend[u] : x.id # w.id => x \in pend'[u]
    BY <1>0, <1>1 DEF MetaOK, Write
  <1>4. WritesInv' /\ FreshInv' /\ ReserveInv' /\ BothEnds'
    <2>1. WritesInv'
      BY <1>0, <1>2, <1>3 DEF WritesInv, Event, Promoted
    <2>2. FreshInv' /\ BothEnds'
      BY <1>2 DEF FreshInv, BothEnds, Promoted
    <2>3. ReserveInv'
      BY <1>2, <1>3 DEF ReserveInv, Event
    <2> QED
      BY <2>1, <2>2, <2>3
  <1>5. ASSUME NEW r, NEW i, OnItsWay(r, i), i # w.id PROVE OnItsWay(r, i)'
    <2>1. PICK c \in Callers : /\ call[c].pc = "written" /\ call[c].trig = r
                               /\ \E x \in pend[c] : x.id = i
      BY <1>5 DEF OnItsWay
    <2>2. \E x \in pend'[c] : x.id = i
      BY <1>0, <1>3, <1>5, <2>1
    <2> QED
      BY <1>2, <2>1, <2>2 DEF OnItsWay
  <1>6. ASSUME NEW r \in Receipts, w.id = r
        PROVE  w.meta.ty = "trigger" <=> mem[r].ty = "trigger"
    <2>1. t \notin Payers /\ t # Ldk
      <3>1. ldkq # <<>> => Event.txo \in Fundings
        BY EventType DEF TypeInv
      <3> QED
        BY <1>0, <1>6, <3>1 DEF WritesInv, TypeInv, HandlerOK
    <2>2. Plain("payment").ty = "payment" /\ Plain("trigger").ty = "trigger"
      BY MetaValues
    <2> QED
      BY <1>0, <1>6, <2>1, <2>2 DEF WritesInv, Promoted
  <1>7. ASSUME NEW f \in Fundings, w.id = f, NEW r \in Receipts \ spoiled
        PROVE  w.meta = Transfer(r) <=> mem[f] = Transfer(r)
    <2>0. /\ Plain("payment").ty = "payment" /\ Plain("pending").ty = "pending"
          /\ Transfer(r).ty = "transfer"
      BY MetaValues
    <2>1. CASE t = Ldk
      BY <1>7, <2>0, <2>1 DEF WritesInv, ReserveInv
    <2>2. CASE t \in Payers
      <3>1. w.meta = Plain("payment") /\ Matches(w.id, w.meta) /\ Matches(f, mem[f])
        BY <1>0, <1>7, <2>2 DEF WritesInv, RecordsInv
      <3> QED
        BY <1>7, <2>0, <3>1 DEF Matches
    <2>3. CASE t \in Callers
      <3>1. f \notin Receipts /\ (call[t].pc = "written" => call[t].trig \in Receipts)
        BY <1>0, <2>3 DEF TypeInv, CallShape
      <3>2. /\ call[t].trig \in Receipts /\ w.meta = Transfer(call[t].trig)
            /\ \/ mem[f] = w.meta
               \/ mem[f].ty # "transfer" /\ call[t].trig \in spoiled
        BY <1>7, <2>3, <3>1 DEF WritesInv
      <3> QED
        BY <1>7, <2>0, <3>2, TransferOf
    <2> QED
      BY <1>0, <2>1, <2>2, <2>3
  <1>8. DiskInv'
    <2> SUFFICES ASSUME NEW r \in Receipts \ spoiled
                 PROVE  /\ disk'[r].ty = "trigger" => mem[r].ty = "trigger"
                        /\ mem[r].ty = "trigger" => disk'[r].ty = "trigger" \/ (OnItsWay(r, r))'
                        /\ \A f \in Fundings :
                              /\ disk'[f] = Transfer(r) => mem[f] = Transfer(r)
                              /\ mem[f] = Transfer(r) =>
                                    disk'[f] = Transfer(r) \/ (OnItsWay(r, f))'
      BY <1>2 DEF DiskInv, Promoted
    <2>1. /\ disk'[r].ty = "trigger" => mem[r].ty = "trigger"
          /\ mem[r].ty = "trigger" => disk'[r].ty = "trigger" \/ (OnItsWay(r, r))'
      <3>1. CASE w.id = r
        BY <1>3, <1>6, <3>1
      <3>2. CASE w.id # r
        BY <1>0, <1>3, <1>5, <3>2 DEF DiskInv, Promoted
      <3> QED
        BY <3>1, <3>2
    <2>2. ASSUME NEW f \in Fundings
          PROVE  /\ disk'[f] = Transfer(r) => mem[f] = Transfer(r)
                 /\ mem[f] = Transfer(r) => disk'[f] = Transfer(r) \/ (OnItsWay(r, f))'
      <3>1. CASE w.id = f
        BY <1>3, <1>7, <3>1
      <3>2. CASE w.id # f
        BY <1>0, <1>3, <1>5, <3>2 DEF DiskInv
      <3> QED
        BY <3>1, <3>2
    <2> QED
      BY <2>1, <2>2
  <1> QED
    BY <1>4, <1>8

\* After a restart the memory is the disk, and a trigger whose writes had not
\* all landed is spoiled.
LEMMA RestartEnds ==
    ASSUME TypeInv, EndsParts, Restart
    PROVE  EndsParts'
  <1> USE DEF EndsParts
  <1>1. /\ mem' = disk /\ disk' = disk /\ \A t \in Tasks \cup {Ldk} : pend'[t] = {}
        /\ hpc' = "idle" /\ \A t \in Tasks : call'[t].pc = "idle"
        /\ spoiled' = spoiled \cup {call[c].trig : c \in {d \in Callers :
                                      call[d].pc = "written" /\ ~Landed(d)}}
    BY IdleCall DEF Restart
  <1>2. WritesInv' /\ FreshInv' /\ ReserveInv'
    <2>1. Callers \subseteq Tasks /\ Payers \subseteq Tasks
      BY DEF Tasks
    <2> QED
      BY <1>1, <2>1 DEF WritesInv, FreshInv, ReserveInv, Waited, Waiting
  <1>3. ASSUME NEW r \in Receipts, r \notin spoiled'
        PROVE  /\ r \notin spoiled
               /\ disk[r].ty = "trigger" <=> mem[r].ty = "trigger"
               /\ \A f \in Fundings : disk[f] = Transfer(r) <=> mem[f] = Transfer(r)
    <2>1. r \notin spoiled
      BY <1>1, <1>3
    <2>2. \A i : ~OnItsWay(r, i)
      BY <1>1, <1>3 DEF OnItsWay, Landed
    <2> QED
      BY <2>1, <2>2 DEF DiskInv, Promoted
  <1>4. DiskInv'
    BY <1>1 DEF DiskInv, Promoted
  <1>5. BothEnds'
    BY <1>1, <1>3 DEF BothEnds, Promoted
  <1> QED
    BY <1>2, <1>4, <1>5

\* The ends of a transfer stay together in every step.
LEMMA EndsStep ==
    ASSUME TypeInv, [Next]_vars, ~mixed', OwnInv, RecordsInv, EndsParts
    PROVE  EndsParts'
  <1>1. CASE Restart
    BY <1>1, RestartEnds
  <1>2. ASSUME ~Restart, UNCHANGED <<mem, disk, pend>>, \A c \in Callers : ~RecordTransfer(c)
        PROVE  EndsParts'
    BY <1>2, SpoiledFrame, QuietEnds
  <1>3. ASSUME NEW c \in Callers, RecordTransfer(c), ~Restart PROVE EndsParts'
    <2>1. CASE mem[call[c].trig].ty = "payment"
      BY <1>3, <2>1, RecordEnds
    <2>2. CASE mem[call[c].trig].ty # "payment"
      <3>1. UNCHANGED <<mem, disk, pend, spoiled>>
        BY <1>3, <2>2 DEF RecordTransfer, meta
      <3> QED
        BY <1>3, <3>1, QuietEnds
    <2> QED
      BY <2>1, <2>2
  <1>4. ASSUME NEW c \in Callers, SelectTrigger(c), ~Restart PROVE EndsParts'
    <2>1. CASE UNCHANGED meta
      <3>1. UNCHANGED <<mem, disk, pend, spoiled>>
        BY <1>4, <2>1 DEF SelectTrigger, meta
      <3> QED
        BY <1>4, <3>1, QuietEnds
    <2> QED
      BY <1>4, <2>1, SelectEnds
  <1> QED
    BY <1>1, <1>2, <1>3, <1>4, PaymentEnds, PendingEnds, FlushEnds, MetaFrame

\* Nothing is promoted and no write is on its way at the start.
LEMMA InitEnds == Init => EndsInv
  <1> SUFFICES ASSUME Init PROVE EndsParts
    BY DEF EndsInv
  <1>1. /\ \A t \in Tasks : call[t].pc = "idle"
        /\ \A i \in Ids : mem[i].ty = "none" /\ disk[i].ty = "none"
        /\ \A t \in Tasks \cup {Ldk} : pend[t] = {}
    BY MetaValues, IdleCall DEF Init
  <1>2. /\ Callers \subseteq Tasks /\ Payers \subseteq Tasks
        /\ Receipts \subseteq Ids /\ Fundings \subseteq Ids
        /\ \A r \in Receipts : Transfer(r).ty = "transfer"
    BY MetaValues DEF Tasks, Ids
  <1>3. WritesInv /\ FreshInv
    BY <1>1, <1>2 DEF WritesInv, FreshInv, Waited, Waiting
  <1>4. ReserveInv /\ DiskInv /\ BothEnds
    BY <1>1, <1>2 DEF ReserveInv, DiskInv, BothEnds, Promoted
  <1> QED
    BY <1>3, <1>4 DEF EndsParts

\* As long as no outpoint went astray, memory and disk agree on every transfer,
\* but for writes on their way.
THEOREM EndsAlways == Spec => []EndsInv
  <1>1. TypeInv /\ MatchInv /\ EndsInv /\ [Next]_vars => EndsInv'
    BY MixedStays, EndsStep DEF MatchInv, EndsInv
  <1> QED
    BY <1>1, InitEnds, MatchAlways, TypeAlways, PTL DEF Spec

\* A promoted trigger has one transfer and a transfer's trigger is promoted, so
\* list_transactions finds both (set_tx_caused_rebalance_with_splice), unless a
\* crash fell between the two writes or the handler was reserving the entry.
THEOREM TransferSafe == Spec => []TransferHasBothEnds
  <1>1. EndsInv => TransferHasBothEnds
    <2> SUFFICES ASSUME BothEnds, NEW r \in Receipts \ spoiled
                 PROVE  IF mem[r].ty = "trigger"
                        THEN \E f \in {f \in Fundings : mem[f] = Transfer(r)} :
                                {g \in Fundings : mem[g] = Transfer(r)} = {f}
                        ELSE {f \in Fundings : mem[f] = Transfer(r)} = {}
      BY DEF EndsInv, EndsParts, TransferHasBothEnds
    <2> QED
      BY DEF BothEnds, Promoted
  <1> QED
    BY <1>1, EndsAlways, PTL

=============================================================================
