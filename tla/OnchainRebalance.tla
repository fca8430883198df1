--------------------------- MODULE OnchainRebalance ---------------------------
(***************************************************************************)
(* Moving on-chain funds into the lightning channel: the on-chain half of  *)
(* `GraduatedRebalancer`, its trigger (`needs_onchain_rebalance`), the     *)
(* handler of the channel and splice events of the LDK node, the inbox     *)
(* through which a splice's outpoint reaches the task that started it, and *)
(* the payments that splice out of the same channel.  Amounts are left out:*)
(* whether the balance is worth a rebalance, and whether LDK accepts a     *)
(* channel or a splice, can go any way.                                    *)
(***************************************************************************)
EXTENDS Naturals, Sequences, SequencesExt

CONSTANTS
    Callers,     \* tasks that ask for a rebalance
    Payers,      \* tasks that pay on-chain by splicing out
    Receipts,    \* incoming on-chain payments, numbered by amount
    Channels,    \* funding transactions of channels (bound on their number)
    Splices,     \* funding transactions of splices (bound on their number)
    MaxTime,     \* bound: the clock, in seconds
    MaxFaults,   \* bound: failures to handle an LDK event, and restarts
    None

Ldk   == "ldk"
Tasks == Callers \cup Payers
Fundings == Channels \cup Splices

ASSUME OnchainAssumption ==
    /\ Receipts \subseteq Nat /\ Receipts \cap Fundings = {} /\ Channels \cap Splices = {}
    /\ Callers \cap Payers = {} /\ Ldk \notin Tasks
    /\ MaxTime \in Nat \ {0} /\ MaxFaults \in Nat
    /\ None \notin Receipts \cup Fundings \cup Callers

VARIABLES
    enabled,   \* RebalanceEnabledCache
    now,       \* the clock that stamps payments and syncs
    synced,    \* NodeStatus::latest_onchain_wallet_sync_timestamp, 0 if none
    conf,      \* a receipt's latest_update_timestamp, 0 before it confirmed
    scanned,   \* OrangeTrigger::onchain_sync_time
    told,      \* receipts announced by OnchainPaymentReceived in this process
    mem, disk, \* TxMetadataStore, in memory and in the KV store
    pend,      \* per thread, the metadata writes it is waiting for
    outs,      \* the splice-out records in the KV store
    lock,      \* GraduatedRebalancer::balance_mutex
    call,      \* per task, where it is and what it has found out
    chans,     \* LDK's channels with the LSP, named by their first funding
    role,      \* what a funding transaction is for
    nego,      \* the splice LDK is negotiating
    ldkq,      \* LDK's events, until they are acknowledged
    hpc,       \* where the LDK event handler is
    inbox,     \* SplicePendingInbox::pending
    notified,  \* tasks whose Notified future is complete
    flag,      \* the watch channel_pending_receipt_flag
    late,      \* history: LDK was asked to open a channel while disabled
    excused,   \* history: receipts stamped in the second of an earlier sync,
               \* or before the process started
    spoiled,   \* history: triggers whose two records were torn apart
    mixed,     \* history: an outpoint was delivered to more or less than one
    errors, crashes

clock   == <<now, synced, conf>>
trigger == <<scanned, told, excused>>
meta    == <<mem, disk, pend>>
node    == <<chans, role, nego>>
handler == <<ldkq, hpc, errors>>
waits   == <<inbox, notified, flag, mixed>>

vars == <<enabled, clock, trigger, meta, outs, lock, call, node, handler, waits,
          late, spoiled, crashes>>

-----------------------------------------------------------------------------
\* The metadata of a transaction: TxType, with OnchainToLightning's trigger.
Meta == [ty : {"none", "payment", "trigger", "pending", "transfer"},
         trigger : Receipts \cup {None}]

Plain(ty)   == [ty |-> ty, trigger |-> None]
Transfer(r) == [ty |-> "transfer", trigger |-> r]
Ids         == Receipts \cup Fundings
Write       == [id : Ids, meta : Meta]

LdkEvent == [ev : {"pending", "ready", "closed", "negotiated", "failed"},
             ch : Channels, txo : Fundings]

Waiting == {"register", "check", "sleep"}
Working == Waiting \cup {"read", "list", "announce", "select", "start",
                         "channel", "sleepChannel", "record", "written"}

Call == [pc : {"idle", "panic", "upsert"} \cup Working,
         old : 0..MaxTime, new : 0..MaxTime, todo : SUBSET Receipts,
         trig : Receipts \cup {None}, ch : Channels \cup {None},
         own : Fundings \cup {None}, txo : Fundings \cup {None}]

Idle == [pc |-> "idle", old |-> 0, new |-> 0, todo |-> {},
         trig |-> None, ch |-> None, own |-> None, txo |-> None]

\* Every variable has its type, and balance_mutex is held by exactly the caller
\* between taking it and returning (do_onchain_rebalance_if_needed).
TypeOK ==
    /\ enabled \in BOOLEAN
    /\ now \in 1..MaxTime /\ synced \in 0..now /\ scanned \in 0..synced
    /\ conf \in [Receipts -> 0..now]
    /\ told \in [Receipts -> {"no", "yes", "early"}]
    /\ mem \in [Ids -> Meta] /\ disk \in [Ids -> Meta]
    /\ pend \in [Tasks \cup {Ldk} -> SUBSET Write]
    /\ outs \subseteq Fundings
    /\ lock \in Callers \cup {None}
    /\ call \in [Tasks -> Call]
    /\ chans \in [Channels -> {"none", "opening", "funded", "ready", "closed"}]
    /\ role \in [Fundings -> {"unused", "open", "jit", "in", "out"}]
    /\ nego \in {None} \cup [ch : Channels, txo : Fundings]
    /\ ldkq \in Seq(LdkEvent)
    /\ hpc \in {"idle", "reserve", "reserved", "delivered"}
    /\ inbox \in [Channels -> Seq(Fundings)]
    /\ notified \subseteq Tasks
    /\ flag \in Channels \cup {None}
    /\ late \in Nat
    /\ excused \subseteq Receipts /\ spoiled \subseteq Receipts
    /\ mixed \in BOOLEAN
    /\ errors \in Nat /\ crashes \in Nat /\ errors + crashes <= MaxFaults
    /\ \A c \in Callers : lock = c <=> call[c].pc \in Working

\* The wallet starts with the channel the LSP once opened, or with none.
Init ==
    /\ enabled = TRUE
    /\ now = 1 /\ synced = 0 /\ conf = [r \in Receipts |-> 0]
    /\ scanned = 0 /\ told = [r \in Receipts |-> "no"] /\ excused = {}
    /\ mem = [i \in Ids |-> Plain("none")] /\ disk = mem
    /\ pend = [t \in Tasks \cup {Ldk} |-> {}] /\ outs = {}
    /\ lock = None /\ call = [t \in Tasks |-> Idle]
    /\ role \in {[f \in Fundings |-> IF f = g THEN "jit" ELSE "unused"] :
                    g \in Channels \cup {None}}
    /\ chans = [f \in Channels |-> IF role[f] = "jit" THEN "ready" ELSE "none"]
    /\ nego = None /\ ldkq = <<>> /\ hpc = "idle"
    /\ inbox = [f \in Channels |-> <<>>] /\ notified = {} /\ flag = None
    /\ late = 0 /\ spoiled = {} /\ mixed = FALSE
    /\ errors = 0 /\ crashes = 0

-----------------------------------------------------------------------------
(***************************************************************************)
(* The metadata store: memory first, then the KV writes are awaited.       *)
(***************************************************************************)
Landed(t) == pend[t] = {}

\* Sets the entries m[i], i \in DOMAIN m, under one lock of the map.  A write that
\* fails makes the task panic with memory ahead of the disk; the store is taken
\* to work here.
DoSet(t, m) ==
    /\ mem' = [i \in Ids |-> IF i \in DOMAIN m THEN m[i] ELSE mem[i]]
    /\ pend' = [pend EXCEPT ![t] = {[id |-> i, meta |-> m[i]] : i \in DOMAIN m}]
    /\ UNCHANGED disk

Flush(t) ==
    /\ \E w \in pend[t] :
          /\ disk' = [disk EXCEPT ![w.id] = w.meta]
          /\ pend' = [pend EXCEPT ![t] = pend[t] \ {w}]
    /\ UNCHANGED <<enabled, clock, trigger, mem, outs, lock, call, node, handler,
                   waits, late, spoiled, crashes>>

Goto(t, l) == call' = [call EXCEPT ![t].pc = l]

\* The guard of balance_mutex goes out of scope.
Unlock(c) ==
    /\ lock' = None
    /\ call' = [call EXCEPT ![c] = Idle]

-----------------------------------------------------------------------------
(***************************************************************************)
(* The trigger.                                                            *)
(***************************************************************************)
LockBalance(c) ==
    /\ call[c].pc = "idle" /\ lock = None
    /\ lock' = c
    /\ Goto(c, "read")
    /\ UNCHANGED <<enabled, clock, trigger, meta, outs, node, handler, waits,
                   late, spoiled, crashes>>

\* Is rebalancing enabled, and has the chain been synced since the last scan?
ReadSync(c) ==
    /\ call[c].pc = "read"
    /\ IF enabled /\ synced # 0 /\ synced # scanned
       THEN /\ call' = [call EXCEPT ![c].pc = "list", ![c].old = scanned,
                                    ![c].new = synced]
            /\ UNCHANGED lock
       ELSE Unlock(c)
    /\ UNCHANGED <<enabled, clock, trigger, meta, outs, node, handler, waits,
                   late, spoiled, crashes>>

ListWith(c, new) ==
    /\ call[c].pc = "list"
    /\ call' = [call EXCEPT ![c].pc = "announce", ![c].todo = new]
    /\ scanned' = call[c].new
    /\ UNCHANGED <<enabled, clock, told, excused, meta, outs, lock, node,
                   handler, waits, late, spoiled, crashes>>

\* Mutant: the receipts are compared with the new sync time.
ListAfterNew(c) == ListWith(c, {r \in Receipts : conf[r] > call[c].new})

\* The receipts that confirmed since the last scan, which is now this one.
ListNew(c) == ListWith(c, {r \in Receipts : conf[r] > call[c].old})

Announce(c) ==
    /\ call[c].pc = "announce"
    /\ \/ \E r \in call[c].todo :
             /\ told' = [told EXCEPT ![r] =
                           IF conf[r] > call[c].new THEN "early" ELSE "yes"]
             /\ call' = [call EXCEPT ![c].todo = call[c].todo \ {r}]
       \/ /\ call[c].todo = {} /\ Goto(c, "select")
          /\ UNCHANGED told
    /\ UNCHANGED <<enabled, clock, scanned, excused, meta, outs, lock, node,
                   handler, waits, late, spoiled, crashes>>

\* New receipts whose metadata allows a promotion.
Candidates(c) ==
    {r \in Receipts : conf[r] > call[c].old /\ mem[r].ty \in {"none", "payment"}}

\* Nothing to move or nothing to blame; or the largest new receipt is blamed and
\* gets a metadata entry if it has none.
SelectTrigger(c) ==
    /\ call[c].pc = "select"
    /\ \/ Unlock(c) /\ UNCHANGED meta
       \/ \E r \in Candidates(c) :
             /\ \A q \in Candidates(c) : q <= r
             /\ call' = [call EXCEPT ![c] = [Idle EXCEPT !.pc = "start", !.trig = r]]
             /\ IF mem[r].ty = "none" THEN DoSet(c, [i \in {r} |-> Plain("payment")])
                ELSE UNCHANGED meta
             /\ UNCHANGED lock
    /\ UNCHANGED <<enabled, clock, trigger, outs, node, handler, waits, late,
                   spoiled, crashes>>

-----------------------------------------------------------------------------
(***************************************************************************)
(* The rebalance: splice into the LSP's channel, or open one.              *)
(***************************************************************************)
Live(f) == chans[f] \in {"opening", "funded", "ready"}

WaitsOn(t, ch) == call[t].pc \in Waiting /\ call[t].ch = ch

\* LDK accepts a splice of a usable channel while it negotiates no other.
BeginSplice(t, purpose) ==
    \E ch \in Channels, f \in Splices :
        /\ chans[ch] = "ready" /\ nego = None /\ role[f] = "unused"
        /\ nego' = [ch |-> ch, txo |-> f]
        /\ role' = [role EXCEPT ![f] = purpose]
        /\ call' = [call EXCEPT ![t].pc = "register", ![t].ch = ch, ![t].own = f]
        /\ mixed' = (mixed \/ \E u \in Tasks : WaitsOn(u, ch))

\* has_channel_with_lsp, then splice_to_lsp_channel.
SpliceIn(c) ==
    /\ call[c].pc = "start" /\ Landed(c)
    /\ \E f \in Channels : Live(f)
    /\ BeginSplice(c, "in")
    /\ UNCHANGED <<enabled, clock, trigger, meta, outs, lock, chans, handler,
                   inbox, notified, flag, late, spoiled, crashes>>

\* ... or open_channel_with_lsp.
OpenChannel(c) ==
    /\ call[c].pc = "start" /\ Landed(c)
    /\ \A f \in Channels : ~Live(f)
    /\ \E f \in Channels :
          /\ role[f] = "unused"
          /\ role' = [role EXCEPT ![f] = "open"]
          /\ chans' = [chans EXCEPT ![f] = "opening"]
          /\ call' = [call EXCEPT ![c].pc = "channel", ![c].ch = f, ![c].own = f]
    /\ late' = IF enabled THEN late ELSE late + 1
    /\ UNCHANGED <<enabled, clock, trigger, meta, outs, lock, nego, handler,
                   waits, spoiled, crashes>>

\* LDK refuses.
RebalanceFails(c) ==
    /\ call[c].pc = "start" /\ Landed(c)
    /\ Unlock(c)
    /\ late' = IF enabled \/ \E f \in Channels : Live(f) THEN late ELSE late + 1
    /\ UNCHANGED <<enabled, clock, trigger, meta, outs, node, handler, waits,
                   spoiled, crashes>>

\* await_channel_pending: look for the funding outpoint among the channels,
AwaitChannel(c) ==
    /\ call[c].pc = "channel"
    /\ IF chans[call[c].ch] \in {"funded", "ready"}
       THEN call' = [call EXCEPT ![c].pc = "record", ![c].txo = call[c].ch]
       ELSE Goto(c, "sleepChannel")
    /\ UNCHANGED <<enabled, clock, trigger, meta, outs, lock, node, handler,
                   waits, late, spoiled, crashes>>

\* ... or wait until the flag holds the channel's id.
ChannelWakes(c) ==
    /\ call[c].pc = "sleepChannel" /\ flag = call[c].ch
    /\ Goto(c, "channel")
    /\ UNCHANGED <<enabled, clock, trigger, meta, outs, lock, node, handler,
                   waits, late, spoiled, crashes>>

-----------------------------------------------------------------------------
(***************************************************************************)
(* SplicePendingInbox::wait_for: enable the Notified future, look, sleep.  *)
(***************************************************************************)
Register(t) ==
    /\ call[t].pc = "register"
    /\ notified' = notified \ {t}
    /\ Goto(t, "check")
    /\ UNCHANGED <<enabled, clock, trigger, meta, outs, lock, node, handler,
                   inbox, flag, mixed, late, spoiled, crashes>>

\* Mutant: the outpoint is read but stays in the queue, as in a watch.
PeekInbox(t) ==
    /\ call[t].pc = "check" /\ inbox[call[t].ch] # <<>>
    /\ call' = [call EXCEPT ![t].pc = "record", ![t].txo = Head(inbox[call[t].ch])]
    /\ UNCHANGED <<enabled, clock, trigger, meta, outs, lock, node, handler,
                   waits, late, spoiled, crashes>>

CheckInbox(t) ==
    /\ call[t].pc = "check"
    /\ LET q == inbox[call[t].ch] IN
       IF q = <<>> THEN Goto(t, "sleep") /\ UNCHANGED inbox
       ELSE /\ call' = [call EXCEPT ![t].pc = "record", ![t].txo = Head(q)]
            /\ inbox' = [inbox EXCEPT ![call[t].ch] = Tail(q)]
    /\ UNCHANGED <<enabled, clock, trigger, meta, outs, lock, node, handler,
                   notified, flag, mixed, late, spoiled, crashes>>

Notified(t) ==
    /\ call[t].pc = "sleep" /\ t \in notified
    /\ Goto(t, "register")
    /\ UNCHANGED <<enabled, clock, trigger, meta, outs, lock, node, handler,
                   waits, late, spoiled, crashes>>

\* notify_waiters completes the futures that are enabled, and only those.
Enabled == {t \in Tasks : call[t].pc \in {"check", "sleep"}}

-----------------------------------------------------------------------------
(***************************************************************************)
(* What is recorded about the transaction.                                 *)
(***************************************************************************)
\* The handler found no entry of f and has not finished writing its placeholder.
Reserving(f) == (hpc = "reserve" \/ ~Landed(Ldk)) /\ Head(ldkq).txo = f

\* Mutant: the trigger is promoted and written, its splice is not recorded.
PromoteOnly(c) ==
    /\ call[c].pc = "record"
    /\ DoSet(c, [i \in {call[c].trig} |-> Plain("trigger")])
    /\ Goto(c, "written")
    /\ UNCHANGED <<enabled, clock, trigger, outs, lock, node, handler, waits,
                   late, spoiled, crashes>>

\* OnChainRebalanceInitiated: set_tx_caused_rebalance_with_splice changes both
\* entries under one lock and then awaits two writes; a trigger that is not a
\* plain payment makes the handler panic.
RecordTransfer(c) ==
    /\ call[c].pc = "record"
    /\ LET r == call[c].trig  f == call[c].txo IN
       IF mem[r].ty = "payment"
       THEN /\ DoSet(c, [i \in {r, f} |-> IF i = r THEN Plain("trigger") ELSE Transfer(r)])
            /\ spoiled' = IF Reserving(f) THEN spoiled \cup {r} ELSE spoiled
            /\ Goto(c, "written")
            /\ UNCHANGED lock
       ELSE /\ lock' = None
            /\ call' = [call EXCEPT ![c] = [Idle EXCEPT !.pc = "panic"]]
            /\ UNCHANGED <<meta, spoiled>>
    /\ UNCHANGED <<enabled, clock, trigger, outs, node, handler, waits, late, crashes>>

RebalanceReturns(c) ==
    /\ call[c].pc = "written" /\ Landed(c)
    /\ Unlock(c)
    /\ UNCHANGED <<enabled, clock, trigger, meta, outs, node, handler, waits,
                   late, spoiled, crashes>>

\* A payment by splice_out, which waits in the same inbox.
SpliceOut(p) ==
    /\ call[p].pc = "idle"
    /\ BeginSplice(p, "out")
    /\ UNCHANGED <<enabled, clock, trigger, meta, outs, lock, chans, handler,
                   inbox, notified, flag, late, spoiled, crashes>>

WriteSpliceOut(p) ==
    /\ call[p].pc = "record"
    /\ outs' = outs \cup {call[p].txo}
    /\ Goto(p, "upsert")
    /\ UNCHANGED <<enabled, clock, trigger, meta, lock, node, handler, waits,
                   late, spoiled, crashes>>

UpsertPayment(p) ==
    /\ call[p].pc = "upsert"
    /\ DoSet(p, [i \in {call[p].txo} |-> Plain("payment")])
    /\ Goto(p, "written")
    /\ UNCHANGED <<enabled, clock, trigger, outs, lock, node, handler, waits,
                   late, spoiled, crashes>>

PayReturns(p) ==
    /\ call[p].pc = "written" /\ Landed(p)
    /\ call' = [call EXCEPT ![p] = Idle]
    /\ UNCHANGED <<enabled, clock, trigger, meta, outs, lock, node, handler, waits,
                   late, spoiled, crashes>>

-----------------------------------------------------------------------------
(***************************************************************************)
(* The LDK event handler takes the first event that is not acknowledged.   *)
(* An event it fails to queue, or to acknowledge, is delivered again.      *)
(***************************************************************************)
Event == Head(ldkq)
Is(ev) == ldkq # <<>> /\ Event.ev = ev

Fail == errors + crashes < MaxFaults /\ errors' = errors + 1 /\ UNCHANGED ldkq
Done == ldkq' = Tail(ldkq) /\ UNCHANGED errors

\* reserve_rebalance_slot_for_funding_tx looks for the entry,
ReserveSlot ==
    /\ hpc = "idle" /\ (Is("pending") \/ Is("negotiated"))
    /\ hpc' = IF mem[Event.txo].ty = "none" THEN "reserve" ELSE "reserved"
    /\ UNCHANGED <<enabled, clock, trigger, meta, outs, lock, call, node, ldkq,
                   errors, waits, late, spoiled, crashes>>

\* ... and writes a placeholder where there was none.
UpsertPending ==
    /\ hpc = "reserve"
    /\ DoSet(Ldk, [i \in {Event.txo} |-> Plain("pending")])
    /\ hpc' = "reserved"
    /\ UNCHANGED <<enabled, clock, trigger, outs, lock, call, node, ldkq, errors,
                   waits, late, spoiled, crashes>>

ChannelPending ==
    /\ hpc = "reserved" /\ Is("pending") /\ Landed(Ldk)
    /\ hpc' = "idle" /\ (Done \/ Fail)
    /\ UNCHANGED <<enabled, clock, trigger, meta, outs, lock, call, node, waits,
                   late, spoiled, crashes>>

\* Mutant: the outpoint is delivered and nobody is notified.
DeliverQuietly ==
    /\ hpc = "reserved" /\ Is("negotiated") /\ Landed(Ldk)
    /\ inbox' = [inbox EXCEPT ![Event.ch] = Append(@, Event.txo)]
    /\ hpc' = "delivered"
    /\ UNCHANGED <<enabled, clock, trigger, meta, outs, lock, call, node, ldkq,
                   errors, flag, notified, mixed, late, spoiled, crashes>>

\* deliver appends the outpoint and notifies,
SpliceNegotiated ==
    /\ hpc = "reserved" /\ Is("negotiated") /\ Landed(Ldk)
    /\ inbox' = [inbox EXCEPT ![Event.ch] = Append(@, Event.txo)]
    /\ notified' = notified \cup Enabled
    /\ hpc' = "delivered"
    /\ mixed' = (mixed \/ Event.txo \in ToSet(inbox[Event.ch]) \/
                 ~\E t \in Tasks : WaitsOn(t, Event.ch) /\ call[t].own = Event.txo)
    /\ UNCHANGED <<enabled, clock, trigger, meta, outs, lock, call, node, ldkq,
                   errors, flag, late, spoiled, crashes>>

\* ... then SplicePending is queued.
AddSplicePending ==
    /\ hpc = "delivered"
    /\ hpc' = "idle" /\ (Done \/ Fail)
    /\ UNCHANGED <<enabled, clock, trigger, meta, outs, lock, call, node, waits,
                   late, spoiled, crashes>>

\* The flag is set once ChannelOpened is queued.
ChannelReady ==
    /\ hpc = "idle" /\ Is("ready")
    /\ \/ Done /\ flag' = Event.ch
       \/ Fail /\ UNCHANGED flag
    /\ UNCHANGED <<enabled, clock, trigger, meta, outs, lock, call, node, hpc,
                   inbox, notified, mixed, late, spoiled, crashes>>

\* "we disable rebalancing so we don't automatically try to reopen the channel"
ChannelClosed ==
    /\ hpc = "idle" /\ Is("closed")
    /\ enabled' = FALSE
    /\ Done \/ Fail
    /\ UNCHANGED <<clock, trigger, meta, outs, lock, call, node, hpc, waits,
                   late, spoiled, crashes>>

\* The task that waits for the splice is not told.
SpliceNegotiationFailed ==
    /\ hpc = "idle" /\ Is("failed")
    /\ Done \/ Fail
    /\ UNCHANGED <<enabled, clock, trigger, meta, outs, lock, call, node, hpc,
                   waits, late, spoiled, crashes>>

-----------------------------------------------------------------------------
(***************************************************************************)
(* The LDK node (external): it stamps a receipt when a sync finds it and   *)
(* the sync when it ends, opens, splices and closes channels.              *)
(***************************************************************************)
Tick ==
    /\ now < MaxTime /\ now' = now + 1
    /\ UNCHANGED <<enabled, synced, conf, trigger, meta, outs, lock, call, node,
                   handler, waits, late, spoiled, crashes>>

Confirm(r) ==
    /\ conf[r] = 0
    /\ conf' = [conf EXCEPT ![r] = now]
    /\ excused' = IF synced = now THEN excused \cup {r} ELSE excused
    /\ UNCHANGED <<enabled, now, synced, scanned, told, meta, outs, lock, call,
                   node, handler, waits, late, spoiled, crashes>>

SyncEnds ==
    /\ synced # now /\ synced' = now
    /\ UNCHANGED <<enabled, now, conf, trigger, meta, outs, lock, call, node,
                   handler, waits, late, spoiled, crashes>>

Emit(ev, ch, txo) == ldkq' = Append(ldkq, [ev |-> ev, ch |-> ch, txo |-> txo])

ChannelStep(f, from, to, ev) ==
    /\ chans[f] \in from
    /\ chans' = [chans EXCEPT ![f] = to]
    /\ Emit(ev, f, f)

LdkChannel(f) ==
    /\ \/ /\ ChannelStep(f, {"opening"}, "funded", "pending")
          /\ UNCHANGED <<role, nego>>
       \/ /\ ChannelStep(f, {"funded"}, "ready", "ready")
          /\ UNCHANGED <<role, nego>>
       \/ /\ ChannelStep(f, {"opening", "funded", "ready"}, "closed", "closed")
          /\ nego' = IF nego # None /\ nego.ch = f THEN None ELSE nego
          /\ UNCHANGED role
       \/ /\ role[f] = "unused"                      \* the LSP opens one
          /\ role' = [role EXCEPT ![f] = "jit"]
          /\ ChannelStep(f, {"none"}, "funded", "pending")
          /\ UNCHANGED nego
    /\ UNCHANGED <<enabled, clock, trigger, meta, outs, lock, call, hpc, errors,
                   waits, late, spoiled, crashes>>

LdkSplice ==
    /\ nego # None /\ nego' = None
    /\ \E ev \in {"negotiated", "failed"} : Emit(ev, nego.ch, nego.txo)
    /\ UNCHANGED <<enabled, clock, trigger, meta, outs, lock, call, chans, role,
                   hpc, errors, waits, late, spoiled, crashes>>

-----------------------------------------------------------------------------
\* set_rebalance_enabled, and close_channels before it asks LDK to close them.
SetRebalanceEnabled(b) ==
    /\ b # enabled /\ enabled' = b
    /\ late' = IF b THEN 0 ELSE late
    /\ UNCHANGED <<clock, trigger, meta, outs, lock, call, node, handler, waits,
                   spoiled, crashes>>

\* The process dies and starts again: OrangeTrigger::new takes the last sync as
\* its starting point, LDK redelivers what was not acknowledged and has dropped
\* what was being negotiated.
Restart ==
    /\ errors + crashes < MaxFaults /\ crashes' = crashes + 1
    /\ mem' = disk /\ pend' = [t \in Tasks \cup {Ldk} |-> {}]
    /\ scanned' = synced /\ told' = [r \in Receipts |-> "no"]
    /\ excused' = excused \cup {r \in Receipts : conf[r] \in 1..synced}
    /\ spoiled' = spoiled \cup {call[c].trig : c \in {d \in Callers :
                                   call[d].pc = "written" /\ ~Landed(d)}}
    /\ lock' = None /\ call' = [t \in Tasks |-> Idle]
    /\ chans' = [f \in Channels |-> IF chans[f] = "opening" THEN "closed" ELSE chans[f]]
    /\ nego' = None /\ hpc' = "idle"
    /\ inbox' = [f \in Channels |-> <<>>] /\ notified' = {} /\ flag' = None
    /\ UNCHANGED <<enabled, clock, disk, outs, role, ldkq, errors, late, mixed>>

Wait(t) == Register(t) \/ CheckInbox(t) \/ Notified(t)

Rebalance(c) ==
    \/ ReadSync(c) \/ ListNew(c) \/ Announce(c) \/ SelectTrigger(c)
    \/ SpliceIn(c) \/ OpenChannel(c) \/ RebalanceFails(c)
    \/ AwaitChannel(c) \/ ChannelWakes(c) \/ RecordTransfer(c)
    \/ RebalanceReturns(c) \/ Wait(c)

Pay(p) == Wait(p) \/ WriteSpliceOut(p) \/ UpsertPayment(p) \/ PayReturns(p)

HandleEvent ==
    \/ ReserveSlot \/ UpsertPending \/ ChannelPending \/ SpliceNegotiated
    \/ AddSplicePending \/ ChannelReady \/ ChannelClosed \/ SpliceNegotiationFailed

Node == Tick \/ SyncEnds \/ LdkSplice \/ (\E r \in Receipts : Confirm(r))
        \/ (\E f \in Channels : LdkChannel(f))

Next ==
    \/ \E c \in Callers : LockBalance(c) \/ Rebalance(c)
    \/ \E p \in Payers : SpliceOut(p) \/ Pay(p)
    \/ \E t \in Tasks \cup {Ldk} : Flush(t)
    \/ HandleEvent
    \/ Node
    \/ \E b \in BOOLEAN : SetRebalanceEnabled(b)
    \/ Restart

Spec == Init /\ [][Next]_vars

-----------------------------------------------------------------------------
\* "When a channel is closed, we will disable automatic rebalancing so new
\* channels will not be opened until it is explicitly enabled again": once the
\* handler has dealt with the close and rebalancing is disabled, no step asks LDK
\* for a channel.
NoLateOpen ==
    [][ ~enabled /\ ldkq = <<>> /\ (\E f \in Channels : chans[f] = "closed") =>
          \A f \in Channels : chans'[f] = "opening" => chans[f] = "opening" ]_vars

\* What is true instead: at most the one call that had read the flag before it
\* was cleared still asks for a channel.
AtMostOneLateOpen == late <= 1

\* The trigger misses no receipt (needs_onchain_rebalance): one that is not
\* newer than the last scan was announced, or is about to be, unless it was
\* stamped in the second of an earlier sync or before the process started.
NoReceiptSkipped ==
    \A r \in Receipts :
        conf[r] \in 1..scanned /\ r \notin excused =>
            told[r] # "no" \/ \E c \in Callers : r \in call[c].todo

\* "each consumer takes its own event": the records say what the transactions
\* are, as long as no outpoint was delivered while another task waited for the
\* channel's next one, or with nobody waiting for it.
RecordsMatchTransactions ==
    ~mixed => /\ \A f \in outs : role[f] = "out"
              /\ \A f \in Fundings : mem[f].ty = "transfer" => role[f] \in {"open", "in"}
              /\ \A f \in Fundings : mem[f].ty = "payment" => role[f] = "out"

\* A promoted trigger has one transfer and a transfer's trigger is promoted, so
\* list_transactions finds both (set_tx_caused_rebalance_with_splice), unless a
\* crash fell between the two writes or the handler was reserving the entry.
TransferHasBothEnds ==
    ~mixed => \A r \in Receipts \ spoiled :
        LET of == {f \in Fundings : mem[f] = Transfer(r)}
        IN  IF mem[r].ty = "trigger" THEN \E f \in of : of = {f} ELSE of = {}

\* No wake-up is lost: a task that sleeps without a notification to come has an
\* empty inbox (SplicePendingInbox::deliver, wait_for).
NoLostWakeup ==
    \A t \in Tasks :
        call[t].pc = "sleep" /\ t \notin notified => inbox[call[t].ch] = <<>>
=============================================================================
