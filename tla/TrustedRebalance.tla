--------------------------- MODULE TrustedRebalance ---------------------------
(***************************************************************************)
(* Moving funds from the trusted wallet to lightning: the trusted half of  *)
(* `GraduatedRebalancer`, the trigger that picks the receipt to blame      *)
(* (`OrangeTrigger::needs_trusted_rebalance`) and the handler that records *)
(* the transfer (`OrangeRebalanceEventHandler`).  Any number of tasks call *)
(* do_trusted_rebalance_if_needed; balance_mutex lets one of them work.    *)
(* Amounts and balances are left out: whether a transfer is worthwhile, and*)
(* whether an invoice, a fee estimate or a payment fails, can go any way.  *)
(***************************************************************************)
EXTENDS Naturals

CONSTANTS
    Callers,     \* tasks that ask for a rebalance
    Receipts,    \* payments the trusted wallet receives, numbered by amount
    Times,       \* settlement times the backend can report
    Transfers,   \* payments the rebalancer makes (bound on their number)
    MaxCrashes,  \* bound: how often the process dies and restarts
    None

ASSUME RebalanceAssumption ==
    /\ Receipts \subseteq Nat /\ Times \subseteq Nat \ {0}
    /\ Receipts \cap Transfers = {}
    /\ MaxCrashes \in Nat
    /\ None \notin Receipts /\ None \notin Transfers /\ None \notin Callers

VARIABLES
    enabled,     \* RebalanceEnabledCache
    settled,     \* when a receipt settled, 0 before it has
    mem,         \* TxMetadataStore::tx_metadata
    disk,        \* the same entries in the KV store
    pend,        \* per caller, the metadata write it is waiting for
    lock,        \* GraduatedRebalancer::balance_mutex
    call,        \* per caller, where it is and what it has found out
    out,         \* the trusted payment of a transfer
    ln,          \* the lightning payment of a transfer
    noticed,     \* transfers whose LDK PaymentReceived has been handled
    reported,    \* transfers whose trusted result has been handled
    shown,       \* events about transfers the application was given
    spawned,     \* transfers whose RebalanceSuccessful is still to be pushed
    missed,      \* history: a notification came between a test and its wait
    crashes

vars == <<enabled, settled, mem, disk, pend, lock, call, out, ln, noticed,
          reported, shown, spawned, missed, crashes>>

-----------------------------------------------------------------------------
\* PaymentId, and the metadata kept under it.
Trusted(x)       == <<"trusted", x>>
SelfCustodial(x) == <<"lightning", x>>

Ids == {Trusted(x) : x \in Receipts \cup Transfers}
       \cup {SelfCustodial(s) : s \in Transfers}

Meta == [ty : {"none", "payment", "trigger", "pending", "transfer"},
         trigger : Receipts \cup {None}]

Plain(ty)   == [ty |-> ty, trigger |-> None]
Transfer(r) == [ty |-> "transfer", trigger |-> r]

IsRebalance(m) == m.ty \in {"pending", "transfer"}

Write   == [id : Ids \cup {None}, meta : Meta]
NoWrite == [id |-> None, meta |-> Plain("none")]

\* Application events about a transfer: Told's "payment" is a PaymentSuccessful
\* or PaymentFailed for a payment the application did not make.
Told == {"payment", "initiated", "successful"} \X Transfers

Working == {"check", "scan", "pay", "initiate", "announce", "awaitLn", "armLn",
            "sleepLn", "awaitOut", "armOut", "sleepOut", "promote", "upsert",
            "credit", "finish"}

Call == [pc : {"idle", "panic"} \cup Working, scan : SUBSET Receipts,
         fresh : SUBSET Receipts, known : SUBSET Receipts,
         victim : Receipts \cup {None}, send : Transfers \cup {None}]

Idle == [pc |-> "idle", scan |-> {}, fresh |-> {}, known |-> {},
         victim |-> None, send |-> None]

\* Every variable has its type, and balance_mutex is held by exactly the caller
\* between taking it and returning (do_trusted_rebalance_if_needed).
TypeOK ==
    /\ enabled \in BOOLEAN
    /\ settled \in [Receipts -> Times \cup {0}]
    /\ mem \in [Ids -> Meta] /\ disk \in [Ids -> Meta]
    /\ pend \in [Callers -> Write]
    /\ lock \in Callers \cup {None}
    /\ call \in [Callers -> Call]
    /\ out \in [Transfers -> {"unsent", "sent", "paid", "failed"}]
    /\ ln \in [Transfers -> {"none", "received", "failed"}]
    /\ noticed \subseteq Transfers /\ reported \subseteq Transfers
    /\ shown \subseteq Told /\ spawned \subseteq Transfers
    /\ missed \in BOOLEAN
    /\ crashes \in 0..MaxCrashes
    /\ \A c \in Callers : lock = c <=> call[c].pc \in Working

Init ==
    /\ enabled = TRUE
    /\ settled = [r \in Receipts |-> 0]
    /\ mem = [i \in Ids |-> Plain("none")] /\ disk = mem
    /\ pend = [c \in Callers |-> NoWrite]
    /\ lock = None
    /\ call = [c \in Callers |-> Idle]
    /\ out = [s \in Transfers |-> "unsent"] /\ ln = [s \in Transfers |-> "none"]
    /\ noticed = {} /\ reported = {} /\ shown = {} /\ spawned = {} /\ missed = FALSE
    /\ crashes = 0

-----------------------------------------------------------------------------
(***************************************************************************)
(* The metadata store: memory first, then the KV write is awaited.         *)
(***************************************************************************)
Landed(c) == pend[c] = NoWrite

\* A write that fails makes the task panic with memory ahead of the disk; the
\* store is taken to work here.
DoSet(c, i, m) ==
    /\ mem' = [mem EXCEPT ![i] = m]
    /\ pend' = [pend EXCEPT ![c] = [id |-> i, meta |-> m]]

Flush(c) ==
    /\ ~Landed(c)
    /\ disk' = [disk EXCEPT ![pend[c].id] = pend[c].meta]
    /\ pend' = [pend EXCEPT ![c] = NoWrite]
    /\ UNCHANGED <<enabled, settled, mem, lock, call, out, ln, noticed,
                   reported, shown, spawned, missed, crashes>>

Goto(c, l) == call' = [call EXCEPT ![c].pc = l]

\* The guard of balance_mutex goes out of scope.
Unlock(c) ==
    /\ lock' = None
    /\ call' = [call EXCEPT ![c] = Idle]

-----------------------------------------------------------------------------
(***************************************************************************)
(* The trigger.                                                            *)
(***************************************************************************)
LockBalance(c) ==
    /\ call[c].pc = "idle" /\ lock = None
    /\ lock' = c
    /\ Goto(c, "check")
    /\ UNCHANGED <<enabled, settled, mem, disk, pend, out, ln, noticed,
                   reported, shown, spawned, missed, crashes>>

\* Rebalancing is enabled and list_payments returned the settled receipts.
ListPayments(c) ==
    /\ call[c].pc = "check"
    /\ \/ /\ enabled
          /\ call' = [call EXCEPT ![c] =
                [Idle EXCEPT !.pc = "scan",
                             !.scan = {r \in Receipts : settled[r] # 0}]]
          /\ UNCHANGED lock
       \/ Unlock(c)
    /\ UNCHANGED <<enabled, settled, mem, disk, pend, out, ln, noticed,
                   reported, shown, spawned, missed, crashes>>

\* One round of the loop: a receipt without metadata is new and gets an entry,
\* one that is still a plain payment is a candidate for "the latest".
ScanReceipt(c, r) ==
    /\ call[c].pc = "scan" /\ Landed(c) /\ r \in call[c].scan
    /\ IF mem[Trusted(r)].ty = "none"
       THEN /\ call' = [call EXCEPT ![c].scan = @ \ {r}, ![c].fresh = @ \cup {r}]
            /\ DoSet(c, Trusted(r), Plain("payment"))
       ELSE /\ call' = [call EXCEPT ![c].scan = @ \ {r},
                          ![c].known = IF mem[Trusted(r)].ty = "payment"
                                       THEN @ \cup {r} ELSE @]
            /\ UNCHANGED <<mem, pend>>
    /\ UNCHANGED <<enabled, settled, disk, lock, out, ln, noticed, reported,
                   shown, spawned, missed, crashes>>

\* Mutant: any receipt that has an entry may be blamed.
AnyVictim(k) == {r \in Receipts : mem[Trusted(r)].ty # "none"}

\* The smallest new receipt, or else the latest one that is still a payment.
Victims(k) ==
    IF k.fresh # {} THEN {r \in k.fresh : \A x \in k.fresh : r <= x}
    ELSE {r \in k.known : \A x \in k.known : settled[x] <= settled[r]}

\* The balances ask for a transfer, or the call ends here.
SelectVictim(c) ==
    /\ call[c].pc = "scan" /\ Landed(c) /\ call[c].scan = {}
    /\ \/ \E r \in Victims(call[c]) :
            /\ call' = [call EXCEPT ![c].pc = "pay", ![c].victim = r]
            /\ UNCHANGED lock
       \/ Unlock(c)
    /\ UNCHANGED <<enabled, settled, mem, disk, pend, out, ln, noticed,
                   reported, shown, spawned, missed, crashes>>

-----------------------------------------------------------------------------
(***************************************************************************)
(* The transfer.                                                           *)
(***************************************************************************)
\* Invoice, fee estimate and trusted.pay, any of which can fail.
PayTrusted(c) ==
    /\ call[c].pc = "pay"
    /\ \/ \E s \in Transfers :
            /\ out[s] = "unsent"
            /\ out' = [out EXCEPT ![s] = "sent"]
            /\ call' = [call EXCEPT ![c].pc = "initiate", ![c].send = s]
            /\ UNCHANGED lock
       \/ Unlock(c) /\ UNCHANGED out
    /\ UNCHANGED <<enabled, settled, mem, disk, pend, ln, noticed, reported,
                   shown, spawned, missed, crashes>>

\* RebalanceInitiated: the payment is marked as an internal one ...
RebalanceInitiated(c) ==
    /\ call[c].pc = "initiate"
    /\ DoSet(c, Trusted(call[c].send), Plain("pending"))
    /\ Goto(c, "announce")
    /\ UNCHANGED <<enabled, settled, disk, lock, out, ln, noticed, reported,
                   shown, spawned, missed, crashes>>

\* ... and the application is told, whether or not the queue can be persisted.
AddInitiated(c) ==
    /\ call[c].pc = "announce" /\ Landed(c)
    /\ shown' = shown \cup {<<"initiated", call[c].send>>}
    /\ Goto(c, "awaitLn")
    /\ UNCHANGED <<enabled, settled, mem, disk, pend, lock, out, ln, noticed,
                   reported, spawned, missed, crashes>>

\* await_payment_receipt looks the payment up ...
AwaitReceipt(c) ==
    /\ call[c].pc = "awaitLn"
    /\ \/ ln[call[c].send] = "received" /\ Goto(c, "awaitOut") /\ UNCHANGED lock
       \/ ln[call[c].send] = "none" /\ Goto(c, "armLn") /\ UNCHANGED lock
       \/ ln[call[c].send] = "failed" /\ Unlock(c)
    /\ UNCHANGED <<enabled, settled, mem, disk, pend, out, ln, noticed,
                   reported, shown, spawned, missed, crashes>>

\* ... await_payment_success the same, but an error of the backend ends it ...
AwaitSuccess(c) ==
    /\ call[c].pc = "awaitOut"
    /\ \/ out[call[c].send] = "paid" /\ Goto(c, "promote") /\ UNCHANGED lock
       \/ out[call[c].send] # "paid" /\ Goto(c, "armOut") /\ UNCHANGED lock
       \/ Unlock(c)
    /\ UNCHANGED <<enabled, settled, mem, disk, pend, out, ln, noticed,
                   reported, shown, spawned, missed, crashes>>

\* ... and both then wait for the next notification, forgetting earlier ones.
MarkUnchanged(c) ==
    /\ call[c].pc \in {"armLn", "armOut"}
    /\ Goto(c, IF call[c].pc = "armLn" THEN "sleepLn" ELSE "sleepOut")
    /\ UNCHANGED <<enabled, settled, mem, disk, pend, lock, out, ln, noticed,
                   reported, shown, spawned, missed, crashes>>

\* Mutant: the receipt is rewritten as the plain payment it was.
PromoteNothing(c) ==
    /\ call[c].pc = "promote"
    /\ DoSet(c, Trusted(call[c].victim), Plain("payment"))
    /\ Goto(c, "upsert")
    /\ UNCHANGED <<enabled, settled, disk, lock, out, ln, noticed, reported,
                   shown, spawned, missed, crashes>>

\* RebalanceSuccessful: set_tx_caused_rebalance, whose error is not expected,
SetTxCausedRebalance(c) ==
    /\ call[c].pc = "promote"
    /\ IF mem[Trusted(call[c].victim)].ty = "payment"
       THEN /\ DoSet(c, Trusted(call[c].victim), Plain("trigger"))
            /\ Goto(c, "upsert")
            /\ UNCHANGED lock
       ELSE /\ lock' = None
            /\ Goto(c, "panic")
            /\ UNCHANGED <<mem, pend>>
    /\ UNCHANGED <<enabled, settled, disk, out, ln, noticed, reported, shown,
                   spawned, missed, crashes>>

\* then the trusted payment becomes a transfer blamed on the trigger,
UpsertTransfer(c) ==
    /\ call[c].pc = "upsert" /\ Landed(c)
    /\ DoSet(c, Trusted(call[c].send), Transfer(call[c].victim))
    /\ Goto(c, "credit")
    /\ UNCHANGED <<enabled, settled, disk, lock, out, ln, noticed, reported,
                   shown, spawned, missed, crashes>>

\* and so does the lightning payment.
InsertCredit(c) ==
    /\ call[c].pc = "credit" /\ Landed(c)
    /\ DoSet(c, SelfCustodial(call[c].send), Transfer(call[c].victim))
    /\ Goto(c, "finish")
    /\ UNCHANGED <<enabled, settled, disk, lock, out, ln, noticed, reported,
                   shown, spawned, missed, crashes>>

\* Mutant: the last record is still being written.
FinishEarly(c) ==
    /\ call[c].pc = "finish"
    /\ spawned' = spawned \cup {call[c].send}
    /\ Unlock(c)
    /\ pend' = [pend EXCEPT ![c] = NoWrite]
    /\ UNCHANGED <<enabled, settled, mem, disk, out, ln, noticed, reported,
                   shown, missed, crashes>>

\* The call returns; a task of its own tells the application.
Finish(c) ==
    /\ call[c].pc = "finish" /\ Landed(c)
    /\ spawned' = spawned \cup {call[c].send}
    /\ Unlock(c)
    /\ UNCHANGED <<enabled, settled, mem, disk, pend, out, ln, noticed,
                   reported, shown, missed, crashes>>

AddSuccessful(s) ==
    /\ s \in spawned
    /\ spawned' = spawned \ {s}
    /\ shown' = shown \cup {<<"successful", s>>}
    /\ UNCHANGED <<enabled, settled, mem, disk, pend, lock, call, out, ln,
                   noticed, reported, missed, crashes>>

-----------------------------------------------------------------------------
(***************************************************************************)
(* The wallets, and the tasks that report what they do.                    *)
(***************************************************************************)
Settle(r) ==
    /\ settled[r] = 0
    /\ \E t \in Times : settled' = [settled EXCEPT ![r] = t]
    /\ UNCHANGED <<enabled, mem, disk, pend, lock, call, out, ln, noticed,
                   reported, shown, spawned, missed, crashes>>

\* set_rebalance_enabled, and handle_ldk_node_event on ChannelClosed.
SetEnabled(b) ==
    /\ enabled # b /\ enabled' = b
    /\ UNCHANGED <<settled, mem, disk, pend, lock, call, out, ln, noticed,
                   reported, shown, spawned, missed, crashes>>

\* The lightning wallet receives the payment, which lets the trusted one be
\* paid; or it never arrives.
ReceiveLightning(s) ==
    /\ out[s] = "sent" /\ ln[s] = "none"
    /\ ln' = [ln EXCEPT ![s] = "received"]
    /\ UNCHANGED <<enabled, settled, mem, disk, pend, lock, call, out, noticed,
                   reported, shown, spawned, missed, crashes>>

ResolveTrusted(s) ==
    /\ out[s] = "sent"
    /\ \/ /\ ln[s] = "received"
          /\ out' = [out EXCEPT ![s] = "paid"]
          /\ UNCHANGED ln
       \/ /\ ln[s] = "none"
          /\ out' = [out EXCEPT ![s] = "failed"]
          /\ ln' \in {ln, [ln EXCEPT ![s] = "failed"]}
    /\ UNCHANGED <<enabled, settled, mem, disk, pend, lock, call, noticed,
                   reported, shown, spawned, missed, crashes>>

\* Mutant: nobody is woken.
WakeNobody(asleep, awake) == UNCHANGED call

\* Callers waiting at `asleep` look again.
Wake(asleep, awake) ==
    call' = [c \in Callers |-> IF call[c].pc = asleep
                               THEN [call[c] EXCEPT !.pc = awake] ELSE call[c]]

\* handle_ldk_node_event on PaymentReceived.
PaymentReceived(s) ==
    /\ ln[s] = "received" /\ s \notin noticed
    /\ noticed' = noticed \cup {s}
    /\ Wake("sleepLn", "awaitLn")
    /\ missed' = (missed \/ \E c \in Callers : call[c].pc = "armLn")
    /\ UNCHANGED <<enabled, settled, mem, disk, pend, lock, out, ln, reported,
                   shown, spawned, crashes>>

\* spawn_melt, or Spark's listener: an event for the application unless the
\* payment is known to be internal; a success is also announced.
TrustedReported(s) ==
    /\ out[s] \in {"paid", "failed"} /\ s \notin reported
    /\ reported' = reported \cup {s}
    /\ shown' = IF IsRebalance(mem[Trusted(s)]) THEN shown
                ELSE shown \cup {<<"payment", s>>}
    /\ IF out[s] = "paid"
       THEN /\ Wake("sleepOut", "awaitOut")
            /\ missed' = (missed \/ \E c \in Callers : call[c].pc = "armOut")
       ELSE UNCHANGED <<call, missed>>
    /\ UNCHANGED <<enabled, settled, mem, disk, pend, lock, out, ln, noticed,
                   spawned, crashes>>

\* Both notifications are shared: another payment's wakes the waiting caller.
OtherPayment ==
    /\ \/ Wake("sleepLn", "awaitLn") \/ Wake("sleepOut", "awaitOut")
    /\ UNCHANGED <<enabled, settled, mem, disk, pend, lock, out, ln, noticed,
                   reported, shown, spawned, missed, crashes>>

\* The process dies and restarts: the calls are gone, the metadata is read
\* back, and the backends go on with the payments they have.
Restart ==
    /\ crashes < MaxCrashes /\ crashes' = crashes + 1
    /\ mem' = disk
    /\ pend' = [c \in Callers |-> NoWrite]
    /\ lock' = None
    /\ call' = [c \in Callers |-> Idle]
    /\ spawned' = {}
    /\ UNCHANGED <<enabled, settled, disk, out, ln, noticed, reported, shown,
                   missed>>

\* What a caller does by itself once it holds the mutex.
Progress(c) ==
    \/ Flush(c) \/ ListPayments(c) \/ SelectVictim(c) \/ PayTrusted(c)
    \/ RebalanceInitiated(c) \/ AddInitiated(c) \/ AwaitReceipt(c)
    \/ AwaitSuccess(c) \/ MarkUnchanged(c) \/ SetTxCausedRebalance(c)
    \/ UpsertTransfer(c) \/ InsertCredit(c) \/ Finish(c)
    \/ \E r \in Receipts : ScanReceipt(c, r)

Network(s) ==
    ReceiveLightning(s) \/ ResolveTrusted(s) \/ PaymentReceived(s) \/ TrustedReported(s)

Next ==
    \/ \E c \in Callers : LockBalance(c) \/ Progress(c)
    \/ \E s \in Transfers : Network(s) \/ AddSuccessful(s)
    \/ \E r \in Receipts : Settle(r)
    \/ \E b \in BOOLEAN : SetEnabled(b)
    \/ OtherPayment
    \/ Restart

Spec == Init /\ [][Next]_vars

\* A task that can run is polled, and the backends answer.
Fairness ==
    /\ \A c \in Callers : WF_vars(Progress(c))
    /\ \A s \in Transfers : WF_vars(Network(s)) /\ WF_vars(AddSuccessful(s))

FairSpec == Spec /\ Fairness

-----------------------------------------------------------------------------
\* What list_transactions makes of a transfer: m is one, blamed on r.
TransferOf(m, r) == m.ty = "transfer" /\ m.trigger = r

\* "Failed to write metadata for rebalance transaction" is never reached: the
\* receipt a caller picked is still a plain payment when its transfer has
\* settled, possibly long after (set_tx_caused_rebalance).
PromotionSucceeds == \A c \in Callers : call[c].pc # "panic"

\* What list_transactions asserts of the entries it merges: a transfer's
\* trigger is a promoted receipt, no two transfers have the same trigger, and
\* the lightning half belongs to the same trigger as the trusted half.
TransfersWellFormed ==
    \A s \in Transfers :
        /\ mem[Trusted(s)].ty = "transfer" =>
             /\ mem[Trusted(s)].trigger \in Receipts
             /\ mem[Trusted(mem[Trusted(s)].trigger)].ty = "trigger"
             /\ \A u \in Transfers :
                  TransferOf(mem[Trusted(u)], mem[Trusted(s)].trigger) => u = s
        /\ mem[SelfCustodial(s)].ty = "transfer" =>
             mem[Trusted(s)] = mem[SelfCustodial(s)]

\* The records of a transfer reach the disk in the order promotion, trusted
\* half, lightning half, so that a crash never leaves a half without what it
\* refers to (handle_event on RebalanceSuccessful).
WrittenInOrder ==
    \A s \in Transfers :
        /\ disk[Trusted(s)].ty = "transfer" =>
             /\ disk[Trusted(s)].trigger \in Receipts
             /\ disk[Trusted(disk[Trusted(s)].trigger)].ty = "trigger"
        /\ disk[SelfCustodial(s)].ty = "transfer" =>
             disk[Trusted(s)] = disk[SelfCustodial(s)]

\* A receipt recorded as the trigger of a transfer stays one, and a recorded
\* transfer keeps its trigger (needs_trusted_rebalance re-reads all receipts).
RecordsKept ==
    [][ \A i \in Ids : disk[i].ty \in {"trigger", "transfer"} =>
          disk'[i] = disk[i] ]_vars

\* Who is told RebalanceSuccessful was told RebalanceInitiated before, and both
\* halves of the transfer are on disk by then: no crash can take back a success
\* that was announced (handle_event on RebalanceSuccessful).
AnnouncedIsRecorded ==
    \A s \in Transfers : <<"successful", s>> \in shown =>
        /\ <<"initiated", s>> \in shown
        /\ disk[SelfCustodial(s)].ty = "transfer"
        /\ disk[Trusted(s)] = disk[SelfCustodial(s)]

\* A caller whose transfer was paid leaves the mutex again, unless a
\* notification came just before it started to wait for one.
TransferEnds ==
    \A c \in Callers, s \in Transfers :
        (call[c].send = s /\ out[s] = "paid") ~> (call[c].send # s \/ missed)

-----------------------------------------------------------------------------
(***************************************************************************)
(* The inductive invariant behind the properties above, in named parts.    *)
(***************************************************************************)
Selected  == {"pay", "initiate", "announce", "awaitLn", "armLn", "sleepLn",
              "awaitOut", "armOut", "sleepOut", "promote"}
Initiated == {"announce", "awaitLn", "armLn", "sleepLn", "awaitOut", "armOut",
              "sleepOut", "promote", "upsert"}
Recording == {"upsert", "credit", "finish"}
Writing   == {"scan", "announce", "upsert", "credit", "finish"}

\* The receipts a caller can blame, and the one it has, are plain payments.
VictimState(c) ==
    /\ call[c].pc = "scan" =>
         \A r \in call[c].fresh \cup call[c].known : mem[Trusted(r)].ty = "payment"
    /\ call[c].pc \in Selected =>
         call[c].victim \in Receipts /\ mem[Trusted(call[c].victim)].ty = "payment"

\* The payment a caller has made is marked as internal from initiate on, and
\* its lightning half is recorded last.
SendState(c) ==
    /\ call[c].pc \in {"initiate"} \cup Initiated \cup Recording =>
         call[c].send \in Transfers /\ out[call[c].send] # "unsent"
    /\ call[c].pc = "initiate" => mem[Trusted(call[c].send)].ty = "none"
    /\ call[c].pc \in Initiated => mem[Trusted(call[c].send)].ty = "pending"
    /\ call[c].pc \in {"initiate", "credit"} \cup Initiated =>
         mem[SelfCustodial(call[c].send)].ty = "none"

\* While a settled transfer is recorded, each write is on disk before the next.
RecordState(c) ==
    /\ call[c].pc \in Recording =>
         /\ call[c].victim \in Receipts
         /\ mem[Trusted(call[c].victim)].ty = "trigger"
    /\ call[c].pc = "upsert" =>
         /\ \A u \in Transfers : ~TransferOf(mem[Trusted(u)], call[c].victim)
         /\ Landed(c) => disk[Trusted(call[c].victim)].ty = "trigger"
    /\ call[c].pc \in {"credit", "finish"} =>
         /\ disk[Trusted(call[c].victim)].ty = "trigger"
         /\ mem[Trusted(call[c].send)] = Transfer(call[c].victim)
    /\ call[c].pc = "credit" /\ Landed(c) =>
         disk[Trusted(call[c].send)] = Transfer(call[c].victim)
    /\ call[c].pc = "finish" =>
         /\ disk[Trusted(call[c].send)] = Transfer(call[c].victim)
         /\ mem[SelfCustodial(call[c].send)] = Transfer(call[c].victim)

\* A write under way writes what memory holds, and each place has its own.
WriteState(c) ==
    /\ call[c].pc \notin Writing => Landed(c)
    /\ ~Landed(c) =>
         /\ pend[c].id \in Ids /\ pend[c].meta = mem[pend[c].id]
         /\ call[c].pc = "scan" => \E r \in Receipts : pend[c].id = Trusted(r)
         /\ call[c].pc = "announce" => pend[c].id = Trusted(call[c].send)
         /\ call[c].pc = "upsert" => pend[c].id = Trusted(call[c].victim)
         /\ call[c].pc = "credit" => pend[c].id = Trusted(call[c].send)
         /\ call[c].pc = "finish" => pend[c].id = SelfCustodial(call[c].send)

\* A transfer that was not made has no entries.
UnsentIsUnknown ==
    \A s \in Transfers : out[s] = "unsent" =>
        /\ mem[Trusted(s)].ty = "none" /\ disk[Trusted(s)].ty = "none"
        /\ mem[SelfCustodial(s)].ty = "none" /\ disk[SelfCustodial(s)].ty = "none"

\* What the disk records for good, memory knows.
MemoryIsAhead ==
    \A i \in Ids : disk[i].ty \in {"trigger", "transfer"} => mem[i] = disk[i]

\* The conjunction is inductive: every step of the callers, the wallets and a
\* restart preserves it.
RebalanceInv ==
    /\ TypeOK /\ PromotionSucceeds
    /\ \A c \in Callers :
         VictimState(c) /\ SendState(c) /\ RecordState(c) /\ WriteState(c)
    /\ UnsentIsUnknown /\ MemoryIsAhead
    /\ TransfersWellFormed /\ WrittenInOrder

\* With RebalanceInv, this is inductive: what a caller and the task it spawns
\* have told the application, and have still to tell it.
AnnounceInv ==
    /\ \A c \in Callers :
         /\ call[c].pc \in (Initiated \cup Recording) \ {"announce"} =>
              <<"initiated", call[c].send>> \in shown
         /\ call[c].pc = "finish" /\ Landed(c) =>
              disk[SelfCustodial(call[c].send)].ty = "transfer"
    /\ \A s \in spawned :
         <<"initiated", s>> \in shown /\ disk[SelfCustodial(s)].ty = "transfer"
    /\ AnnouncedIsRecorded
=============================================================================
