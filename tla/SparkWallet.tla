----------------------------- MODULE SparkWallet -----------------------------
(***************************************************************************)
(* The Spark wallet from start to stop: `Spark::init` with the migration of*)
(* old deposit payments, the payments the SDK's tasks report to            *)
(* `SparkStore::apply_payment_update`, and `SparkEventHandler`, which turns*)
(* what the SDK then emits into events for the application.                *)
(*                                                                         *)
(* Payments are numbered in the order of the Spark service's history, which*)
(* the SDK re-reads from the cached `sync_offset`.  A write may fail, with *)
(* or without having landed; the process may die at any point.             *)
(***************************************************************************)
EXTENDS SparkTasks, Sequences, SequencesExt, FiniteSetsExt

CONSTANTS
    N,          \* payments of the service's history
    Times,      \* what their times may be, per payment, in seconds
    Kinds       \* what they may be: per payment "send", "rebalance", "receive"
                \* (all lightning) or "deposit"

Payments == 1..N

Statuses == {"Pending", "Completed", "Failed"}
IsFinal(s) == s # "Pending"

\* A stored payment: its status, and its details: complete, erased, or those of
\* a deposit stored by an old version, which do not parse.
Payment == [status : Statuses, details : {"full", "null", "legacy"}]

ASSUME SparkWalletAssumption ==
    /\ N \in Nat /\ MaxFaults \in Nat /\ None \notin Tasks \cup Payment \cup Nat
    /\ Times \subseteq [Payments -> Nat]
    /\ Kinds \subseteq [Payments -> {"send", "rebalance", "receive", "deposit"}]

VARIABLES
    kind,      \* what each payment is
    stored,    \* "payment": the payments in the KV store
    offset,    \* "cache"/"sync_offset", None if there is none
    migrated,  \* "cache"/"deposit_vout_migrated"
    phase,     \* "down", "migrate", or "run" once the SDK is built
    mig,       \* the migration's keys to do, and whether it reset the offset
    listener,  \* the SDK has the wallet's event listener
    lock,      \* payment_update_lock
    emitted,   \* history: per payment, the final statuses the SDK emitted
    shown,     \* per payment, the events added to the event queue
    lost       \* history: payments whose emission a failure, a crash or a
               \* missing listener swallowed

disk  == <<stored, offset, migrated>>
setup == <<phase, mig, listener>>
told  == <<emitted, shown, lost>>
vars  == <<kind, disk, setup, lock, call, told, faults>>

-----------------------------------------------------------------------------
NoMigration == [todo |-> {}, reset |-> FALSE]

\* Any store an earlier run left behind: old versions know no flag, and final
\* payments were announced when they became final.
Init ==
    /\ kind \in Kinds
    /\ stored \in [Payments -> Payment \cup {None}]
    /\ \A p \in Payments : stored[p] # None =>
          /\ stored[p].details # "null"
          /\ stored[p].details = "legacy" => kind[p] = "deposit"
          /\ stored[p].status = "Failed" => kind[p] \in {"send", "rebalance"}
    /\ offset \in {None} \cup 0..N
    /\ migrated \in BOOLEAN
    /\ ~(migrated /\ \E p \in Payments : stored[p] # None /\ stored[p].details = "legacy")
    /\ phase = "down" /\ mig = NoMigration /\ listener = FALSE
    /\ lock = None
    /\ call = [t \in Tasks |-> Idle]
    /\ emitted = [p \in Payments |-> IF stored[p] # None /\ IsFinal(stored[p].status)
                                     THEN <<stored[p].status>> ELSE <<>>]
    /\ shown = [p \in Payments |-> <<>>]
    /\ lost = {p \in Payments : emitted[p] # <<>>}
    /\ faults = 0

-----------------------------------------------------------------------------
\* Spark::init.  migrate_deposit_details returns at once if it has been done,
\* and lists the payment keys otherwise ...
Start ==
    /\ phase = "down"
    /\ phase' = IF migrated THEN "run" ELSE "migrate"
    /\ mig' = IF migrated THEN NoMigration
              ELSE [todo |-> {p \in Payments : stored[p] # None}, reset |-> FALSE]
    /\ UNCHANGED <<kind, disk, listener, lock, call, told, faults>>

Legacy(p) == stored[p].details = "legacy"

\* ... a payment that is no old deposit is left alone ...
SkipPayment(p) ==
    /\ phase = "migrate" /\ p \in mig.todo /\ ~Legacy(p)
    /\ mig' = [mig EXCEPT !.todo = @ \ {p}]
    /\ UNCHANGED <<kind, disk, phase, listener, lock, call, told, faults>>

\* ... before the first old one the sync offset is set to 0, if there is one ...
ResetOffset(p) ==
    /\ phase = "migrate" /\ p \in mig.todo /\ Legacy(p) /\ ~mig.reset
    /\ \E o \in Outcomes :
          /\ offset = None => o = "ok"
          /\ offset' = Landed(o, IF offset = None THEN None ELSE 0, offset)
          /\ mig' = [mig EXCEPT !.reset = TRUE]
          /\ phase' = IF o = "ok" THEN "migrate" ELSE "down"
          /\ Fault(o)
    /\ UNCHANGED <<kind, stored, migrated, listener, lock, call, told>>

\* Mutant: the reset is left for later.
EraseFirst(p) ==
    /\ phase = "migrate" /\ p \in mig.todo /\ Legacy(p)
    /\ \E o \in Outcomes :
          /\ stored' = Landed(o, [stored EXCEPT ![p].details = "null"], stored)
          /\ phase' = IF o = "ok" THEN "migrate" ELSE "down"
          /\ Fault(o)
    /\ mig' = [mig EXCEPT !.todo = @ \ {p}]
    /\ UNCHANGED <<kind, offset, migrated, listener, lock, call, told>>

\* ... and its details are erased, to be recovered by the SDK's sync.
EraseDetails(p) ==
    /\ phase = "migrate" /\ p \in mig.todo /\ Legacy(p) /\ mig.reset
    /\ \E o \in Outcomes :
          /\ stored' = Landed(o, [stored EXCEPT ![p].details = "null"], stored)
          /\ phase' = IF o = "ok" THEN "migrate" ELSE "down"
          /\ Fault(o)
    /\ mig' = [mig EXCEPT !.todo = @ \ {p}]
    /\ UNCHANGED <<kind, offset, migrated, listener, lock, call, told>>

\* At the end the flag is written, and the SDK is built and runs.
FinishMigration ==
    /\ phase = "migrate" /\ mig.todo = {}
    /\ \E o \in Outcomes :
          /\ migrated' = Landed(o, TRUE, migrated)
          /\ phase' = IF o = "ok" THEN "run" ELSE "down"
          /\ Fault(o)
    /\ mig' = NoMigration
    /\ UNCHANGED <<kind, stored, offset, listener, lock, call, told>>

\* add_event_listener, after the SDK has started; stop() makes the background
\* task of init remove it.
AddListener ==
    /\ phase = "run" /\ ~listener
    /\ listener' = TRUE
    /\ UNCHANGED <<kind, disk, phase, mig, lock, call, told, faults>>

RemoveListener ==
    /\ phase = "run" /\ listener /\ faults < MaxFaults
    /\ listener' = FALSE /\ faults' = faults + 1
    /\ UNCHANGED <<kind, disk, phase, mig, lock, call, told>>

-----------------------------------------------------------------------------
\* External: an SDK task hears of a payment.  A payment that is sent may be
\* reported to have failed and to have completed; stale reports come late.
Report(t, p) ==
    /\ phase = "run" /\ call[t].pc = "idle"
    /\ \E s \in Statuses :
          /\ s = "Failed" => kind[p] \in {"send", "rebalance"}
          /\ Goto(t, [pc |-> "update", p |-> p, status |-> s, sync |-> FALSE])
    /\ UNCHANGED <<kind, disk, setup, lock, told, faults>>

\* External: the SDK's sync re-reads the payment after the offset.  It is not
\* behind what was stored.
SyncNext(t) ==
    LET p == 1 + IF offset = None THEN 0 ELSE offset IN
    /\ phase = "run" /\ call[t].pc = "idle" /\ p \in Payments
    /\ ~\E u \in Tasks : call[u].pc # "idle" /\ call[u].sync
    /\ \E s \in Statuses :
          /\ s = "Failed" => kind[p] \in {"send", "rebalance"}
          /\ (IF stored[p] # None THEN stored[p].status ELSE "Pending") \in {"Pending", s}
          /\ Goto(t, [pc |-> "update", p |-> p, status |-> s, sync |-> TRUE])
    /\ UNCHANGED <<kind, disk, setup, lock, told, faults>>

Returned(c) == IF c.sync THEN [pc |-> "synced", p |-> c.p, sync |-> TRUE] ELSE Idle

\* Mutant: only a payment that was not stored is news.
IsFirstReport(p, s) == IsFinal(s) /\ stored[p] = None

\* The status is new; a payment that is pending is emitted too, but the handler
\* only logs it.
IsNews(p, s) == IsFinal(s) /\ (IF stored[p] = None THEN "none" ELSE stored[p].status) # s

\* Mutant: payment_update_lock is not taken.
ReadUnlocked(t) ==
    LET c == call[t] IN
    /\ c.pc = "update"
    /\ IF stored[c.p] # None /\ IsFinal(stored[c.p].status) /\ stored[c.p].status # c.status
       THEN Goto(t, Returned(c))
       ELSE Goto(t, [pc |-> "write", p |-> c.p, status |-> c.status, sync |-> c.sync,
                     emit |-> IsNews(c.p, c.status)])
    /\ UNCHANGED <<kind, disk, setup, lock, told, faults>>

\* apply_payment_update, under payment_update_lock: a final status that is
\* stored stays; otherwise the payment is going to be written, and emitted if
\* its status is new ...
ReadStatus(t) ==
    LET c == call[t] IN
    /\ c.pc = "update" /\ lock = None
    /\ IF stored[c.p] # None /\ IsFinal(stored[c.p].status) /\ stored[c.p].status # c.status
       THEN Goto(t, Returned(c)) /\ UNCHANGED lock
       ELSE /\ Goto(t, [pc |-> "write", p |-> c.p, status |-> c.status, sync |-> c.sync,
                        emit |-> IsNews(c.p, c.status)])
            /\ lock' = t
    /\ UNCHANGED <<kind, disk, setup, told, faults>>

\* ... and the lock is released when it was.
WritePayment(t) ==
    LET c == call[t] IN
    /\ c.pc = "write"
    /\ \E o \in Outcomes :
          /\ stored' = Landed(o, [stored EXCEPT ![c.p] = [status |-> c.status, details |-> "full"]],
                              stored)
          /\ Goto(t, IF o # "ok" THEN Idle
                     ELSE IF c.emit THEN [c EXCEPT !.pc = "emit"]
                     ELSE Returned(c))
          /\ lost' = IF o = "late" /\ c.emit THEN lost \cup {c.p} ELSE lost
          /\ Fault(o)
    /\ lock' = None
    /\ UNCHANGED <<kind, offset, migrated, setup, emitted, shown>>

\* handle_payment_succeeded and handle_payment_failed: what the application is
\* told of a lightning payment, which is nothing for a rebalance.  The code knows
\* a rebalance by its record in the metadata store when the event comes; here
\* the record is always there by then, so the event that the application would
\* see of a rebalance reported before its record is left out.
EventOf(p, s) ==
    CASE kind[p] = "send" /\ s = "Completed"    -> <<"PaymentSuccessful">>
      [] kind[p] = "send" /\ s = "Failed"       -> <<"PaymentFailed">>
      [] kind[p] = "receive" /\ s = "Completed" -> <<"PaymentReceived">>
      [] OTHER                                  -> <<>>

\* on_event: the SDK emits a payment whose status is new, and the handler adds
\* its event to the queue, or logs that it could not.
Emit(t) ==
    LET c == call[t] IN
    /\ c.pc = "emit"
    /\ emitted' = [emitted EXCEPT ![c.p] = Append(@, c.status)]
    /\ \E o \in Outcomes \ {"late"} :
          /\ EventOf(c.p, c.status) = <<>> => o = "ok"
          /\ shown' = IF listener /\ o = "ok"
                      THEN [shown EXCEPT ![c.p] = @ \o EventOf(c.p, c.status)] ELSE shown
          /\ lost' = IF listener /\ o = "ok" THEN lost ELSE lost \cup {c.p}
          /\ Fault(o)
    /\ Goto(t, Returned(c))
    /\ UNCHANGED <<kind, disk, setup, lock>>

\* External: the sync moves the cached offset past a payment it has applied.
MoveOffset(t) ==
    /\ call[t].pc = "synced"
    /\ \E o \in Outcomes : offset' = Landed(o, call[t].p, offset) /\ Fault(o)
    /\ Goto(t, Idle)
    /\ UNCHANGED <<kind, stored, migrated, setup, lock, told>>

-----------------------------------------------------------------------------
Crash ==
    /\ phase # "down" /\ faults < MaxFaults /\ faults' = faults + 1
    /\ phase' = "down" /\ listener' = FALSE /\ lock' = None
    /\ mig' = NoMigration
    /\ call' = [t \in Tasks |-> Idle]
    /\ lost' = lost \cup {p \in Payments : \E t \in Tasks :
                             call[t].pc = "emit" /\ call[t].p = p}
    /\ UNCHANGED <<kind, disk, emitted, shown>>

Work(t) == ReadStatus(t) \/ WritePayment(t) \/ Emit(t) \/ MoveOffset(t)

Next ==
    \/ Start \/ FinishMigration \/ AddListener \/ RemoveListener \/ Crash
    \/ \E p \in Payments : SkipPayment(p) \/ ResetOffset(p) \/ EraseDetails(p)
    \/ \E t \in Tasks : SyncNext(t) \/ Work(t) \/ \E p \in Payments : Report(t, p)

Spec == Init /\ [][Next]_vars

\* The runtime keeps polling a task that is ready.
FairSpec == Spec /\ \A t \in Tasks : WF_vars(Emit(t))

-----------------------------------------------------------------------------
\* What one call of list_payments sorts by: the direction, the payments' times in
\* seconds, and the place of each key in the answer of KVStore::list, which may
\* be another one at every call.
Orders == [ascending : BOOLEAN, time : Times, place : Injection(Payments, Payments)]

\* sort_by_key is stable: payments of the same second stay as they were listed.
Before(o, p, q) ==
    \/ o.time[p] = o.time[q] /\ o.place[p] < o.place[q]
    \/ IF o.ascending THEN o.time[p] < o.time[q] ELSE o.time[p] > o.time[q]

\* The payments of L in that order: the k-th has k - 1 before it.
Sorted(L, o) ==
    [k \in 1..Cardinality(L) |->
       CHOOSE p \in L : Cardinality({q \in L : Before(o, q, p)}) = k - 1]

\* Mutant: a page is one payment too long.
LongPage(L, o, from, limit) ==
    SubSeq(Sorted(L, o), from + 1, Min({from + limit + 1, Cardinality(L)}))

\* The sorted payments from the offset `from` on, at most `limit`.
Page(L, o, from, limit) ==
    SubSeq(Sorted(L, o), from + 1, Min({from + limit, Cardinality(L)}))

Listed == {p \in Payments : stored[p] # None}

\* list_payments reads every payment, and fails if one does not parse.
AllParse == ~\E p \in Listed : Legacy(p)

\* Every variable has its type, and payment_update_lock is held by exactly the
\* task between its read and its write.
TypeOK ==
    /\ stored \in [Payments -> Payment \cup {None}]
    /\ offset \in {None} \cup 0..N
    /\ phase \in {"down", "migrate", "run"}
    /\ \A t \in Tasks : lock = t <=> call[t].pc = "write"
    /\ phase # "run" => \A t \in Tasks : call[t].pc = "idle"
    /\ faults \in 0..MaxFaults

\* A deposit whose details were erased lies after the cached sync offset: the
\* SDK's sync is still going to recover them, however often the migration was
\* interrupted (migrate_deposit_details: "Reset before changing any records so
\* an interrupted migration still resyncs").
ErasedIsResynced ==
    \A p \in Payments : stored[p] # None /\ stored[p].details = "null" =>
        offset = None \/ offset < p

\* No other payment of L has the second of p, or all pages are cut from one order.
Fixed(L, orders, p) ==
    \/ \A q \in L \ {p}, i \in DOMAIN orders : orders[i].time[q] # orders[i].time[p]
    \/ \A i, j \in DOMAIN orders : orders[i] = orders[j]

\* The places of the pages at which p is listed.
PlacesOf(p, pages) ==
    {at \in (1..N) \X (1..N) : at[2] \in DOMAIN pages[at[1]] /\ pages[at[1]][at[2]] = p}

\* Successive pages list a set of payments well: no page is longer than asked
\* for, each is sorted, and a payment has one place in all of them.
WellPaged(L) ==
    \A limit \in 1..N, ascending \in BOOLEAN, time \in Times,
       place \in [1..N -> Injection(Payments, Payments)] :
        LET orders == [i \in 1..N |->
                         [ascending |-> ascending, time |-> time, place |-> place[i]]]
            pages == [i \in 1..N |-> Page(L, orders[i], (i - 1) * limit, limit)]
        IN  /\ \A i \in 1..N :
                  /\ Len(pages[i]) <= limit
                  /\ \A k, l \in DOMAIN pages[i] :
                        k < l => Before(orders[i], pages[i][k], pages[i][l])
            /\ \A p \in L : Fixed(L, orders, p) =>
                  \E at \in PlacesOf(p, pages) : PlacesOf(p, pages) = {at}

AllWellPaged == \A L \in SUBSET Payments : WellPaged(L)

\* Once the SDK runs, list_payments can read every payment, and whichever there
\* are, it lists each at one place of successive pages.  Exception: payments of
\* the same second, if KVStore::list returns its keys in another order for
\* another page; then one may be listed twice and another one not at all.
ListedInPages ==
    phase = "run" => AllWellPaged /\ AllParse

\* The SDK emits at most one final status of a payment, over all runs of the
\* wallet and all of its tasks, and it is the one that stays stored; so the
\* application is told at most once how a payment ended (apply_payment_update).
OneFinalEvent ==
    \A p \in Payments :
        /\ Len(emitted[p]) <= 1 /\ Len(shown[p]) <= 1
        /\ emitted[p] # <<>> => stored[p].status = emitted[p][1]

\* A lightning payment stored with a final status is announced to the
\* application, unless a failure, a crash or a missing listener came between
\* storing and announcing it (Ok(true) of apply_payment_update is not repeated).
FinalIsAnnounced ==
    \A p \in Payments :
        (stored[p] # None /\ EventOf(p, stored[p].status) # <<>>) ~> (shown[p] # <<>> \/ p \in lost)
=============================================================================
