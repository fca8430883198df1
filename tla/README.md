# Verification of orange-sdk

TLA+ models of the parts of orange-sdk in which tasks, callbacks, the network
and crashes meet, the TLC runs that check them on small instances, and TLAPS
proofs of the main results for every value of the constants. Source paths below
are relative to `src/orange-sdk/src/` unless they start with `src/`.

## The system

A `Wallet` (`lib.rs`) keeps funds in three places: a *trusted* wallet (Cashu
mint or Spark operators), a *lightning* wallet (LDK node with channels to an
LSP) and the on-chain wallet of the LDK node. It pays from whichever can pay,
and moves funds towards lightning in the background.

| Component | State | Operations | Hard part |
|---|---|---|---|
| Split payments (`lib.rs`, `event.rs`, `store.rs`) | metadata of two legs, buffer of early events, `mpp_record_lock` | `try_mpp_bolt11`, `add_event`, `record_mpp_leg`, `finish_mpp_setup` | legs finish before, during and after registration; redelivery; crashes |
| Event queue (`event.rs`) | queue, waker, KV value | `push_event`, `next_event`, `next_event_async`, `event_handled` | locks taken with `try_lock`, failing writes, restart |
| Metadata store (`store.rs`) | map in memory, one KV entry each | `insert`, `upsert`, `set_preimage`, `set_tx_caused_rebalance` | memory changes before the KV write is awaited |
| Rebalancer (`src/graduated-rebalancer`, `rebalancer.rs`) | `balance_mutex`, enabled flag, sync time | trusted and on-chain rebalance, event handler | minutes between choosing a receipt and promoting it; several writes; lost wake-ups |
| Cashu proof store (`trusted_wallet/cashu/cashu_store.rs`) | one blob of proofs, cache, reload flag, old reservation index | update, state, reserve, release, read | a write that errors or is cancelled may have landed |
| Cashu records (same file) | quotes, sagas, counters, transactions, mints and keysets | compare-and-set, reservations, migration, change of a mint's URL | crash in the migration, stale versions, a call of many writes that fails halfway |
| Spark store (`trusted_wallet/spark/spark_store.rs`) | payments, metadata, deposits, swaps, sync records, cached items | one read-modify-write per call, three locks, migration of deposits | several SDK tasks; a sync with a server that other devices use too |
| Cashu and Spark wallets (`trusted_wallet/*/mod.rs`) | melt tasks, listeners, success flag | `pay`, `pay_partial`, `await_payment_success` | results race with the caller's bookkeeping |
| Lightning wallet (`lightning_wallet.rs`) | watch flags, splice inbox | `await_payment_receipt`, splice, open, close | a notification between look-up and wait |
| Payment routing, listing, receive URIs (`lib.rs`) | none of their own | `pay`, `list_transactions`, `get_single_use_receive_uri` | fall-through with a leg in flight; an invoice paid again; merging of entries |
| Runtime (`runtime.rs`), bounded reads (`dyn_store.rs`) | task sets; reads in flight | spawn, stop; `read_keys_bounded` | tasks spawned during shutdown; bound and order |

Interaction: the wallet's tasks call into the metadata store and the event
queue; the LDK event loop calls `handle_ldk_node_event`, which adds events and
sets the watch flags the rebalancer waits on; the trusted wallets' tasks report
results through the same queue, after asking the metadata store whether a
payment is internal. `PROJECT.json` lists every component, also those that are
not modelled, and the hazards with their lines.

What makes each modelled part correct:

- *split payment*: one combined event per payment that says what the network
  did, decided once and durable before it is seen;
- *queue*: the application sees every event once and in order, disk and memory
  agree, nothing that LDK is told to forget is gone, a waiting consumer is woken;
- *proof store*: concurrent calls with failing writes behave like one atomic
  ledger, reservations are exclusive;
- *trusted rebalance*: one receipt is blamed for one transfer, its promotion
  cannot fail, what is on disk never refers to something that is not, an
  announced success is recorded, the mutex is released;
- *on-chain rebalance*: every receipt is announced once, no channel is opened
  after rebalancing was disabled, an outpoint reaches the task that started its
  splice, and the trigger and the splice are recorded together;
- *pay and the list*: a call pays its amount once or not at all, and the
  application sees the payment once, under the returned id and with its true status;
- *Spark store and wallet*: no accepted change, refund or payment detail is lost
  to another task, a crash or an old version's data; the sync does not go back;
  the end of a payment is announced once;
- *Cashu records*: a quote belongs to one operation, versions and counters move
  once per step, transactions and keysets survive migrations and moves;
- *shutdown*: the critical tasks that stop found have completed when it returns,
  and it returns.

## Modules

| Module | Models | State and actions |
|---|---|---|
| `MppPayment` | one payment split by `try_mpp_bolt11` | `mem`/`disk`/`pend` are the metadata entries in memory, in the KV store and in a KV write being awaited; `payer` is the control state of `try_mpp_bolt11`; `add` the calls of `add_event` of the payer (replay), the melt task and the LDK handler; `lock` is `mpp_record_lock`. Actions are the code between two awaits: `BeginMppSetup`, `PayPartial`, `PayLightning`, `RegisterSurface`, `RegisterLightning`, `FinishMppSetup`, `ReplayEvent`, `RouteEvent`, `BufferEvent`, `RecordMppLeg`, `RecordReturn`, `PushEvent`, the network's `ResolveLeg`, and `CrashRestart`. |
| `EventQueue` | `EventQueue` and `EventFuture::poll` | queue, disk, the two mutexes and their holders, per-thread `pc`; producers are the LDK handler (redelivers until acknowledged) and a task that forgets; the consumer polls or awaits, and confirms once or again after an error. `add_event` is `push_event` or, for a leg's event that is recorded or buffered, `KeepLeg`, which queues nothing and returns Ok. `seen`, `pushed`, `kept` and `durable` are history. |
| `ProofOps` | the pure part of the proof calls | what an update, a state change, a reservation and a release make of a set of proofs. |
| `ProofLedger` | abstract specification | the same calls as atomic steps on one set of proofs; reads return it. |
| `ProofStore` | `CashuKvDatabase`'s proof calls | cache, disk, reload flag, mutation lock, per-task `pc`; `Abort` is an error return or a dropped future at any await, `Land` the effect of a KV write whether or not it is reported. |
| `TrustedRebalance` | trusted half of `GraduatedRebalancer`, `OrangeTrigger::needs_trusted_rebalance`, `OrangeRebalanceEventHandler` | `lock` is `balance_mutex`, `call` what each calling task has found out, `mem`/`disk`/`pend` the metadata, `out`/`ln` the two payments of a transfer, `shown`/`spawned` the events given to the application and the spawned task that has still to give one; `missed` remembers that a notification fell between a look-up and its wait. |
| `OnchainRebalance` | on-chain half of `GraduatedRebalancer`, `needs_onchain_rebalance`, the handler of LDK's channel and splice events, `SplicePendingInbox`, payments by splice-out | `call`, `lock`, `mem`/`disk`/`pend` as above; `synced`/`conf`/`scanned`/`told` are the time of LDK's last sync, the stamps of receipts, `onchain_sync_time` and what was announced; `chans`/`role`/`nego`/`ldkq` belong to LDK; `hpc` is the place in `handle_ldk_node_event`; `inbox`/`notified`/`flag` are the inbox's queues, its completed `Notified` futures and the watch flag. `ReadSync` to `SelectTrigger` are the trigger, `SpliceIn`, `OpenChannel`, `AwaitChannel`, `Register`, `CheckInbox`, `Notified` the transfer, `RecordTransfer` its record; one action per LDK event. `late`, `excused`, `spoiled` and `mixed` are history: opens asked for while disabled, receipts the time comparison cannot see, triggers whose records were torn apart, and an outpoint that reached more or less than its waiter. |
| `ListTransactions` | `list_transactions` as a pure definition | from the two wallets' payments, the splice-outs and the metadata to the set of listed transactions. |
| `WalletPay` | `pay`, with `try_mpp_bolt11` and both wallets' `pay`; the choice in `get_single_use_receive_uri` | `call` is where each call is: `at` is its place in the five passes over the `methods` (`Passes`), from which it goes to the `NextTry`; `funds` the balances; `quotes`/`melts` Cashu's melt quotes and the attempts to pay them (or Spark's payments); `sent`, `splices` the lightning wallet's; `mem` the metadata. One action per try and per record; the mint, LDK, the receiver and a dropped future are actions too. Extends `ListTransactions`, of which `Transactions` is the value in the current state. A splice out is one of `sent` until `SpliceNegotiated` reserves a record for its funding transaction, which LDK lists like any other payment, and `WriteSpliceOut` adds it to `splices`. `reinserted` is history: ids that `insert` found a record for. |
| `SparkTasks` | the SDK's tasks and the KV store under them | `call`, where each task is; `faults`; what a write can come to (`Outcomes`, `Landed`): it lands, it fails, it lands and reports a failure. |
| `SparkStore` | the namespaces of `SparkStore` that several tasks write | per namespace its contents, the outgoing changes and incoming records as maps from their keys; `revisionLock` and `depositLock`, per task its call; `sync` is the SDK's real-time sync, `server` the server; `owed` and `applied` are history. A behaviour exercises the namespaces `work`; they share no keys. |
| `SparkWallet` | `Spark::init`, `migrate_deposit_details`, `apply_payment_update`, `list_payments`, the event handler | `stored`/`offset`/`migrated` on disk, `phase` and `mig` the start, `listener`, `lock` (`payment_update_lock`), `call`; `emitted` and `lost` are history. `Orders` is what one call of `list_payments` sorts by: the direction, the times in seconds, and the order in which `KVStore::list` returned the keys, which can differ from call to call; `Page` cuts from the list sorted by them (`Sorted`). |
| `CashuRecords` | `CashuKvDatabase` beside its proofs, `read_keys_bounded` | one record of each kind on disk, the two locks, per task the call and the snapshot it works on, `boot` the migration of transaction ids. A behaviour exercises the namespace `work`. A mint call is the sequence of its reads and writes, cut at any of them; the steps of two calls interleave, since they take no lock. |
| `Shutdown` | `Runtime` and `Wallet::stop` | `sets` are the two `JoinSet`s, `joining` the one that stop took out, `task`/`aborted` the tasks, `mutex` is `balance_mutex`, `stop` the place in `Wallet::stop`. |
| `MC*` | TLC instances | model values, request sets, symmetry. `MCEvents` and `MCSpark` put components that share no state side by side. |
| `*Proofs` | theorems | see below. |

Data is abstracted to what the properties distinguish. An event of a split
payment is named by its leg; a preimage is the one of a leg or zeros; a proof is
its state, owner and whether its derivation index is known; amounts of a
rebalance are left out, so that every decision that depends on a balance, a fee
estimate or an error can go either way. Receipts are numbered by amount because
the trigger picks the smallest new one. In `WalletPay` every request asks for the
same amount of two units, so that a wallet can hold nothing, a part, the whole
or more, and fees are left out: an estimate that is too high is a try that comes
to nothing. In the record stores a record is named by what must not be confused
or forgotten: its id, version, owner, the marks of the updates it contains.
Keys of `SparkStore` are sequences of characters because `UnderOwnKey` is about
how they are put together; of the decimal lengths in them only is used that they
consist of digits and tell the number (`DecimalAssumption`), and the hash of a long
key stands for the key.

Two things to know when reading `ProofStore`: a KV write that was cancelled or
reported an error either has landed or never lands once the proofs are read
back (the store's contract does not say so; listed as a hazard), and
`update_proofs_state` writes only if the state of a proof it names changes, while
`update_proofs` compares vectors and may therefore write a set that is unchanged but
for its order.

The real-time sync of the Spark SDK is off in the shipped configuration
(`real_time_sync_server_url: None`, `trusted_wallet/spark/mod.rs:82`). What
`SparkStore` says of its namespaces is therefore about the storage interface that
the code implements for it, not about something a wallet of today does.

## Runs

| Run | Instance | Shows |
|---|---|---|
| `events` | split payment: fees 1 and 2, maximum 3, 1 crash, 1 failing write; queue: 3 events, one of them a leg's, 1 failing write, 1 restart, an application that waits and confirms once, one that polls and confirms again after an error; stop: 2 rebalances, a monitor, a melt, the listener task | the combined event is true, unique, and comes; the queue's order, disk and acknowledgements; stop returns (180 thousand states) |
| `mpp_leg_leak` | no crash | *violated*: `add_event` tests `is_mpp_leg` before it takes the buffer's lock, so a leg's own event can be shown, is not recorded, and the combined event waits for it |
| `queue_lost_wakeup` | waiting consumer, no failures | *violated*: `poll` uses `try_lock` and can end without a waker beside a queued event |
| `proofs_tasks` | 1 proof, 2 operations, 2 tasks, any old index | the store implements `ProofLedger`; reservations are exclusive; calls return (236 thousand) |
| `rebalance_crash` | 2 tasks, 1 receipt, 2 transfers, 1 crash | the records of transfers, in memory and on disk; the mutex is released when the payment went through (163 thousand) |
| `onchain_rebalance` | 2 tasks, 1 payer, 2 receipts, 2 seconds, 1 channel, 2 splices, 1 failure or restart | wake-ups, the records of the transactions, receipts found (4 million) |
| `late_open` | 1 task, 2 channels | *violated*: the enabled flag is read long before the channel is opened, so a channel is asked for after `ChannelClosed` has disabled rebalancing |
| `wallet_pay` | 2 calls, an invoice with an address or an offer, 3 purses, both trusted wallets, 3 quotes, 1 receive request | payments made once, listed once and truthfully (2 million) |
| `insert_twice` | the same, 2 quotes, no receive request | *violated*: a second call for an invoice gets the first one's quote and inserts its id again, against the assertion in `insert` |
| `spark` | store: 2 tasks, 2 ids that run together the same way, server revision up to 3, 2 changes, 1 or 2 asked for at a time; wallet: 2 payments of four kinds, of one second or two, any store of an earlier version, 2 tasks; 1 fault | changes, keys, sync order, refunds; migration, pages, one end per payment and its announcement (720 thousand) |
| `cashu_records` | 2 tasks, 2 transactions, 2 URLs, 3 keysets of which 2 share a u32, 4 keys read 2 at a time; 4 calls, 3 on mints; 1 fault for quotes and mints, otherwise 2 | reservations, versions, counters, migration, keysets, reads (2 million) |
| `stop_unfinished` | one task of each kind | *violated*: a melt that stop found can be unfinished when stop returns |

`events` and `spark` put several components in one run. Their components share no
variable, key or lock (what a leg's event does to the queue is `KeepLeg` in the
one and `BufferEvent` and `RecordMppLeg` in the other module), so a step of one can
neither enable nor disable a step of another, and it is enough to explore each while
the others rest.

Why the bounds are enough for the cases that matter. Two legs and three tasks
are all there are for one split payment, with a crash at any point of it and the
legs redelivered after it; `MaxMsat` = 3 makes the sum of fees 2 + 2
saturate. Three events from two producers give every order of pushes, with a
push during another's write. Two tasks on one proof give a reader against a
writer and a writer against a writer with an uncertain write between them; the
theorems cover any number. In `rebalance_crash` two transfers let a second
rebalance look for a receipt when the first has blamed the only one, and one
crash can fall between any two of the four records; what several receipts and
times could add to the three invariants is excluded by the theorems, which hold
for all constants. One channel and two splices let a second splice wait for the
channel on which an outpoint of the first is late or delivered twice, the
rebalancer's against a payer's; one fault is a failed
acknowledgement or a restart, wherever it bites. The scan for receipts needs two
seconds, for receipts of the second of a sync and after it, and two receipts of
which one is announced while the other is not. All of this at once is out of
TLC's reach: `OneDimension` has a behaviour go on either with one receipt in the
first second, or with no splice and no payer; receipts meet splices only through
the choice of the receipt to promote, which the first case contains. With one
receipt there is one splice of the rebalancer, so two of its splices on one
channel are covered by the theorems only. Two calls of
`pay` give an invoice paid again after, and while, it is paid; the purses are one
of which the invoice needs both wallets and the address the chain, one that can
split in two ways as funds change, and one that the trusted wallet covers alone.
One fault in the stores is a failed write, a write that landed and reported a
failure, or a crash; the history, sagas, counters and reads have two, so that
the recovery from one can fail too. Three calls on mints give a change of URL, or
an addition, against another call in every interleaving of their steps, after one
that left something to lose. Three server revisions let another device's
record fall between two of ours. Of two rebalances one may be spawned before stop
took the cancellable tasks and one after it. The symmetry of `spark` permutes
fields and refunds only, which its liveness property does not speak of.
`MaxCrashes`, `MaxErrors`, `MaxRestarts`, `MaxFaults`, `MaxTime`, `MaxQuotes`,
`MaxReceipts`, `MaxRevision`, `MaxChanges`, `MaxVersion`, `MaxCalls` and the number
of `Transfers`, `Channels` and `Splices` are bounds of the models only.

### What the properties except

Where a comment, a doc or an assertion of the repository rules a behaviour out
and the code shows it, a run checks the claim and is expected to find it violated
(`mpp_leg_leak`, `queue_lost_wakeup`, `late_open`, `insert_twice`,
`stop_unfinished`); `PROJECT.json` quotes the lines under "findings". A weakness
of which the repository says nothing is an exception of a passing property, named
in its comment and below; what hits exactly the exception is listed among the
hazards with a note, not as covered. Two claims that a single step refutes are
only described here: a crash right after `record_mpp_leg`, and the restart of the
queue.

*Split payment.* `DecidedIsSurfaced` excepts the leak, which is `mpp_leg_leak`'s,
and crashes: `record_mpp_leg` persists
`finalized` before `push_combined_mpp` queues the event, and a crash in between
loses it for good, although `store.rs:649-650` promises the event "exactly once
even across restarts". `AtMostOneUnlessStale` excepts `staleWrite`: `do_set` issues its KV
write after releasing the lock, so the write of `try_mpp_bolt11`'s `insert` can
land after the one of `record_mpp_leg`, and a restart then lets a redelivered
leg complete the payment again. A melt that ended in an error is reported as failed
although the mint may yet settle it (`trusted_wallet/cashu/mod.rs:841`): what
`CombinedSound` says is about what the legs reported.

*Queue.* `EventQueue::new` never reads the key that `persist_queue` writes, so
an unconfirmed event does not survive a restart, although `lib.rs:1646` says that
`next_event` returns "the same event until handling is confirmed". `FifoWithoutLoss`
excepts an application that calls `event_handled` again after an error: the first
call has popped the event though its write failed (`event.rs:354`), the second pops
one that nobody has seen. `AckedIsDurable` excepts received payments, whose push
error is only logged, and the events of legs that are recorded or buffered. An event
whose push failed stays in the queue and is delivered again, so it is shown twice.

*Rebalancers.* `TransferEnds` excepts `missed`:
`await_payment_receipt` (and Cashu's `await_payment_success`) looks the payment
up and then calls `mark_unchanged`, so a notification in between is forgotten
and the caller keeps `balance_mutex` until an unrelated payment arrives.
Between the promotion of a trigger and the record of its transfer, and for good
after a crash there, a promoted trigger has no transfer, on which the assertion
at `lib.rs:1088` of `list_transactions` trips.
`NoLateOpen` is violated; what holds instead is `AtMostOneLateOpen`, a theorem: the
one call that had read the flag. `NoReceiptSkipped` excepts `excused`:
receipts are compared with the time of the last sync in whole seconds, so one
stamped in the second of a sync that has ended is missed. (One found by a sync
that has not ended is announced again after it.) `RecordsMatchTransactions`
excepts `mixed`: the inbox is keyed by channel only, so an outpoint that LDK
redelivers, or that another task waits for too, is taken by whoever looks first.
`TransferHasBothEnds` excepts `spoiled` too: a crash between the two joined
writes, and the placeholder of `reserve_rebalance_slot_for_funding_tx`
overwriting the record of a channel that the rebalancer had already found in
`list_channels`. In both rebalancers the metadata store is taken to work: a write
that fails panics its task (`store.rs:493`) and leaves memory ahead of disk.

*pay.* `PaysOnce` speaks of the first call: a second one for the same invoice
may pay again: LDK refuses a hash that did not fail, but nothing
in `pay` stops it from paying the address of the same instructions.
`ListedOnce` excepts a splice out: its funding transaction is in LDK's list
(`event.rs:707-711`), `pay` makes its record a plain payment, and so it is listed
once from there (`lib.rs:1025`) and once from the splice_out namespace
(`lib.rs:1075-1085`). It also excepts `reinserted`, which is what `insert_twice` is
about: `Cashu::pay` takes any active quote for the invoice, also one whose payment
failed or the partial quote that a split left behind; its id may stand for a part of
the amount, and `insert` replaces its entry, be it a split's or one with a preimage.
A success that the melt task or LDK reports before `pay` has inserted the record
finds nothing to update, and its preimage is dropped. In the same window the payment is listed without
metadata once it is completed, and a lightning one trips the assertion at
`lib.rs:1053`. A future of `pay` that is dropped (`Drop`) leaves its payment
without a record; dropped between `begin_mpp_setup` and `finish_mpp_setup` it
leaves the hash marked. A splice whose negotiation fails is only logged
(`event.rs:697`), and `pay` waits for it for good. The doc of `try_mpp_bolt11` (`lib.rs:1487`) says that it
returns the lightning payment's id; the code returns the surface id, which is
the trusted one.

*Spark.* `SyncNeverGoesBack` excepts a record that is applied again because a
failure kept the first call from removing it; the revision to pull from moves to
that of a pushed change (`spark_store.rs:825`), past records of other devices that
were not pulled yet. `insert_payment_metadata` merges without a lock and takes a
failed read for an empty record, so fields can be lost; `SparkStore` contains
this and states nothing of it. `FinalIsAnnounced` excepts `lost`: a failure, a
crash, or a listener that is not there yet (`init` adds it after the SDK runs)
between storing and announcing. A payment's kind is fixed in the model, while the
code looks up whether it is a rebalance when its end is reported. `ListedInPages`
excepts payments of the same second: `list_payments` sorts by the second alone, over
whatever order `KVStore::list` returns, so if that differs between two pages one of
them may be listed twice and another not at all.

*Cashu.* `QuoteReservedOnce` excepts "clobbered": a reservation leaves the
version alone, so an update from an older snapshot overwrites it; and, with
`NoQuoteUpdateLost`, "removed". Calls on mints take no lock
(`cashu_store.rs:514-738`). `KeysetsKept` therefore excepts, for the keysets of a URL, two
overlapping calls for that URL: each reads the list, and the later write forgets what
the other added. For the u32 of keysets it excepts any two overlapping calls, and
"unread": `add_mint_keysets` takes a mapping that cannot be read for a missing one.

*Shutdown.* Beside what `stop_unfinished` shows, tasks spawned after their set was
taken are not waited for, and Spark's payments are spawned with `tokio::spawn`
(`trusted_wallet/spark/mod.rs:230`), in no set at all. `StopReturns` excepts a
rebalance that is spawned after the cancellable tasks were aborted and is parked
with `balance_mutex`.

### Fairness

The runtime polls every task that can run and tokio's mutexes are FIFO, so the steps
of a task that takes locks have strong fairness, others weak fairness. In `MppPayment`
each task has it for all of its steps together, and the network decides every leg that
was sent (`ResolveLeg`); nobody has to begin a payment. In `TrustedRebalance` the
network decides too (`Network`). In `SparkWallet` only `Emit` is fair: a task that has
stored a new status goes on to announce it. In `Shutdown` the steps of `stop`, which
waits for `balance_mutex`, are strongly fair and the dropping of an aborted task is
weakly fair; no task is assumed to end or to release the mutex. Nothing is assumed of
the application except, in `queue_lost_wakeup`, that it keeps polling the future it
awaits and confirms what it retrieved, and nothing
of callers of the rebalancer: `LockBalance` has no fairness, and neither have
errors, crashes and cancellations. `events` and `spark` use the same fairness as the
components alone. `CHECK_DEADLOCK FALSE` stands in `queue_lost_wakeup`, where
everything was delivered and the application waits, in
`wallet_pay`, `insert_twice` and `cashu_records`, where every call has been made, and in
`stop_unfinished`, where the wallet has stopped; in `events` the queue and a stopped
wallet may rest (`MayRest`), a split payment may not.

## Proofs

The theorems hold for every value of the constants that satisfies the named
assumptions of the modules, which TLC evaluates in the runs: `MppAssumption`,
`QueueAssumption`, those of `ProofOps` and `ProofStore`, `RebalanceAssumption`,
`OnchainAssumption`, `RecordsAssumption`, `SparkWalletAssumption`,
`SparkStoreAssumption`, `DecimalAssumption`, `PayAssumption` and
`MethodsAssumption`. They say that a placeholder such as
`None` is no value, that sets of ids of different kinds do not meet, that bounds
are numbers, and of the data what the code's types say: requests are
a list of typed methods, a list of keys to read is not empty
(`read_keys_bounded` returns at once for an empty one), a mint lists finitely many keysets.
`MethodsAssumption` is about what the parser of payment instructions, which is not
in the repository, hands to `pay`: a request is of one type, and an invoice is listed
once. Without the latter `PaysOnce` could fail: the mpp pass would start a part of
the same invoice a second time, and funds that came in since then could let the
receiver claim both. Nothing in `pay` looks for such a repetition.

- `MppPaymentProofs`: `MppInv` is inductive. `CombinedSound` needs that every
  entry, pending write and decided outcome claims only what the legs have done
  (`EntriesAreSound`, `OutcomesAreSound`), and that `add_event` only runs for
  resolved legs. At-most-once needs that at most one task holds an outcome
  (`OneHolder`) and that, unless a write was overtaken, disk and memory agree on
  `finalized` from the moment a task holds it (`FinalizedOnDiskFirst`).
- `EventQueueProofs`: `QueueInv` is inductive; `ReportsInFlight` ties a
  producer's place in `add_event` to what is queued, kept and durable, and `InHand`
  says that what the application has retrieved is in front of the queue.
- `ProofStoreProofs`: `StoreInv` is inductive; `CallState` says what every place
  in a call knows of cache, disk and announced write. With it every step of
  `ProofStore` is a step of `ProofLedger` or leaves the ledger alone
  (`StoreIsAtomicLedger`). `ReservationsKept` is an action property: a write that
  lands was computed from what it replaces (`StoreInv`), and the old index reserves
  a proof for one operation only (`IndexApart`).
- `TrustedRebalanceProofs`: `RebalanceInv` is inductive. The promotion cannot
  fail because the holder of the mutex is the only one that changes receipts,
  and its candidates and its choice stay plain payments (`VictimState`); the
  order on disk follows from `RecordState`, which says what is on disk before
  each write, and `WriteState`, which says that a write under way writes what
  memory holds. `AnnounceInv`, inductive relative to `RebalanceInv`, adds what
  the application was told. `RecordsKept` is an action property proved from the
  same invariant.
- `OnchainRebalanceProofs`: everything rests on the typing `TypeInv`, which says
  what each place in a call knows, among it which times the holder of the mutex
  has read; relative to it `NoLostWakeup` and `NoReceiptSkipped` are inductive.
  `LateInv` says that a late open is asked for by the holder of the mutex that
  has read the flag, of which there is one. `MatchInv` ties the inbox to its waiters
  (`InboxInv`: nobody else waits for the channel, and the inbox holds the
  waiter's own outpoint), the waiters to their transactions (`OwnInv`) and these
  to memory, disk and pending writes (`RecordsInv`). `EndsInv` follows the two
  writes of a transfer: who may have which on its way (`WritesInv`), that what is to
  be recorded is not recorded yet (`FreshInv`), that the handler's placeholder
  overwrites nothing it has not seen (`ReserveInv`), and what is then on disk
  (`DiskInv`). The proofs also cover what `OneDimension` keeps out of the run:
  receipts at several times together with splices and payers.
- `CashuRecordsProofs`: `WorkAlways` says that a behaviour stays in its
  namespace, after which each namespace has its own invariant. `CounterInv` and
  `SagaInv`: the holder of the lock has read what is stored. `QuoteInv`: who was
  told that a quote is his is the one named in it (`ReservationInv`), and a
  snapshot of the stored version has everything the stored quote has recorded
  (`UpdateInv`); a reservation keeps the version, which is why the two differ in
  what they except. `HistoryInv`: the old keys that are left are among those the
  migration has still to do. `ReadsInv`: the keys started are a prefix, each in
  flight or with its result. `KeysetsKept` is left to TLC.
- `SparkProofs`, first the wallet: `ResyncInv` adds to `ErasedIsResynced` that one
  task syncs at a time, at the payment after the offset, and does not drop the update
  of a payment without details. `ReadableInv` says that an old deposit that does not
  parse is still on the migration's list. `OnceInv` says that a task that is going
  to write does not replace a final status by another, and that whoever is
  going to emit a final status wrote it. `ListedInPages` needs no induction over the
  list: under one order of the keys the ranks of n payments are distinct numbers below
  n, so each of them is taken (`RankOnto`), a page holds an interval of ranks
  (`PageFacts`), and the
  intervals of the offsets 0, limit, ... are disjoint (`PagesApart`) and reach every
  rank (`OnSomePage`); a payment alone in its second has the same rank in all orders
  of the keys (`FixedRank`).
  Then the store: `KeysDiffer` proves that two ids never have the same key, hashed or
  not: the digits before the first `_` tell the length of the first part. `KeyInv`
  says that everything is under its own key. `DepositInv`: what a task is
  going to write keeps the refund that is stored. `ChangeInv`: revisions given out are not above the counter,
  and the next one is above them (`NoChangeLost` needs that a change on its way has a
  revision that no queued change and no other task has). `RecordInv` is about the
  sync and is the largest part: nothing stored is newer than the server's
  (`KnownInv`), a record waiting is newer than what is stored of its id unless it was
  applied before (`NewerInv`), a change is pushed on top of a record that is not newer
  than the stored one, so that no waiting record of its id is new once the server
  has taken it (`ParentInv`, `TakenInv`), and the phases hand out records in
  ascending order (`OrderInv`, `OldestInv`). With it `SyncNeverGoesBack` holds in every step.
- `WalletProofs`, of `pay` and `list_transactions`: `PayInv` is inductive, and with it
  come the theorems. A call's id stands for the quote or payment it has started
  (`StartedInv`). The splice outs have the ids of calls (`SpliceInv`). What
  `list_transactions` groups under a surface id is the split's own: the entries of a
  split name its quote's id, and the trusted leg's entry is there before the lightning
  leg's, unless the id was inserted again (`SplitInv`); what was
  returned is recorded (`ReturnedInv`). `PaysOnce` rests on `OnceInv`,
  inductive relative to `PayInv`, which speaks of a call that is alone. A melt of the
  whole amount is the only payment there is (`WholeInv`), since the trusted wallet
  is asked for it in the first pass only. A melt of a part is for an invoice that the
  call's place in the passes has gone by, so no two are for the same invoice, and
  it is paid only with the lightning leg (`PartsInv`), because the receiver does not
  claim less than the amount. There is one lightning payment at most, which makes
  up the amount with a part of the same invoice (`LegInv`). So the sums that occur have
  at most one term per wallet, and are computed without an induction (`SumOfOne`).

The inductive invariants are theorems only. Both proved and checked by a run are
`CombinedSound`, `AtMostOneUnlessStale`, `RecordSnapshotIsLatest`; `FifoWithoutLoss`,
`DiskTracksQueue`, `AckedIsDurable`; `AtomicLedger`, `NoStolenReservation`;
`PromotionSucceeds`, `TransfersWellFormed`, `AnnouncedIsRecorded`; `NoLostWakeup`,
`NoReceiptSkipped`, `RecordsMatchTransactions`, `TransferHasBothEnds`;
`QuoteReservedOnce`, `NoQuoteUpdateLost`, `SagaStepOnce`, `CountersNotReused`,
`NoTransactionLost`, `ReadsInOrder`; `ErasedIsResynced`, `OneFinalEvent`, `ListedInPages`;
`NoChangeLost`, `UnderOwnKey`, `SyncNeverGoesBack`, `RefundsKept`; `PaysOnce`,
`ListedOnce`, `ListedTruthfully`. Proved only: the type invariants of `MppPayment`, `EventQueue`,
`ProofStore`, `TrustedRebalance`, `OnchainRebalance`, `SparkWallet`, `SparkStore` and `WalletPay`,
`FinalizedIsDurable`, `CacheCoherent`, `NoLostUpdate`, `WrittenInOrder`, `RecordsKept`,
`AtMostOneLateOpen`, and `Readable` of the Spark wallet.

Only model-checked are the liveness properties (`DecidedIsSurfaced`, `CallsReturn`,
`TransferEnds`, `FinalIsAnnounced`, `StopReturns`), which rest on fairness and ENABLED,
`KeysetsKept`, and the five runs that expect a violation.

No module declares a RECURSIVE operator.

## Not modelled

The foreign-language interface and the bindings, logging, the command-line
example and the dummy wallet (a test double) do not hold logic of their own. LDK
node, the CDK and Spark SDKs, the mint, the sync server and the KV store are
external; the models contain what the code relies on: LDK redelivers an event
until it is acknowledged, a backend answers a payment once, a KV write is atomic.

Of the modelled files: building the wallet and its configuration; amounts, fees
and times of listed transactions and their order; the on-chain address of a
receive request and `PaymentInfo::build`; minting at a Cashu mint, the body of
the quote monitor, restore and npub.cash; keys of keysets, P2PK stubs and the
key-value pass-through of the Cashu database, which are single reads or writes;
the cached items of the Spark store, whose keys `sanitize_key` truncates (two long
keys with the same beginning would collide), look-ups by invoice or parent,
contacts and LNURL metadata; estimates, invoices and balances, which forward to
a backend.

## Plan

Every part that holds logic of its own has a model, and every safety invariant and
action property that a passing run checks is also a theorem, except `KeysetsKept`, whose
proof would have to follow two interleaved calls. Next would come that proof and the
parts listed above as not modelled, first the keys of the cached items
(`sanitize_key`) and the body of Cashu's quote monitor, and a second call of `pay`
for the same invoice in `PaysOnce`, once the code decides whether it may pay again.
