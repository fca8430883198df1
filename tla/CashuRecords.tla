----------------------------- MODULE CashuRecords -----------------------------
(***************************************************************************)
(* `CashuKvDatabase` beside its proofs (those are in ProofStore): quotes,  *)
(* sagas, counters, mints with their keysets, and the transactions with    *)
(* the migration of their keys, as CDK's tasks use them.                   *)
(*                                                                         *)
(* These namespaces share no keys, so a behaviour exercises one of them:   *)
(* `work`, chosen at the start.  Any write may fail, with or without       *)
(* having landed, and the process may die at any point; what a call holds  *)
(* is then gone, and the locks with it.                                    *)
(***************************************************************************)
EXTENDS Naturals, Sequences, FiniteSets, FiniteSetsExt, SequencesExt, TLC

CONSTANTS
    Tasks,        \* tasks of CDK, each also the id of its operation
    Workloads,    \* subset of {"quotes", "sagas", "counters", "history", "mints", "reads"}
    MaxCounter,   \* u32::MAX
    Txs,          \* transactions
    Urls,         \* mint URLs
    Keysets,      \* keyset ids
    U32,          \* u32::from of a keyset id
    NKeys,        \* keys of a namespace that is read whole
    MAX_CONCURRENT_READS,
    MaxVersion,   \* bound: versions of a quote or a saga
    MaxCalls,     \* bound: increments, history, mint calls and reads, per workload
    MaxFaults,    \* bound: failed reads and writes, and crashes, per workload
    None

\* A stored quote: `by` is the operation it is reserved for, `marks` the tasks
\* whose work it contains, `proof` whether it has a payment proof.
Quote == [version : Nat, by : Tasks \cup {None}, marks : SUBSET Tasks, proof : BOOLEAN]

ASSUME RecordsAssumption ==
    /\ Workloads \subseteq {"quotes", "sagas", "counters", "history", "mints", "reads"}
    /\ None \notin Tasks \cup Quote \cup Nat /\ MaxCounter \in Nat /\ NKeys \in Nat \ {0}
    /\ IsFiniteSet(Keysets)
    /\ MAX_CONCURRENT_READS \in Nat \ {0} /\ MaxVersion \in Nat /\ MaxFaults \in [Workloads -> Nat]
    /\ MaxCalls \in [Workloads -> Nat]

VARIABLES
    work,
    quote,        \* "melt_quotes": a quote that is raced for
    saga,         \* "sagas": the same
    counter,      \* "keyset_counters", "derivation_counters"
    txs, marker,  \* "transactions", and MIGRATION_KEY
    mints,        \* "mints", "mint_keysets": per URL
    table,        \* "keysets_table" and "keyset_u32_mapping"
    cache,        \* mints_cache
    recordsLock,  \* records_mutation_lock
    counterLock,  \* keyset_counter_lock
    call,         \* per task, the call it is in
    snap,         \* per task, the record it has read and works on
    boot,         \* new(): what the migration has still to do, "running" when done
    granted,      \* history: operations told that the quote is theirs
    excuses,      \* history: "clobbered" when an older snapshot overwrote a reservation,
                  \* "removed" when the quote was removed; "overlap" and "shared" when two
                  \* mint calls met, "unread" when a mapping was replaced unread
    kept,         \* history: what accepted updates of the quote recorded
    handed,       \* history: the counter ranges handed out
    alive,        \* history: transactions or keysets that must be there
    calls, faults

disk    == <<quote, saga, counter, txs, marker, mints, table>>
locks   == <<recordsLock, counterLock>>
history == <<granted, excuses, kept, handed, alive>>
memory  == <<cache, call, snap, boot>>
vars    == <<work, disk, locks, memory, history, calls, faults>>

Idle == [pc |-> "idle"]

\* A write: it lands, it fails, or it lands and reports a failure.
Outcomes == {"ok"} \cup IF faults < MaxFaults[work] THEN {"failed", "late"} ELSE {}

Fault(o) == faults' = faults + (IF o = "ok" THEN 0 ELSE 1)

Landed(o, new, old) == IF o = "failed" THEN old ELSE new

Goto(t, c) == call' = [call EXCEPT ![t] = c]

Ready(t, ns) == ns = work /\ boot.pc = "running" /\ call[t].pc = "idle"

-----------------------------------------------------------------------------
\* A namespace with the value v under the key k, and without the key.
With(f, k, v) == [j \in DOMAIN f \cup {k} |-> IF j = k THEN v ELSE f[j]]
Without(f, k) == [j \in DOMAIN f \ {k} |-> f[j]]

\* Transactions are stored under the ids of CDK 0.17 ("old") or of 0.18; a
\* record is named by its transaction, `copy` tells different contents apart.
OldKey(x) == <<"old", x>>
NewKey(x) == <<"new", x>>
Tx(x, copy) == [tx |-> x, copy |-> copy]

Booting == [pc |-> "start", keys |-> {}]
Running == [pc |-> "running", keys |-> {}]

NoMint == [stored |-> FALSE, info |-> FALSE, keysets |-> {}]

Init ==
    /\ work \in Workloads
    /\ quote = None /\ saga = None /\ counter = 0
    /\ txs \in (IF work # "history" THEN {<<>>} ELSE
                  {[k \in {OldKey(x) : x \in Txs} |-> Tx(k[2], 1)],
                   [k \in {OldKey(x) : x \in Txs} \cup {NewKey(x) : x \in Txs} |->
                        Tx(k[2], IF k[1] = "old" THEN 1 ELSE 2)]})
    /\ marker = FALSE
    /\ mints = [u \in Urls |-> NoMint] /\ table = [u32 |-> {}, keysets |-> {}] /\ cache = [u \in Urls |-> "none"]
    /\ recordsLock = None /\ counterLock = None
    /\ call = [t \in Tasks |-> Idle] /\ snap = [t \in Tasks |-> None]
    /\ boot = IF work = "history" THEN Booting ELSE Running
    /\ granted = {} /\ excuses = {} /\ kept = {} /\ handed = <<>>
    /\ alive = IF work = "history" THEN {txs[k] : k \in DOMAIN txs} ELSE {}
    /\ calls = 0 /\ faults = 0

-----------------------------------------------------------------------------
\* Quotes.  Mint and melt quotes are handled alike; only a melt quote has a
\* payment proof.  CDK reads a quote, works on it and stores it again.

GetQuote(t) ==
    /\ Ready(t, "quotes") /\ snap[t] # quote
    /\ snap' = [snap EXCEPT ![t] = quote]
    /\ UNCHANGED <<work, disk, locks, cache, call, boot, history, calls, faults>>

\* Mutant: the version is not compared.
AcceptAny(existing, new) == TRUE

SameVersion(existing, new) == existing.version = new.version

\* The version goes up, and the payment proof stays.
NextQuote(existing, new) ==
    [new EXCEPT !.version = @ + 1, !.proof = @ \/ existing.proof]

\* What the task wants to store: a quote the mint has just made, or its snapshot
\* with a mark of its work and perhaps a payment proof.
Proposed(t) ==
    IF snap[t] = None
    THEN IF quote = None /\ excuses = {}
         THEN {[version |-> 0, by |-> None, marks |-> {t}, proof |-> FALSE]} ELSE {}
    ELSE {[snap[t] EXCEPT !.marks = @ \cup {t}, !.proof = p] : p \in BOOLEAN}

\* add_mint_quote, add_melt_quote: under the lock the stored quote is read ...
AddQuote(t) ==
    /\ Ready(t, "quotes") /\ recordsLock = None
    /\ \E new \in Proposed(t) :
          IF quote = None
          THEN recordsLock' = t /\ Goto(t, [pc |-> "quote", new |-> new])
          ELSE /\ SameVersion(quote, new) /\ quote.version < MaxVersion
               /\ recordsLock' = t
               /\ Goto(t, [pc |-> "quote", new |-> NextQuote(quote, new)])
    /\ UNCHANGED <<work, disk, counterLock, cache, snap, boot, history, calls, faults>>

\* ... or the quote has changed: Error::ConcurrentUpdate.
RefuseQuote(t) ==
    /\ Ready(t, "quotes") /\ recordsLock = None /\ quote # None
    /\ snap[t] # None
    /\ ~SameVersion(quote, snap[t])
    /\ snap' = [snap EXCEPT ![t] = None]
    /\ UNCHANGED <<work, disk, locks, cache, call, boot, history, calls, faults>>

\* ... and the new one is written.
WriteQuote(t) ==
    LET new == call[t].new IN
    /\ call[t].pc = "quote"
    /\ \E o \in Outcomes :
          /\ quote' = Landed(o, new, quote)
          /\ Fault(o)
          /\ kept' = IF o = "ok" THEN kept \cup new.marks \cup (IF new.proof THEN {"proof"} ELSE {})
                     ELSE kept
          /\ excuses' = excuses \cup (IF o # "failed" /\ quote # None /\ quote.by # new.by
                                      THEN {"clobbered"} ELSE {})
    /\ recordsLock' = None /\ Goto(t, Idle)
    /\ UNCHANGED <<work, saga, counter, txs, marker, mints, table, cache, counterLock, snap, boot,
                   granted, handed, alive, calls>>

\* Mutant: the quote is reserved whoever uses it.
ReserveAny(q) == q # None

Reservable(q) == q # None /\ q.by = None

\* reserve_mint_quote, reserve_melt_quote: the version stays the same.
ReserveQuote(t) ==
    /\ Ready(t, "quotes") /\ recordsLock = None
    /\ quote # None
    /\ Reservable(quote)
    /\ recordsLock' = t
    /\ Goto(t, [pc |-> "mark", grant |-> TRUE, new |-> [quote EXCEPT !.by = t]])
    /\ UNCHANGED <<work, disk, counterLock, cache, snap, boot, history, calls, faults>>

\* release_mint_quote, release_melt_quote: every quote of the operation.
ReleaseQuote(t) ==
    /\ Ready(t, "quotes") /\ recordsLock = None
    /\ quote # None
    /\ quote.by = t
    /\ recordsLock' = t
    /\ granted' = granted \ {t}
    /\ Goto(t, [pc |-> "mark", grant |-> FALSE, new |-> [quote EXCEPT !.by = None]])
    /\ UNCHANGED <<work, disk, counterLock, cache, snap, boot, excuses, kept, handed, alive, calls, faults>>

WriteReservation(t) ==
    /\ call[t].pc = "mark"
    /\ \E o \in Outcomes :
          /\ quote' = Landed(o, call[t].new, quote)
          /\ Fault(o)
          /\ granted' = IF o = "ok" /\ call[t].grant THEN granted \cup {t} ELSE granted
    /\ recordsLock' = None /\ Goto(t, Idle)
    /\ UNCHANGED <<work, saga, counter, txs, marker, mints, table, cache, counterLock, snap, boot,
                   excuses, kept, handed, alive, calls>>

RemoveQuote(t) ==
    /\ Ready(t, "quotes") /\ recordsLock = None /\ quote # None
    /\ \E o \in Outcomes :
          /\ quote' = Landed(o, None, quote) /\ Fault(o)
          /\ excuses' = excuses \cup (IF o = "failed" THEN {} ELSE {"removed"})
    /\ UNCHANGED <<work, saga, counter, txs, marker, mints, table, cache, locks, call, snap, boot,
                   granted, kept, handed, alive, calls>>

-----------------------------------------------------------------------------
\* Sagas.  CDK raises the version itself before it stores one.
AddSaga(t) ==
    /\ Ready(t, "sagas") /\ recordsLock = None /\ saga = None /\ granted = {}
    /\ \E o \in Outcomes : saga' = Landed(o, [version |-> 0], saga) /\ Fault(o)
    /\ UNCHANGED <<work, quote, counter, txs, marker, mints, table, cache, locks, call, snap, boot,
                   history, calls>>

GetSaga(t) ==
    /\ Ready(t, "sagas") /\ saga # None /\ snap[t] # saga
    /\ snap' = [snap EXCEPT ![t] = saga]
    /\ UNCHANGED <<work, disk, locks, cache, call, boot, history, calls, faults>>

\* Mutant: the saga is read before the lock is taken.
UpdateSagaUnlocked(t) ==
    /\ Ready(t, "sagas") /\ snap[t] # None /\ saga # None
    /\ saga.version = snap[t].version
    /\ saga.version < MaxVersion
    /\ recordsLock' = t
    /\ Goto(t, [pc |-> "saga", new |-> [version |-> snap[t].version + 1]])
    /\ UNCHANGED <<work, disk, counterLock, cache, snap, boot, history, calls, faults>>

\* update_saga: false if the saga is gone or has moved on.
UpdateSaga(t) ==
    /\ Ready(t, "sagas") /\ recordsLock = None /\ snap[t] # None /\ saga # None
    /\ saga.version = snap[t].version
    /\ saga.version < MaxVersion
    /\ recordsLock' = t
    /\ Goto(t, [pc |-> "saga", new |-> [version |-> snap[t].version + 1]])
    /\ UNCHANGED <<work, disk, counterLock, cache, snap, boot, history, calls, faults>>

WriteSaga(t) ==
    /\ call[t].pc = "saga"
    /\ \E o \in Outcomes :
          /\ saga' = Landed(o, call[t].new, saga)
          /\ Fault(o)
          /\ granted' = IF o = "ok" THEN granted \cup {<<t, call[t].new.version>>} ELSE granted
    /\ recordsLock' = None /\ Goto(t, Idle)
    /\ UNCHANGED <<work, quote, counter, txs, marker, mints, table, cache, counterLock, snap, boot,
                   excuses, kept, handed, alive, calls>>

DeleteSaga(t) ==
    /\ Ready(t, "sagas") /\ recordsLock = None /\ saga # None
    /\ \E o \in Outcomes : saga' = Landed(o, None, saga) /\ Fault(o)
    /\ UNCHANGED <<work, quote, counter, txs, marker, mints, table, cache, locks, call, snap, boot,
                   history, calls>>

-----------------------------------------------------------------------------
\* increment_keyset_counter and increment_derivation_counter: under the lock the
\* counter is read (a failure or an overflow ends the call) ...

\* Mutant: the counter is read before the lock is taken.
ReadCounterUnlocked(t) ==
    /\ Ready(t, "counters") /\ calls < MaxCalls[work]
    /\ \E count \in 1..2 :
          /\ counter + count <= MaxCounter
          /\ Goto(t, [pc |-> "count", old |-> counter, new |-> counter + count])
    /\ counterLock' = t /\ calls' = calls + 1
    /\ UNCHANGED <<work, disk, recordsLock, cache, snap, boot, history, faults>>

ReadCounter(t) ==
    /\ Ready(t, "counters") /\ counterLock = None /\ calls < MaxCalls[work]
    /\ \E count \in 1..2 :
          /\ counter + count <= MaxCounter
          /\ Goto(t, [pc |-> "count", old |-> counter, new |-> counter + count])
    /\ counterLock' = t /\ calls' = calls + 1
    /\ UNCHANGED <<work, disk, recordsLock, cache, snap, boot, history, faults>>

\* ... and written; the indices up to the new value are the caller's.
WriteCounter(t) ==
    /\ call[t].pc = "count"
    /\ \E o \in Outcomes :
          /\ counter' = Landed(o, call[t].new, counter)
          /\ Fault(o)
          /\ handed' = IF o = "ok" THEN Append(handed, call[t].old + 1 .. call[t].new) ELSE handed
    /\ counterLock' = None /\ Goto(t, Idle)
    /\ UNCHANGED <<work, quote, saga, txs, marker, mints, table, cache, recordsLock, snap, boot,
                   granted, excuses, kept, alive, calls>>

-----------------------------------------------------------------------------
\* migrate_transaction_ids, in new(): the keys are listed once ...
ListKeys ==
    /\ boot.pc = "start"
    /\ boot' = IF marker \/ DOMAIN txs = {} THEN Running ELSE [pc |-> "migrate", keys |-> DOMAIN txs]
    /\ UNCHANGED <<work, disk, locks, cache, call, snap, history, calls, faults>>

Pending(k, age) == boot.pc = "migrate" /\ k \in boot.keys /\ k[1] = age

Done(k) == [boot EXCEPT !.keys = @ \ {k}]

\* ... a key that is the transaction's id is left alone ...
SkipKey(k) ==
    /\ Pending(k, "new")
    /\ boot' = Done(k)
    /\ UNCHANGED <<work, disk, locks, cache, call, snap, history, calls, faults>>

\* Mutant: the old record is removed first.
RemoveThenCopy(k) ==
    /\ Pending(k, "old")
    /\ k \in DOMAIN txs
    /\ txs' = Without(txs, k)
    /\ boot' = Done(k)
    /\ UNCHANGED <<work, quote, saga, counter, marker, mints, table, cache, locks, call, snap, history,
                   calls, faults>>

\* ... any other record is copied under its id, unless the same is there ...
CopyRecord(k) ==
    /\ Pending(k, "old")
    /\ NewKey(k[2]) \notin DOMAIN txs
    /\ \E o \in Outcomes :
          /\ txs' = Landed(o, With(txs, NewKey(k[2]), txs[k]), txs)
          /\ Fault(o)
          /\ boot' = IF o = "ok" THEN boot ELSE Booting
    /\ UNCHANGED <<work, quote, saga, counter, marker, mints, table, cache, locks, call, snap, history, calls>>

IsCopy(k) == txs[NewKey(k[2])] = txs[k]

\* ... and then removed; a different one there ends new() with an error.
RemoveOld(k) ==
    /\ Pending(k, "old")
    /\ NewKey(k[2]) \in DOMAIN txs
    /\ IsCopy(k)
    /\ \E o \in Outcomes :
          /\ txs' = Landed(o, Without(txs, k), txs)
          /\ Fault(o)
          /\ boot' = IF o = "ok" THEN Done(k) ELSE Booting
    /\ UNCHANGED <<work, quote, saga, counter, marker, mints, table, cache, locks, call, snap, history, calls>>

Conflict(k) ==
    /\ Pending(k, "old")
    /\ NewKey(k[2]) \in DOMAIN txs
    /\ ~IsCopy(k)
    /\ boot' = Booting
    /\ UNCHANGED <<work, disk, locks, cache, call, snap, history, calls, faults>>

\* The marker is written when every old key is gone.
MarkMigrated ==
    /\ boot.pc = "migrate" /\ boot.keys = {}
    /\ \E o \in Outcomes :
          /\ marker' = Landed(o, TRUE, marker)
          /\ Fault(o)
          /\ boot' = IF o = "ok" THEN Running ELSE Booting
    /\ UNCHANGED <<work, quote, saga, counter, txs, mints, table, cache, locks, call, snap, history, calls>>

add_transaction(t) ==
    /\ Ready(t, "history") /\ calls < MaxCalls[work]
    /\ \E x \in Txs, o \in Outcomes :
          /\ txs' = Landed(o, With(txs, NewKey(x), Tx(x, 3)), txs)
          /\ Fault(o)
          /\ alive' = IF o = "ok" THEN {r \in alive : r.tx # x} \cup {Tx(x, 3)} ELSE {r \in alive : r.tx # x}
    /\ calls' = calls + 1
    /\ UNCHANGED <<work, quote, saga, counter, marker, mints, table, cache, locks, call, snap, boot,
                   granted, excuses, kept, handed>>

remove_transaction(t) ==
    /\ Ready(t, "history") /\ calls < MaxCalls[work]
    /\ \E x \in Txs, o \in Outcomes :
          /\ txs' = Landed(o, Without(txs, NewKey(x)), txs)
          /\ Fault(o)
          /\ alive' = {r \in alive : r.tx # x}
    /\ calls' = calls + 1
    /\ UNCHANGED <<work, quote, saga, counter, marker, mints, table, cache, locks, call, snap, boot,
                   granted, excuses, kept, handed>>

-----------------------------------------------------------------------------
\* Mints.  A call is the sequence of its steps, each a read, a write or an update
\* of the cache; the first that fails ends it.  No lock is taken: the steps of
\* two calls interleave.  A read that fails ends the call as a failed write of
\* the next step does.
Do(op, u, ks) == [do |-> op, url |-> u, ks |-> ks]

add_mint(u, info) ==
    <<Do("url", u, {})>> \o (IF info THEN <<Do("info", u, {})>> ELSE <<>>) \o <<Do(IF info THEN "cacheInfo" ELSE "cache", u, {})>>

\* For each keyset its u32 is looked up, mapped to it, and the keyset stored;
\* then the URL's keysets are read, and written with the new ones among them.
add_mint_keysets(u, ks) ==
    LET each(k) == <<Do("look", u, {k}), Do("u32", u, {k}), Do("keyset", u, {k})>>
    IN  FoldLeft(LAMBDA s, k : s \o each(k), <<>>, SetToSeq(ks))
        \o <<Do("gather", u, ks), Do("assoc", u, ks)>>

remove_mint(u) ==
    <<Do("unurl", u, {}), Do("uninfo", u, {}), Do("unassoc", u, {}), Do("uncache", u, {})>>

\* Mutant: the old URL is removed first.
MoveRemovingFirst(old, new, info, ks) ==
    remove_mint(old) \o add_mint(new, info) \o (IF ks = {} THEN <<>> ELSE add_mint_keysets(new, ks))

\* What is known of the old URL is read first, added under the new one, and
\* only then is the old one removed.
update_mint_url(old, new, info, ks) ==
    add_mint(new, info) \o (IF ks = {} THEN <<>> ELSE add_mint_keysets(new, ks)) \o remove_mint(old)

\* get_mint: from the cache if the mint is in it.
get_mint(u) == IF cache[u] = "none" THEN mints[u].info ELSE cache[u] = "info"

\* How a call meets those that are under way: as a history, for KeysetsKept.
Meets(t, urls) ==
    LET others == {v \in Tasks \ {t} : call[v].pc = "mint"}
    IN  (IF others = {} THEN {} ELSE {"overlap"})
        \cup (IF \E v \in others : call[v].urls \cap urls # {} THEN {"shared"} ELSE {})

StartMint(t, urls, steps, grant, lost) ==
    /\ Goto(t, [pc |-> "mint", urls |-> urls, todo |-> steps, read |-> {}, grant |-> grant])
    /\ alive' = alive \ lost
    /\ excuses' = excuses \cup Meets(t, urls)
    /\ calls' = calls + 1
    /\ UNCHANGED <<work, disk, locks, cache, snap, boot, granted, kept, handed, faults>>

\* update_mint_url's two reads are of different records, and are one step.
MintCall(t) ==
    /\ Ready(t, "mints") /\ calls < MaxCalls[work]
    /\ \E u \in Urls :
          \/ \E info \in BOOLEAN : StartMint(t, {u}, add_mint(u, info), {}, {})
          \/ \E ks \in (SUBSET Keysets) \ {{}} : StartMint(t, {u}, add_mint_keysets(u, ks), ks, {})
          \/ StartMint(t, {u}, remove_mint(u), {}, mints[u].keysets)
          \/ \E new \in Urls \ {u} :
                StartMint(t, {u, new}, update_mint_url(u, new, get_mint(u), mints[u].keysets), {}, {})

\* A keyset whose u32 is mapped to another one ends add_mint_keysets: Duplicate.
Taken(s) == s.do = "look" /\ \E k \in table.u32 \ s.ks : \E j \in s.ks : U32[k] = U32[j]

\* A step that finds the u32 mapped to its keyset skips the write of it.
Rest(s, todo) == IF s.do = "look" /\ s.ks \subseteq table.u32 THEN Tail(Tail(todo)) ELSE Tail(todo)

Tabled(s) ==
    CASE s.do = "u32"    -> [table EXCEPT !.u32 = s.ks \cup {k \in @ : \A j \in s.ks : U32[k] # U32[j]}]
      [] s.do = "keyset" -> [table EXCEPT !.keysets = @ \cup s.ks]
      [] OTHER -> table

Writes(s) == IF s.do \in {"cache", "cacheInfo", "uncache", "look", "gather"} THEN {"ok"} ELSE Outcomes

Stored(s, read) ==
    [mints EXCEPT ![s.url] =
        CASE s.do = "url"     -> [@ EXCEPT !.stored = TRUE]
          [] s.do = "info"    -> [@ EXCEPT !.info = TRUE]
          [] s.do = "assoc"   -> [@ EXCEPT !.keysets = read \cup s.ks]
          [] s.do = "unurl"   -> [@ EXCEPT !.stored = FALSE]
          [] s.do = "uninfo"  -> [@ EXCEPT !.info = FALSE]
          [] s.do = "unassoc" -> [@ EXCEPT !.keysets = {}]
          [] OTHER -> @]

\* A mapping that cannot be read counts as none and is replaced.
MintStep(t) ==
    LET s == Head(call[t].todo)
        rest == Rest(s, call[t].todo)
        unread == Taken(s) /\ faults < MaxFaults[work]
    IN  /\ call[t].pc = "mint"
        /\ \/ Taken(s) /\ Goto(t, Idle) /\ UNCHANGED <<mints, table, cache, alive, excuses, faults>>
           \/ \E o \in (IF unread THEN {"unread"} ELSE IF Taken(s) THEN {} ELSE Writes(s)) :
                 /\ mints' = Landed(o, Stored(s, call[t].read), mints)
                 /\ table' = Landed(o, Tabled(s), table)
                 /\ cache' = [cache EXCEPT ![s.url] = CASE s.do = "cache" -> "bare"
                                                        [] s.do = "cacheInfo" -> "info"
                                                        [] s.do = "uncache" -> "none"
                                                        [] OTHER -> @]
                 /\ Fault(o)
                 /\ Goto(t, IF rest = <<>> \/ o \in {"failed", "late"} THEN Idle
                            ELSE [call[t] EXCEPT !.todo = rest,
                                                 !.read = IF s.do = "gather" THEN mints[s.url].keysets ELSE @])
                 /\ alive' = IF rest = <<>> /\ o = "ok" THEN alive \cup call[t].grant ELSE alive
                 /\ excuses' = IF unread THEN excuses \cup {"unread"} ELSE excuses
        /\ UNCHANGED <<work, quote, saga, counter, txs, marker, locks, snap, boot,
                       granted, kept, handed, calls>>

-----------------------------------------------------------------------------
\* read_keys_bounded: a bounded number of reads at a time, the next one started
\* when one is done, and each result put at its key's place.
StartReads(t) ==
    /\ Ready(t, "reads") /\ calls < MaxCalls[work]
    /\ Goto(t, [pc |-> "reads", flying |-> 1..Min({MAX_CONCURRENT_READS, NKeys}),
                results |-> [i \in 1..NKeys |-> None]])
    /\ calls' = calls + 1
    /\ UNCHANGED <<work, disk, locks, cache, snap, boot, history, faults>>

\* Mutant: results are put in the order in which they arrive.
PlaceOfArrival(results, i) == Min({j \in DOMAIN results : results[j] = None})

PlaceOf(results, i) == i

\* Keys are taken in order, so the next one follows every key taken so far.
TakeNext(c, done) ==
    LET taken == c.flying \cup {i \in 1..NKeys : c.results[i] # None}
        next  == Max(taken) + 1
    IN  (c.flying \ {done}) \cup (IF next <= NKeys THEN {next} ELSE {})

JoinRead(t) ==
    LET c == call[t] IN
    /\ c.pc = "reads"
    /\ \E i \in c.flying :
          LET rest == TakeNext(c, i)
              results == [c.results EXCEPT ![PlaceOf(c.results, i)] = i]
          IN  \/ /\ call' = [call EXCEPT ![t] = IF rest = {} THEN Idle
                                               ELSE [c EXCEPT !.flying = rest, !.results = results]]
                 /\ handed' = IF rest = {} THEN results ELSE handed
                 /\ UNCHANGED faults
              \/ /\ faults < MaxFaults[work] /\ Fault("failed")
                 /\ Goto(t, Idle) /\ UNCHANGED handed
    /\ UNCHANGED <<work, disk, locks, cache, snap, boot, granted, excuses, kept, alive, calls>>

-----------------------------------------------------------------------------
\* The process dies; new() starts with the migration and loads the caches.
Crash ==
    /\ faults < MaxFaults[work] /\ faults' = faults + 1
    /\ recordsLock' = None /\ counterLock' = None
    /\ call' = [t \in Tasks |-> Idle] /\ snap' = [t \in Tasks |-> None]
    /\ boot' = IF work = "history" THEN Booting ELSE Running
    /\ cache' = [u \in Urls |-> CASE ~mints[u].stored -> "none"
                                 [] mints[u].stored /\ mints[u].info -> "info"
                                 [] OTHER -> "bare"]
    /\ granted' = IF work = "quotes" THEN {} ELSE granted
    /\ UNCHANGED <<work, disk, excuses, kept, handed, alive, calls>>

Next ==
    \/ \E t \in Tasks :
          \/ GetQuote(t) \/ AddQuote(t) \/ RefuseQuote(t) \/ WriteQuote(t) \/ ReserveQuote(t)
          \/ ReleaseQuote(t) \/ WriteReservation(t) \/ RemoveQuote(t)
          \/ AddSaga(t) \/ GetSaga(t) \/ UpdateSaga(t) \/ WriteSaga(t) \/ DeleteSaga(t)
          \/ ReadCounter(t) \/ WriteCounter(t)
          \/ add_transaction(t) \/ remove_transaction(t)
          \/ MintCall(t) \/ MintStep(t) \/ StartReads(t) \/ JoinRead(t)
    \/ ListKeys \/ MarkMigrated \/ Crash
    \/ \E k \in DOMAIN txs : SkipKey(k) \/ CopyRecord(k) \/ RemoveOld(k) \/ Conflict(k)

Spec == Init /\ [][Next]_vars

-----------------------------------------------------------------------------
\* Two operations are never both told that a quote is theirs.  Exceptions: an
\* update that started from a snapshot older than the reservation overwrites
\* it, since a reservation does not change the version; the quote was removed.
QuoteReservedOnce == (work = "quotes" /\ excuses = {}) => Cardinality(granted) <= 1

\* What an accepted update of a quote recorded stays in it: an update from an
\* older version is refused, and a payment proof survives an update without
\* one.  Exception: a quote that was removed and is stored again.
NoQuoteUpdateLost == (quote # None /\ "removed" \notin excuses) =>
    kept \subseteq quote.marks \cup (IF quote.proof THEN {"proof"} ELSE {})

\* Of the tasks that try to take a saga to its next version, one is told that
\* it did.
SagaStepOnce == work = "sagas" => \A g, h \in granted : g[2] = h[2] => g = h

\* No index of a counter is handed out twice, whatever fails: CDK derives
\* secrets from them.
CountersNotReused == work = "counters" =>
    \A i, j \in DOMAIN handed : i # j => handed[i] \cap handed[j] = {}

\* A transaction is never lost: not when the migration is cut off at any point
\* and starts again, and not to a different record under its id.  When the
\* database is open, every transaction is stored under its id and only there.
NoTransactionLost == work = "history" =>
    /\ \A r \in alive : \E k \in DOMAIN txs : txs[k] = r
    /\ boot.pc = "running" => \A k \in DOMAIN txs : k[1] = "new"

\* Keysets that were stored for a mint are found under one of its URLs until
\* the mint is removed, also while its URL changes and when that fails halfway.
\* Exception: two calls for one URL overlapped, and the later of two writes of
\* its keysets forgets what the other added (add_mint_keysets takes no lock).
\* No two keysets in the table share a u32.  Exceptions: two calls overlapped,
\* for whatever URLs; the mapping of one could not be read and was replaced.
KeysetsKept == work = "mints" =>
    /\ "shared" \notin excuses => \A k \in alive : \E u \in Urls : k \in mints[u].keysets
    /\ excuses \cap {"overlap", "unread"} = {} => \A j, k \in table.keysets : U32[j] = U32[k] => j = k

\* However the reads finish, at most MAX_CONCURRENT_READS are under way and
\* the result has every key, in the order of the keys.
ReadsInOrder == work = "reads" =>
    /\ \A t \in Tasks : call[t].pc = "reads" =>
          Cardinality(call[t].flying) <= MAX_CONCURRENT_READS
    /\ handed \in {<<>>, [i \in 1..NKeys |-> i]}

=============================================================================
