------------------------------ MODULE SparkStore ------------------------------
(***************************************************************************)
(* `SparkStore`: the Spark SDK's storage on top of the wallet's key-value  *)
(* store.  This module holds the namespaces several SDK tasks write to:    *)
(* payment metadata, deposits, cross-chain swaps and the records of the    *)
(* real-time sync (`sync_out`, `sync_in`, `sync_state`, `sync_rev`).       *)
(* Payments and the migration are in SparkWallet.                          *)
(*                                                                         *)
(* The namespaces share neither keys nor locks, so a behaviour exercises   *)
(* some of them only: `work`, chosen at the start.  Any write may fail,    *)
(* with or without having landed, and the process may die at any point.    *)
(***************************************************************************)
EXTENDS SparkTasks, Sequences, FiniteSets, FiniteSetsExt, SequencesExt

CONSTANTS
    Workloads,    \* the sets of namespaces a behaviour may exercise
    Fields,       \* fields of PaymentMetadata
    Refunds,      \* refund transactions of a deposit
    Characters,   \* what ids are made of
    RecordIds,    \* <<type, data_id>>, each a sequence of characters
    Swaps,        \* <<provider, id>>, the same
    KeyMaxLen,    \* KVSTORE_NAMESPACE_KEY_MAX_LEN
    MaxRevision,  \* bound: the server's revision
    MaxChanges,   \* bound: local revisions
    Limits,       \* how many changes or records the sync asks for at a time
    Decimal(_)    \* external: a number's digits (to_string)

Record == [id : RecordIds, rev : 1..MaxRevision]

\* A deposit; RefundState is kept with the refund the SDK reported it for.
DepositInfo == [mature : BOOLEAN, claim_error : BOOLEAN, instant : BOOLEAN,
                refund : Refunds \cup {None},
                refund_state : {None} \cup [of : Refunds, broadcast : BOOLEAN]]

ASSUME SparkStoreAssumption ==
    /\ None \notin Tasks \cup Refunds \cup Record \cup DepositInfo
    /\ MaxRevision \in Nat /\ MaxChanges \in Nat /\ MaxFaults \in Nat /\ KeyMaxLen \in Nat
    /\ Limits \subseteq Nat \ {0}
    /\ \A id \in RecordIds \cup Swaps : id \in Seq(Characters) \X Seq(Characters)

Digits == {"0", "1", "2", "3", "4", "5", "6", "7", "8", "9"}

\* The lengths the keys spell out.
Lengths == {Len(id[i]) : id \in RecordIds \cup Swaps, i \in 1..2}

\* A number's decimal form is made of digits and tells the number.
ASSUME DecimalAssumption ==
    /\ \A n \in Lengths : Decimal(n) \in Seq(Digits) /\ Decimal(n) # <<>>
    /\ \A m, n \in Lengths : Decimal(m) = Decimal(n) => m = n

VARIABLES
    work,          \* the namespaces this behaviour exercises
    meta,          \* "metadata": the fields of the payment that are set
    deposit,       \* "deposit": the deposit's DepositInfo
    swaps,         \* "cross_chain"
    out,           \* "sync_out": outgoing changes by local revision
    in,            \* "sync_in": incoming records
    state,         \* "sync_state": the server-acknowledged record of each id
    revision,      \* "sync_rev"/"revision"
    localRevision, \* "sync_rev"/"local_revision"
    revisionLock,  \* local_revision_lock
    depositLock,   \* deposit_update_lock
    sync,          \* the sync's call
    server,        \* the sync server: its revision, and each record's
    owed,          \* history: changes accepted and not acknowledged
    applied        \* history: records written to "sync_state"

storeDisk  == <<meta, deposit, swaps, out, in, state, revision, localRevision>>
memory     == <<revisionLock, depositLock, call, sync>>
storeVars  == <<work, storeDisk, memory, server, owed, applied, faults>>

-----------------------------------------------------------------------------
\* A namespace maps keys to what is stored under them.

Nothing == [k \in {} |-> None]

Put(f, k, v) == [x \in DOMAIN f \cup {k} |-> IF x = k THEN v ELSE f[x]]

Drop(f, k) == [x \in DOMAIN f \ {k} |-> f[x]]

\* Mutant: the parts are not preceded by their lengths.
BareKey(parts) == FlattenSeq(parts)

\* sync_record_key: every part after its length; a long key is replaced by its
\* hash, which stands for the key it is the hash of.
sync_record_key(parts) ==
    LET key == FlattenSeq([i \in DOMAIN parts |-> Decimal(Len(parts[i])) \o <<"_">> \o parts[i]])
    IN  IF Len(key) > KeyMaxLen THEN <<"h", "_">> \o key ELSE key

record_id_key(id) == sync_record_key(id)

incoming_record_key(r) == sync_record_key(Append(r.id, Decimal(r.rev)))

\* read_sync_state: the record under the id's key, None if there is none.
read_sync_state(id) ==
    LET key == record_id_key(id) IN IF key \in DOMAIN state THEN state[key] ELSE None

RevisionOf(r) == IF r = None THEN 0 ELSE r.rev

-----------------------------------------------------------------------------
StoreInit ==
    /\ work \in Workloads
    /\ meta = {} /\ deposit = None
    /\ swaps = Nothing /\ out = Nothing /\ in = Nothing /\ state = Nothing
    /\ revision = 0 /\ localRevision = 0
    /\ revisionLock = None /\ depositLock = None
    /\ call = [t \in Tasks |-> Idle]
    /\ sync = Idle
    /\ server = [rev |-> 0, of |-> [id \in RecordIds |-> 0]]
    /\ owed = {} /\ applied = {} /\ faults = 0

-----------------------------------------------------------------------------
\* insert_payment_metadata, without a lock: what is stored is read (a failure
\* counts as nothing stored) and merged, a new field taking precedence ...

Coalesce(new, existing) == new \cup existing

ReadMetadata(t) ==
    /\ "metadata" \in work /\ call[t].pc = "idle"
    /\ \E fields \in (SUBSET Fields) \ {{}}, readable \in BOOLEAN :
          LET existing == IF readable THEN meta ELSE {} IN
          /\ ~readable => faults < MaxFaults
          /\ Fault(IF readable THEN "ok" ELSE "failed")
          /\ Goto(t, [pc |-> "metadata", read |-> existing, new |-> Coalesce(fields, existing)])
    /\ UNCHANGED <<work, storeDisk, revisionLock, depositLock, sync, server, owed, applied>>

\* ... and the result is written.
WriteMetadata(t) ==
    /\ call[t].pc = "metadata"
    /\ \E o \in Outcomes : meta' = Landed(o, call[t].new, meta) /\ Fault(o)
    /\ Goto(t, Idle)
    /\ UNCHANGED <<work, deposit, swaps, out, in, state, revision, localRevision,
                   revisionLock, depositLock, sync, server, owed, applied>>

-----------------------------------------------------------------------------
\* add_deposit keeps what is known of a deposit that is already stored.
AddDeposit(old, mature) ==
    IF old = None
    THEN [mature |-> mature, claim_error |-> FALSE, instant |-> FALSE,
          refund |-> None, refund_state |-> None]
    ELSE [old EXCEPT !.mature = mature]

\* update_deposit's payloads; the state of another refund than the stored one
\* changes nothing.
UpdateDeposit(old, p) ==
    CASE p.ty = "ClaimError"  -> [old EXCEPT !.claim_error = TRUE]
      [] p.ty = "Refund"      -> [old EXCEPT !.refund = p.refund, !.claim_error = FALSE,
                                       !.refund_state = [of |-> p.refund, broadcast |-> FALSE]]
      [] p.ty = "InstantClaim" -> [old EXCEPT !.instant = TRUE]
      [] p.ty = "RefundBroadcastState" /\ old.refund = p.refund ->
            [old EXCEPT !.refund_state = [of |-> p.refund, broadcast |-> TRUE]]
      [] OTHER -> old

Payload == [ty : {"ClaimError", "InstantClaim"}]
           \cup [ty : {"Refund", "RefundBroadcastState"}, refund : Refunds]

\* Mutant: the lock is not taken.
ReadDepositUnlocked(t) ==
    /\ "deposits" \in work /\ call[t].pc = "idle"
    /\ \/ \E mature \in BOOLEAN : Goto(t, [pc |-> "deposit", new |-> AddDeposit(deposit, mature)])
       \/ /\ deposit # None
          /\ \E p \in Payload :
                /\ UpdateDeposit(deposit, p) # deposit
                /\ Goto(t, [pc |-> "deposit", new |-> UpdateDeposit(deposit, p)])
    /\ UNCHANGED <<work, storeDisk, revisionLock, depositLock, sync, server, owed, applied, faults>>

\* add_deposit and update_deposit, under deposit_update_lock: the deposit is
\* read (update_deposit returns if there is none, or if nothing changes) ...
ReadDeposit(t) ==
    /\ "deposits" \in work /\ call[t].pc = "idle"
    /\ depositLock = None
    /\ \/ \E mature \in BOOLEAN : Goto(t, [pc |-> "deposit", new |-> AddDeposit(deposit, mature)])
       \/ /\ deposit # None
          /\ \E p \in Payload :
                /\ UpdateDeposit(deposit, p) # deposit
                /\ Goto(t, [pc |-> "deposit", new |-> UpdateDeposit(deposit, p)])
    /\ depositLock' = t
    /\ UNCHANGED <<work, storeDisk, revisionLock, sync, server, owed, applied, faults>>

\* ... and written back.
WriteDeposit(t) ==
    /\ call[t].pc = "deposit"
    /\ \E o \in Outcomes : deposit' = Landed(o, call[t].new, deposit) /\ Fault(o)
    /\ Goto(t, Idle)
    /\ depositLock' = None
    /\ UNCHANGED <<work, meta, swaps, out, in, state, revision, localRevision,
                   revisionLock, sync, server, owed, applied>>

\* delete_deposit, under the same lock.
DeleteDeposit(t) ==
    /\ "deposits" \in work /\ call[t].pc = "idle"
    /\ deposit # None /\ depositLock = None
    /\ \E o \in Outcomes : deposit' = Landed(o, None, deposit) /\ Fault(o)
    /\ UNCHANGED <<work, meta, swaps, out, in, state, revision, localRevision, memory,
                   server, owed, applied>>

-----------------------------------------------------------------------------
\* set_cross_chain_swap.
SetSwap(t) ==
    /\ "swaps" \in work /\ call[t].pc = "idle"
    /\ \E s \in Swaps, terminal \in BOOLEAN, o \in Outcomes :
          /\ swaps' = Landed(o, Put(swaps, sync_record_key(s), [id |-> s, terminal |-> terminal]),
                             swaps)
          /\ Fault(o)
    /\ UNCHANGED <<work, meta, deposit, out, in, state, revision, localRevision, memory,
                   server, owed, applied>>

\* get_cross_chain_swap, list_active_cross_chain_swaps.
get_cross_chain_swap(s) ==
    IF sync_record_key(s) \in DOMAIN swaps THEN swaps[sync_record_key(s)] ELSE None

list_active_cross_chain_swaps(provider) ==
    {s \in Range(swaps) : s.id[1] = provider /\ ~s.terminal}

-----------------------------------------------------------------------------
\* add_outgoing_change.  next_local_revision, under local_revision_lock, reads
\* the counter ...

\* Mutant: the lock is not taken.
ReadLocalRevisionUnlocked(t) ==
    /\ "sync" \in work /\ call[t].pc = "idle"
    /\ localRevision < MaxChanges
    /\ \E id \in RecordIds : Goto(t, [pc |-> "revision", id |-> id, rev |-> localRevision + 1])
    /\ UNCHANGED <<work, storeDisk, revisionLock, depositLock, sync, server, owed, applied, faults>>

ReadLocalRevision(t) ==
    /\ "sync" \in work /\ call[t].pc = "idle"
    /\ revisionLock = None /\ localRevision < MaxChanges
    /\ revisionLock' = t
    /\ \E id \in RecordIds : Goto(t, [pc |-> "revision", id |-> id, rev |-> localRevision + 1])
    /\ UNCHANGED <<work, storeDisk, depositLock, sync, server, owed, applied, faults>>

\* ... and writes it back one higher; a failure ends the call ...
WriteLocalRevision(t) ==
    /\ call[t].pc = "revision"
    /\ \E o \in Outcomes :
          /\ localRevision' = Landed(o, call[t].rev, localRevision)
          /\ Goto(t, IF o = "ok" THEN [pc |-> "change", id |-> call[t].id, rev |-> call[t].rev]
                     ELSE Idle)
          /\ Fault(o)
    /\ revisionLock' = None
    /\ UNCHANGED <<work, meta, deposit, swaps, out, in, state, revision, depositLock,
                   sync, server, owed, applied>>

\* ... and the change is stored under its revision.
WriteChange(t) ==
    /\ call[t].pc = "change"
    /\ LET c == [id |-> call[t].id, rev |-> call[t].rev] IN
       \E o \in Outcomes :
          /\ out' = Landed(o, Put(out, c.rev, c), out)
          /\ owed' = IF o = "ok" THEN owed \cup {c} ELSE owed
          /\ Fault(o)
    /\ Goto(t, Idle)
    /\ UNCHANGED <<work, meta, deposit, swaps, in, state, revision, localRevision,
                   revisionLock, depositLock, sync, server, applied>>

-----------------------------------------------------------------------------
\* The sync.  One SDK task pushes, pulls and applies, one phase at a time.

\* The first `limit` in ascending order of revision (sort_by_key and truncate;
\* no two revisions are the same).
Oldest(S, limit) == {r \in S : Cardinality({q \in S : q.rev < r.rev}) < limit}

\* get_pending_outgoing_changes: the oldest changes, each with the record the
\* server acknowledged last.  Only the sync removes changes or writes
\* "sync_state", so the separate reads see one state.
get_pending_outgoing_changes(limit) ==
    {[change |-> c, parent |-> read_sync_state(c.id)] : c \in Oldest(Range(out), limit)}

\* get_latest_outgoing_change: the newest one.
get_latest_outgoing_change ==
    IF DOMAIN out = {} THEN None
    ELSE LET c == out[Max(DOMAIN out)]
         IN  [change |-> c, parent |-> read_sync_state(c.id)]

\* Mutant: newest first.
NewestIncoming(limit) ==
    {r \in Range(in) : Cardinality({q \in Range(in) : q.rev > r.rev}) < limit}

\* get_incoming_records: the oldest incoming records.
get_incoming_records(limit) == Oldest(Range(in), limit)

StartPush ==
    /\ "sync" \in work /\ sync.pc = "idle" /\ DOMAIN out # {}
    /\ \E limit \in Limits :
          sync' = [pc |-> "push", todo |-> get_pending_outgoing_changes(limit)]
    /\ UNCHANGED <<work, storeDisk, revisionLock, depositLock, call, server, owed, applied, faults>>

\* External: the server takes a change made on top of its latest record and
\* gives it the next revision; it rejects any other, or cannot be reached.
Push ==
    /\ sync.pc = "push"
    /\ \E p \in sync.todo :
          /\ \A q \in sync.todo : p.change.rev <= q.change.rev
          /\ \/ LET c   == p.change
                    rev == server.rev + 1
                IN  /\ server.rev < MaxRevision
                    /\ server.of[c.id] = RevisionOf(p.parent)
                    /\ server' = [rev |-> rev, of |-> [server.of EXCEPT ![c.id] = rev]]
                    /\ sync' = [pc |-> "remove", change |-> c, todo |-> sync.todo \ {p},
                                record |-> [id |-> c.id, rev |-> rev]]
                    /\ owed' = owed \ {c}
             \/ sync' = Idle /\ UNCHANGED <<server, owed>>
    /\ UNCHANGED <<work, storeDisk, revisionLock, depositLock, call, applied, faults>>

\* complete_outgoing_sync: the change is removed, and a failure ignored ...
RemoveOutgoing ==
    /\ sync.pc = "remove"
    /\ \E o \in Outcomes :
          /\ out' = Landed(o, Drop(out, sync.change.rev), out)
          /\ Fault(o)
    /\ sync' = [pc |-> "state", record |-> sync.record, next |-> "push", todo |-> sync.todo]
    /\ UNCHANGED <<work, meta, deposit, swaps, in, state, revision, localRevision,
                   revisionLock, depositLock, call, server, owed, applied>>

\* ... write_sync_state, here and in update_record_from_incoming ...
WriteSyncState ==
    /\ sync.pc = "state"
    /\ \E o \in Outcomes :
          /\ state' = Landed(o, Put(state, record_id_key(sync.record.id), sync.record), state)
          /\ applied' = Landed(o, applied \cup {sync.record}, applied)
          /\ sync' = IF o # "ok" THEN Idle
                     ELSE [pc |-> "server", record |-> sync.record, next |-> sync.next,
                           todo |-> sync.todo]
          /\ Fault(o)
    /\ UNCHANGED <<work, meta, deposit, swaps, out, in, revision, localRevision,
                   revisionLock, depositLock, call, server, owed>>

\* update_server_revision: the larger of the two.
NewRevision(new) == IF new > revision THEN new ELSE revision

UpdateServerRevision ==
    /\ sync.pc = "server"
    /\ \E o \in Outcomes :
          /\ revision' = Landed(o, NewRevision(sync.record.rev), revision)
          /\ sync' = IF o # "ok" THEN Idle
                     ELSE IF sync.next = "push" THEN [pc |-> "push", todo |-> sync.todo]
                     ELSE [pc |-> "delete", record |-> sync.record, todo |-> sync.todo]
          /\ Fault(o)
    /\ UNCHANGED <<work, meta, deposit, swaps, out, in, state, localRevision,
                   revisionLock, depositLock, call, server, owed, applied>>

PhaseEnds ==
    /\ sync.pc \in {"push", "insert", "apply"} /\ sync.todo = {}
    /\ sync' = Idle
    /\ UNCHANGED <<work, storeDisk, revisionLock, depositLock, call, server, owed, applied, faults>>

\* External: another device changes a record; records newer than
\* get_last_revision are pulled.
OtherDevice ==
    /\ "sync" \in work /\ server.rev < MaxRevision
    /\ \E id \in RecordIds :
          server' = [rev |-> server.rev + 1, of |-> [server.of EXCEPT ![id] = server.rev + 1]]
    /\ UNCHANGED <<work, storeDisk, memory, owed, applied, faults>>

StartPull ==
    /\ "sync" \in work /\ sync.pc = "idle"
    /\ LET new == {[id |-> id, rev |-> server.of[id]] :
                      id \in {i \in RecordIds : server.of[i] > revision}}
       IN  sync' = [pc |-> "insert", todo |-> new]
    /\ UNCHANGED <<work, storeDisk, revisionLock, depositLock, call, server, owed, applied, faults>>

\* insert_incoming_records: one write per record.
InsertIncoming ==
    /\ sync.pc = "insert"
    /\ \E r \in sync.todo, o \in Outcomes :
          /\ \A q \in sync.todo : r.rev <= q.rev
          /\ in' = Landed(o, Put(in, incoming_record_key(r), r), in)
          /\ sync' = IF o = "ok" THEN [pc |-> "insert", todo |-> sync.todo \ {r}] ELSE Idle
          /\ Fault(o)
    /\ UNCHANGED <<work, meta, deposit, swaps, out, state, revision, localRevision,
                   revisionLock, depositLock, call, server, owed, applied>>

StartApply ==
    /\ "sync" \in work /\ sync.pc = "idle" /\ DOMAIN in # {}
    /\ \E limit \in Limits : sync' = [pc |-> "apply", todo |-> get_incoming_records(limit)]
    /\ UNCHANGED <<work, storeDisk, revisionLock, depositLock, call, server, owed, applied, faults>>

\* update_record_from_incoming: WriteSyncState and UpdateServerRevision ...
ApplyIncoming ==
    /\ sync.pc = "apply"
    /\ \E r \in sync.todo :
          /\ \A q \in sync.todo : r.rev <= q.rev
          /\ sync' = [pc |-> "state", record |-> r, next |-> "apply", todo |-> sync.todo \ {r}]
    /\ UNCHANGED <<work, storeDisk, revisionLock, depositLock, call, server, owed, applied, faults>>

\* ... then delete_incoming_record, which ignores a failure.
DeleteIncoming ==
    /\ sync.pc = "delete"
    /\ \E o \in Outcomes :
          /\ in' = Landed(o, Drop(in, incoming_record_key(sync.record)), in)
          /\ Fault(o)
    /\ sync' = [pc |-> "apply", todo |-> sync.todo]
    /\ UNCHANGED <<work, meta, deposit, swaps, out, state, revision, localRevision,
                   revisionLock, depositLock, call, server, owed, applied>>

-----------------------------------------------------------------------------
\* The process dies: calls and locks are gone, SparkStore::new starts afresh.
StoreCrash ==
    /\ faults < MaxFaults /\ faults' = faults + 1
    /\ revisionLock' = None /\ depositLock' = None
    /\ call' = [t \in Tasks |-> Idle]
    /\ sync' = Idle
    /\ UNCHANGED <<work, storeDisk, server, owed, applied>>

Sync == StartPush \/ Push \/ RemoveOutgoing \/ WriteSyncState \/ UpdateServerRevision
        \/ PhaseEnds \/ StartPull \/ InsertIncoming \/ StartApply \/ ApplyIncoming
        \/ DeleteIncoming

StoreNext ==
    \/ \E t \in Tasks :
          \/ ReadMetadata(t) \/ WriteMetadata(t)
          \/ ReadDeposit(t) \/ WriteDeposit(t) \/ DeleteDeposit(t)
          \/ SetSwap(t)
          \/ ReadLocalRevision(t) \/ WriteLocalRevision(t) \/ WriteChange(t)
    \/ Sync \/ OtherDevice \/ StoreCrash

StoreSpec == StoreInit /\ [][StoreNext]_storeVars

-----------------------------------------------------------------------------
\* Every variable has its type; a lock is held by the task in its section.
StoreTypeOK ==
    /\ meta \subseteq Fields
    /\ deposit \in DepositInfo \cup {None}
    /\ Range(in) \cup Range(state) \subseteq Record
    /\ revision \in 0..MaxRevision /\ localRevision \in 0..MaxChanges
    /\ \A t \in Tasks : /\ depositLock = t <=> call[t].pc = "deposit"
                        /\ revisionLock = t <=> call[t].pc = "revision"
    /\ faults \in 0..MaxFaults

\* A change for which add_outgoing_change returned Ok stays in the outgoing
\* queue, under its own local revision, until the server has taken it: no other
\* change gets its revision and replaces it, whatever tasks, failures and
\* restarts do (next_local_revision, complete_outgoing_sync).
NoChangeLost ==
    \A c \in owed : /\ c.rev \in DOMAIN out /\ out[c.rev] = c
                    /\ get_latest_outgoing_change.change.rev >= c.rev

\* Whatever is stored under the key of an id is the record, or the swap, of
\* that id: two ids never share a key (sync_record_key).
UnderOwnKey ==
    /\ \A id \in RecordIds : read_sync_state(id) # None => read_sync_state(id).id = id
    /\ \A s \in Swaps : get_cross_chain_swap(s) # None => get_cross_chain_swap(s).id = s
    /\ \A s \in Swaps : \A a \in list_active_cross_chain_swaps(s[1]) :
          get_cross_chain_swap(a.id) = a

\* What the server acknowledged of a record goes back to an older revision only
\* when an incoming record is applied a second time, or after it was already
\* known from a push, because a failure or a crash cut off the call that should
\* have removed it or advanced the revision; the order in which pushes, pulls
\* and get_incoming_records hand records out never does that.  The revision
\* pulled from never goes back (update_server_revision).
SyncNeverGoesBack ==
    [][/\ revision' >= revision
       /\ \A id \in RecordIds :
             \/ RevisionOf(read_sync_state(id)') >= RevisionOf(read_sync_state(id))
             \/ sync.record \in applied]_storeVars

\* Only deleting a deposit forgets its refund or its instant claim: no report of
\* another task that was under way writes them back to nothing (add_deposit,
\* update_deposit).
RefundsKept ==
    [][deposit # None /\ deposit' # None =>
          /\ deposit.refund # None => deposit'.refund # None
          /\ deposit.instant => deposit'.instant]_storeVars

=============================================================================
