------------------------------ MODULE ProofStore ------------------------------
(***************************************************************************)
(* The proof store of the Cashu wallet (`CashuKvDatabase`): the whole set  *)
(* of proofs is one value of the KV store, cached in memory.  Writers work *)
(* under proofs_mutation_lock; readers use the cache without the lock      *)
(* unless proofs_cache_needs_reload says that a write is under way or did  *)
(* not report back.                                                        *)
(***************************************************************************)
EXTENDS ProofOps

CONSTANTS
    Tasks,     \* tasks that call into the database concurrently
    None       \* a step that returns no proofs

ASSUME TaskAssumption == None \notin Tasks /\ None \notin Ledger

VARIABLES
    disk,      \* the proofs blob in the KV store
    cache,     \* proofs_cache
    reload,    \* proofs_cache_needs_reload
    index,     \* PROOF_RESERVATIONS in the KV store
    lock,      \* proofs_mutation_lock: its holder, or None
    pc,        \* per task, where in its call it is
    req,       \* per task, what it was called with
    target,    \* the proofs the holder of the lock is writing
    out        \* what the last step returned

vars == <<disk, cache, reload, index, lock, pc, req, target, out>>

InLock == {"locked", "ready", "write", "commit", "clear"}

\* Every variable has its type, and proofs_mutation_lock is held by exactly the
\* task that is between taking it and returning (update_proofs, reserve_proofs,
\* release_proofs, read_proofs).
TypeOK ==
    /\ disk \in Ledger /\ cache \in Ledger
    /\ reload \in BOOLEAN
    /\ index \in Index
    /\ lock \in Tasks \cup {None}
    /\ pc \in [Tasks -> {"idle", "peek", "wait"} \cup InLock]
    /\ req \in [Tasks -> Requests]
    /\ target \in Ledger
    /\ out \in Ledger \cup {None}
    /\ \A t \in Tasks : lock = t <=> pc[t] \in InLock

Nothing == [y \in Ys |-> Absent]

\* An empty store, or one left by version 0.16 with reservations in its index.
Init ==
    /\ index \in {ix \in Index : \A a, b \in Ops : a # b => ix[a] \cap ix[b] = {}}
    /\ disk = [y \in Ys |-> IF \E o \in Ops : y \in index[o]
                            THEN [st |-> "Reserved", owner |-> NoOp, idx |-> FALSE]
                            ELSE Absent]
    /\ cache = disk /\ reload = FALSE
    /\ lock = None
    /\ pc = [t \in Tasks |-> "idle"]
    /\ req = [t \in Tasks |-> ReadAll]
    /\ target = Nothing
    /\ out = None

-----------------------------------------------------------------------------
Goto(t, l) == pc' = [pc EXCEPT ![t] = l]

\* The call of t returns and drops the lock if it holds it.
Return(t) ==
    /\ Goto(t, "idle")
    /\ req' = [req EXCEPT ![t] = ReadAll]
    /\ target' = IF lock = t THEN Nothing ELSE target
    /\ lock' = IF lock = t THEN None ELSE lock

\* get_proofs and get_balance look at the cache first, all else takes the lock.
Call(t, r) ==
    /\ pc[t] = "idle"
    /\ Goto(t, IF r = ReadAll THEN "peek" ELSE "wait")
    /\ req' = [req EXCEPT ![t] = r]
    /\ out' = None
    /\ UNCHANGED <<disk, cache, reload, index, lock, target>>

\* Mutant: the cache is used whatever the flag says.
PeekAnyway(t) ==
    /\ pc[t] = "peek"
    /\ out' = cache
    /\ Goto(t, "idle")
    /\ UNCHANGED <<disk, cache, reload, index, lock, req, target>>

\* read_proofs without the lock: the flag is read while the cache is.
Peek(t) ==
    /\ pc[t] = "peek"
    /\ IF reload THEN Goto(t, "wait") /\ out' = None
                 ELSE Goto(t, "idle") /\ out' = cache
    /\ UNCHANGED <<disk, cache, reload, index, lock, req, target>>

Lock(t) ==
    /\ pc[t] = "wait" /\ lock = None
    /\ lock' = t
    /\ Goto(t, "locked")
    /\ out' = None
    /\ UNCHANGED <<disk, cache, reload, index, req, target>>

\* reload_uncertain_proofs.
ReloadUncertain(t) ==
    /\ pc[t] = "locked"
    /\ cache' = IF reload THEN disk ELSE cache
    /\ reload' = FALSE
    /\ Goto(t, "ready")
    /\ out' = None
    /\ UNCHANGED <<disk, index, lock, req, target>>

\* A read under the lock returns.
ReadLocked(t) ==
    /\ pc[t] = "ready" /\ ~Mutation(req[t])
    /\ out' = View(req[t], cache, index)
    /\ Return(t)
    /\ UNCHANGED <<disk, cache, reload, index>>

\* A mutation that is refused, or that changes nothing and need not be written
\* (update_proofs and update_proofs_state only), returns.
Refuse(t) ==
    /\ pc[t] = "ready" /\ Mutation(req[t])
    /\ \/ ~Allowed(req[t], cache, index)
       \/ /\ req[t].kind \in {"update", "state"}
          /\ Apply(req[t], cache, index) = cache
    /\ out' = None
    /\ Return(t)
    /\ UNCHANGED <<disk, cache, reload, index>>

\* The mutation of t is to be written.  update_proofs compares vectors: one
\* that only moves a proof to the end is written as well.
Mutates(t) ==
    /\ pc[t] = "ready" /\ Mutation(req[t])
    /\ Allowed(req[t], cache, index)
    /\ req[t].kind = "state" => Apply(req[t], cache, index) # cache
    /\ target' = Apply(req[t], cache, index)
    /\ Goto(t, "write")
    /\ out' = None

\* persist_proofs up to its KV write: distrust the cache, then write.
PersistProofs(t) ==
    /\ Mutates(t)
    /\ reload' = TRUE
    /\ UNCHANGED <<disk, cache, index, lock, req>>

\* The KV write lands, whether or not t will learn of it.
Land(t) ==
    /\ pc[t] = "write"
    /\ disk' = target
    /\ Goto(t, "commit")
    /\ out' = None
    /\ UNCHANGED <<cache, reload, index, lock, req, target>>

\* The write has succeeded: the cache is replaced and trusted again.
Commit(t) ==
    /\ pc[t] = "commit"
    /\ cache' = target /\ reload' = FALSE
    /\ out' = None
    /\ \/ /\ req[t].kind = "release"
          /\ Goto(t, "clear")
          /\ target' = Nothing
          /\ UNCHANGED <<lock, req>>
       \/ req[t].kind # "release" /\ Return(t)
    /\ UNCHANGED <<disk, index>>

\* release_proofs also removes the old index of its operation.
RemoveIndex(t) ==
    /\ pc[t] = "clear"
    /\ index' = [index EXCEPT ![req[t].o] = {}]
    /\ out' = None
    /\ Return(t)
    /\ UNCHANGED <<disk, cache, reload>>

\* Mutant: a call that fails forgets to drop the lock.
AbortLocked(t) ==
    /\ pc[t] # "idle"
    /\ out' = None
    /\ Goto(t, "idle")
    /\ req' = [req EXCEPT ![t] = ReadAll]
    /\ UNCHANGED <<disk, cache, reload, index, lock, target>>

\* The call fails or is cancelled at one of its awaits: the lock, the read that
\* reloads, the read of the index, the write (before or after it landed), the
\* removal of the index.
Abort(t) ==
    /\ pc[t] # "idle"
    /\ out' = None
    /\ Return(t)
    /\ UNCHANGED <<disk, cache, reload, index>>

\* The process restarts: CashuKvDatabase::new loads the cache.
Restart ==
    /\ cache' = disk /\ reload' = FALSE
    /\ lock' = None
    /\ pc' = [t \in Tasks |-> "idle"]
    /\ req' = [t \in Tasks |-> ReadAll]
    /\ target' = Nothing
    /\ out' = None
    /\ UNCHANGED <<disk, index>>

Step(t) ==
    \/ Peek(t) \/ Lock(t) \/ ReloadUncertain(t) \/ ReadLocked(t) \/ Refuse(t)
    \/ PersistProofs(t) \/ Land(t) \/ Commit(t) \/ RemoveIndex(t)

Next ==
    \/ \E t \in Tasks : Step(t) \/ Abort(t) \/ \E r \in Requests : Call(t, r)
    \/ Restart

Spec == Init /\ [][Next]_vars

\* Every task that can run is polled; the mutex is handed out in FIFO order.
FairSpec == Spec /\ \A t \in Tasks : SF_vars(Step(t))

-----------------------------------------------------------------------------
\* A cache that readers trust is what is on disk, through failed, cancelled
\* and unacknowledged writes (proofs_cache_needs_reload).
CacheCoherent == ~reload => cache = disk

\* A writer is about to replace exactly the proofs it computed its update
\* from: no update of another task is lost (proofs_mutation_lock).
NoLostUpdate ==
    \A t \in Tasks : pc[t] = "write" =>
        Allowed(req[t], disk, index) /\ target = Apply(req[t], disk, index)

\* The old index of o reserves nothing any more.
IndexDone(o) ==
    \A y \in index[o] : disk[y] # Absent /\ disk[y].owner = NoOp =>
        disk[y].st \notin {"Reserved", "Pending"}

\* What each place in a call knows: a call in its critical section works on a
\* trusted cache, a write under way is announced, and release_proofs reaches
\* the old index only after the release is on disk.
CallState ==
    \A t \in Tasks :
        /\ pc[t] = "peek" => req[t] = ReadAll
        /\ pc[t] \in {"ready", "clear"} => reload = FALSE
        /\ pc[t] \in {"write", "commit"} => reload = TRUE /\ Mutation(req[t])
        /\ pc[t] = "commit" => disk = target
        /\ pc[t] = "clear" => req[t].kind = "release"
        /\ pc[t] \in {"commit", "clear"} /\ req[t].kind = "release" =>
               IndexDone(req[t].o)

\* The inductive invariant of the proofs: cache, disk and announced writes fit
\* together at every await of the database's calls.
StoreInv == TypeOK /\ CacheCoherent /\ NoLostUpdate /\ CallState

\* Operation o holds a reservation of y, by ownership or through the old index.
Holds(o, y) ==
    /\ disk[y] # Absent
    /\ \/ disk[y].owner = o
       \/ disk[y].owner = NoOp /\ disk[y].st = "Reserved" /\ y \in index[o]

\* The write of r may end what o holds of y: r replaces the proof by one with an
\* owner of its own, releases o, or changes the state of a proof that only the
\* old index reserves.
Ends(r, o, y, owner) ==
    \/ r.kind = "update" /\ r.added[y] # Absent /\ owner = r.added[y].owner
    \/ owner = NoOp /\ (r.kind = "state" \/ (r.kind = "release" /\ r.o = o))

\* A reservation never passes to another operation, and ends only by its own
\* release, by an update that replaces the proof or, as long as it is only in
\* the old index, by a change of the proof's state (reserve_proofs).
NoStolenReservation ==
    [][ \A o \in Ops, y \in Ys : Holds(o, y) /\ disk'[y] # Absent =>
          \/ disk'[y].owner = o
          \/ disk'[y].owner = NoOp /\ disk[y].owner = NoOp /\ disk'[y].st = disk[y].st
          \/ \E t \in Tasks : pc[t] = "write" /\ Ends(req[t], o, y, disk'[y].owner)
      ]_vars

\* Every call into the database returns, or is cancelled.
CallsReturn == \A t \in Tasks : pc[t] # "idle" ~> pc[t] = "idle"

\* The store behaves as one ledger with atomic mutations and current reads.
Atomic == INSTANCE ProofLedger WITH proofs <- disk
AtomicLedger == Atomic!Spec
=============================================================================
