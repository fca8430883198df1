--------------------------- MODULE ProofStoreProofs ---------------------------
(***************************************************************************)
(* TLAPS proofs about ProofStore, for any proofs, operations, requests and *)
(* tasks: the cache is coherent, no update is lost, and the store is the   *)
(* atomic ledger of ProofLedger.                                           *)
(***************************************************************************)
EXTENDS ProofStore, TLAPS

(***************************************************************************)
(* What the operations of ProofOps return.                                 *)
(***************************************************************************)

\* Which fields a request has.
LEMMA RequestFields ==
  ASSUME NEW r \in Requests
  PROVE  /\ r.kind \in {"update", "state", "reserve", "release", "reserved", "read"}
         /\ r.kind = "update" => r.added \in Ledger /\ r.removed \in SUBSET Ys
         /\ r.kind = "state" => r.ys \in SUBSET Ys /\ r.st \in States
         /\ r.kind = "reserve" => r.ys \in SUBSET Ys /\ r.o \in Ops
         /\ r.kind \in {"release", "reserved"} => r.o \in Ops
         /\ r.kind = "read" => r = ReadAll
  <1> r \in Request
    BY ProofAssumption
  <1> QED
    BY DEF Request, ReadAll

\* A mutation turns a ledger into a ledger.
LEMMA ApplyType ==
  ASSUME NEW r \in Requests, NEW p \in Ledger, NEW ix \in Index
  PROVE  Apply(r, p, ix) \in Ledger
  <1> USE DEF Ledger, Proof, States
  <1>1. CASE r.kind = "update"
    <2>1. r.added \in Ledger
      BY <1>1, RequestFields
    <2>2. UpdateProofs(p, r) \in Ledger
      BY <2>1 DEF UpdateProofs
    <2> QED
      BY <1>1, <2>2 DEF Apply
  <1>2. CASE r.kind = "state"
    <2>1. r.st \in States
      BY <1>2, RequestFields
    <2>2. UpdateProofsState(p, r.ys, r.st) \in Ledger
      BY <2>1 DEF UpdateProofsState
    <2> QED
      BY <1>2, <2>2 DEF Apply
  <1>3. CASE r.kind = "reserve"
    <2>1. r.o \in Ops
      BY <1>3, RequestFields
    <2>2. ReserveProofs(p, r.ys, r.o) \in Ledger
      BY <2>1 DEF ReserveProofs
    <2> QED
      BY <1>3, <2>2 DEF Apply
  <1>4. CASE r.kind = "release"
    <2>1. ReleaseProofs(p, ix, r.o) \in Ledger
      BY DEF ReleaseProofs, ReservedProofs
    <2> QED
      BY <1>4, <2>1 DEF Apply
  <1>5. CASE r.kind \notin {"update", "state", "reserve", "release"}
    BY <1>5 DEF Apply
  <1> QED
    BY <1>1, <1>2, <1>3, <1>4, <1>5

\* A read returns a ledger.
LEMMA ViewType ==
  ASSUME NEW r, NEW p \in Ledger, NEW ix
  PROVE  View(r, p, ix) \in Ledger
  BY DEF View, Ledger, ReservedProofs

\* The empty ledger is a ledger.
LEMMA NothingType == Nothing \in Ledger
  BY DEF Nothing, Ledger

-----------------------------------------------------------------------------
\* A store that was just opened is well typed.
LEMMA InitType == Init => TypeOK
  <1> SUFFICES ASSUME Init PROVE TypeOK
    OBVIOUS
  <1>1. [st |-> "Reserved", owner |-> NoOp, idx |-> FALSE] \in Proof
    BY DEF Proof, States
  <1>2. disk \in Ledger /\ index \in Index
    BY <1>1 DEF Init, Ledger
  <1>3. pc \in [Tasks -> {"idle"}] /\ req \in [Tasks -> Requests]
    BY ProofAssumption DEF Init
  <1>4. \A t \in Tasks : lock # t /\ pc[t] \notin InLock
    BY TaskAssumption DEF Init, InLock
  <1>5. pc \in [Tasks -> {"idle", "peek", "wait"} \cup InLock]
    BY <1>3
  <1> QED
    BY <1>2, <1>3, <1>4, <1>5, NothingType DEF Init, TypeOK

\* Returning keeps the types of what it changes and gives up the lock.
LEMMA ReturnType ==
  ASSUME TypeOK, NEW t \in Tasks, Return(t)
  PROVE  /\ pc' \in [Tasks -> {"idle", "peek", "wait"} \cup InLock]
         /\ req' \in [Tasks -> Requests] /\ target' \in Ledger
         /\ lock' \in Tasks \cup {None}
         /\ \A u \in Tasks : lock' = u <=> pc'[u] \in InLock
  <1>1. pc' \in [Tasks -> {"idle", "peek", "wait"} \cup InLock] /\ req' \in [Tasks -> Requests]
    BY ProofAssumption DEF Return, Goto, TypeOK
  <1>2. target' \in Ledger /\ lock' \in Tasks \cup {None}
    BY NothingType DEF Return, TypeOK
  <1>3. ASSUME NEW u \in Tasks PROVE lock' = u <=> pc'[u] \in InLock
    BY TaskAssumption DEF Return, Goto, TypeOK, InLock
  <1> QED
    BY <1>1, <1>2, <1>3

\* Every step keeps the types and the ownership of the mutation lock.
LEMMA NextType ==
  ASSUME TypeOK, [Next]_vars
  PROVE  TypeOK'
  <1>1. ASSUME NEW t \in Tasks, Peek(t) PROVE TypeOK'
    BY <1>1, TaskAssumption DEF Peek, Goto, TypeOK, InLock
  <1>2. ASSUME NEW t \in Tasks, Lock(t) PROVE TypeOK'
    BY <1>2, TaskAssumption DEF Lock, Goto, TypeOK, InLock
  <1>3. ASSUME NEW t \in Tasks, ReloadUncertain(t) PROVE TypeOK'
    BY <1>3, TaskAssumption DEF ReloadUncertain, Goto, TypeOK, InLock
  <1>4. ASSUME NEW t \in Tasks, ReadLocked(t) PROVE TypeOK'
    <2>1. /\ pc' \in [Tasks -> {"idle", "peek", "wait"} \cup InLock]
          /\ req' \in [Tasks -> Requests] /\ target' \in Ledger
          /\ lock' \in Tasks \cup {None}
          /\ \A u \in Tasks : lock' = u <=> pc'[u] \in InLock
      BY <1>4, ReturnType DEF ReadLocked
    <2> QED
      BY <1>4, <2>1, ViewType DEF ReadLocked, TypeOK
  <1>5. ASSUME NEW t \in Tasks, Refuse(t) PROVE TypeOK'
    <2>1. /\ pc' \in [Tasks -> {"idle", "peek", "wait"} \cup InLock]
          /\ req' \in [Tasks -> Requests] /\ target' \in Ledger
          /\ lock' \in Tasks \cup {None}
          /\ \A u \in Tasks : lock' = u <=> pc'[u] \in InLock
      BY <1>5, ReturnType DEF Refuse
    <2> QED
      BY <1>5, <2>1 DEF Refuse, TypeOK
  <1>6. ASSUME NEW t \in Tasks, PersistProofs(t) PROVE TypeOK'
    <2>1. Apply(req[t], cache, index) \in Ledger
      BY ApplyType DEF TypeOK
    <2> QED
      BY <1>6, <2>1 DEF PersistProofs, Mutates, Goto, TypeOK, InLock
  <1>7. ASSUME NEW t \in Tasks, Land(t) PROVE TypeOK'
    BY <1>7, TaskAssumption DEF Land, Goto, TypeOK, InLock
  <1>8. ASSUME NEW t \in Tasks, Commit(t) PROVE TypeOK'
    <2>1. CASE req[t].kind = "release"
      BY <1>8, <2>1, NothingType DEF Commit, Goto, TypeOK, InLock
    <2>2. CASE req[t].kind # "release"
      <3>1. /\ pc' \in [Tasks -> {"idle", "peek", "wait"} \cup InLock]
            /\ req' \in [Tasks -> Requests] /\ target' \in Ledger
            /\ lock' \in Tasks \cup {None}
            /\ \A u \in Tasks : lock' = u <=> pc'[u] \in InLock
        BY <1>8, <2>2, ReturnType DEF Commit
      <3> QED
        BY <1>8, <3>1 DEF Commit, TypeOK
    <2> QED
      BY <2>1, <2>2
  <1>9. ASSUME NEW t \in Tasks, RemoveIndex(t) PROVE TypeOK'
    <2>1. /\ pc' \in [Tasks -> {"idle", "peek", "wait"} \cup InLock]
          /\ req' \in [Tasks -> Requests] /\ target' \in Ledger
          /\ lock' \in Tasks \cup {None}
          /\ \A u \in Tasks : lock' = u <=> pc'[u] \in InLock
      BY <1>9, ReturnType DEF RemoveIndex
    <2>2. index' \in Index
      BY <1>9 DEF RemoveIndex, TypeOK, Index
    <2> QED
      BY <1>9, <2>1, <2>2 DEF RemoveIndex, TypeOK
  <1>10. ASSUME NEW t \in Tasks, Abort(t) PROVE TypeOK'
    <2>1. /\ pc' \in [Tasks -> {"idle", "peek", "wait"} \cup InLock]
          /\ req' \in [Tasks -> Requests] /\ target' \in Ledger
          /\ lock' \in Tasks \cup {None}
          /\ \A u \in Tasks : lock' = u <=> pc'[u] \in InLock
      BY <1>10, ReturnType DEF Abort
    <2> QED
      BY <1>10, <2>1 DEF Abort, TypeOK
  <1>11. ASSUME NEW t \in Tasks, NEW r \in Requests, Call(t, r) PROVE TypeOK'
    BY <1>11 DEF Call, Goto, TypeOK, InLock
  <1>12. CASE Restart
    <2>1. pc' \in [Tasks -> {"idle"}] /\ req' \in [Tasks -> Requests]
      BY <1>12, ProofAssumption DEF Restart
    <2>2. \A u \in Tasks : lock' # u /\ pc'[u] \notin InLock
      BY <1>12, TaskAssumption DEF Restart, InLock
    <2>3. pc' \in [Tasks -> {"idle", "peek", "wait"} \cup InLock]
      BY <2>1
    <2> QED
      BY <1>12, <2>1, <2>2, <2>3, NothingType DEF Restart, TypeOK
  <1>13. CASE UNCHANGED vars
    BY <1>13 DEF vars, TypeOK
  <1> QED
    BY <1>1, <1>2, <1>3, <1>4, <1>5, <1>6, <1>7, <1>8, <1>9, <1>10, <1>11, <1>12, <1>13
       DEF Next, Step

\* Every reachable state is well typed and proofs_mutation_lock is held by the
\* task inside its critical section, and by no other.
THEOREM StoreTyping == Spec => []TypeOK
  BY InitType, NextType, PTL DEF Spec

-----------------------------------------------------------------------------
(***************************************************************************)
(* The invariant.                                                          *)
(***************************************************************************)

\* At most one task is inside the critical section.
LEMMA OneInLock ==
  ASSUME TypeOK, NEW t \in Tasks, NEW u \in Tasks,
         pc[t] \in InLock, pc[u] \in InLock
  PROVE  t = u
  BY DEF TypeOK

\* After a release, the old index of its operation reserves nothing.
LEMMA ReleaseDone ==
  ASSUME NEW p \in Ledger, NEW ix \in Index, NEW o \in Ops, NEW y \in ix[o],
         ReleaseProofs(p, ix, o)[y] # Absent,
         ReleaseProofs(p, ix, o)[y].owner = NoOp
  PROVE  ReleaseProofs(p, ix, o)[y].st \notin {"Reserved", "Pending"}
  <1>1. y \in Ys
    BY DEF Index
  <1>2. CASE y \in ReservedProofs(p, ix, o) /\ p[y].st \in {"Reserved", "Pending"}
    <2>1. p[y] \in Proof
      BY <1>1, <1>2 DEF ReservedProofs, Ledger
    <2>2. ReleaseProofs(p, ix, o)[y] = [p[y] EXCEPT !.st = "Unspent", !.owner = NoOp]
      BY <1>1, <1>2 DEF ReleaseProofs
    <2> QED
      BY <2>1, <2>2 DEF Proof
  <1>3. CASE ~(y \in ReservedProofs(p, ix, o) /\ p[y].st \in {"Reserved", "Pending"})
    <2>1. ReleaseProofs(p, ix, o)[y] = p[y]
      BY <1>1, <1>3 DEF ReleaseProofs
    <2> QED
      BY <1>1, <1>3, <2>1 DEF ReservedProofs
  <1> QED
    BY <1>2, <1>3

\* The trusted cache stays equal to the disk.
LEMMA CoherentStep ==
  ASSUME TypeOK, CacheCoherent, CallState, [Next]_vars
  PROVE  CacheCoherent'
  <1>1. ASSUME NEW t \in Tasks, Peek(t) PROVE CacheCoherent'
    BY <1>1 DEF Peek, CacheCoherent, TypeOK
  <1>2. ASSUME NEW t \in Tasks, Lock(t) PROVE CacheCoherent'
    BY <1>2 DEF Lock, CacheCoherent, TypeOK
  <1>3. ASSUME NEW t \in Tasks, ReloadUncertain(t) PROVE CacheCoherent'
    BY <1>3 DEF ReloadUncertain, CacheCoherent, TypeOK
  <1>4. ASSUME NEW t \in Tasks, ReadLocked(t) PROVE CacheCoherent'
    BY <1>4 DEF ReadLocked, CacheCoherent, TypeOK
  <1>5. ASSUME NEW t \in Tasks, Refuse(t) PROVE CacheCoherent'
    BY <1>5 DEF Refuse, CacheCoherent, TypeOK
  <1>6. ASSUME NEW t \in Tasks, PersistProofs(t) PROVE CacheCoherent'
    BY <1>6 DEF PersistProofs, CacheCoherent, TypeOK
  <1>7. ASSUME NEW t \in Tasks, Land(t) PROVE CacheCoherent'
    <2>1. reload = TRUE /\ reload' = reload
      BY <1>7 DEF Land, CallState
    <2> QED
      BY <2>1 DEF CacheCoherent
  <1>8. ASSUME NEW t \in Tasks, Commit(t) PROVE CacheCoherent'
    <2>1. disk = target /\ cache' = target /\ disk' = disk
      BY <1>8 DEF Commit, CallState
    <2> QED
      BY <2>1 DEF CacheCoherent
  <1>9. ASSUME NEW t \in Tasks, RemoveIndex(t) PROVE CacheCoherent'
    BY <1>9 DEF RemoveIndex, CacheCoherent, TypeOK
  <1>10. ASSUME NEW t \in Tasks, Abort(t) PROVE CacheCoherent'
    BY <1>10 DEF Abort, CacheCoherent, TypeOK
  <1>11. ASSUME NEW t \in Tasks, NEW r \in Requests, Call(t, r) PROVE CacheCoherent'
    BY <1>11 DEF Call, CacheCoherent, TypeOK
  <1>12. CASE Restart
    BY <1>12 DEF Restart, CacheCoherent, TypeOK
  <1>13. CASE UNCHANGED vars
    BY <1>13 DEF vars, CacheCoherent
  <1> QED
    BY <1>1, <1>2, <1>3, <1>4, <1>5, <1>6, <1>7, <1>8, <1>9, <1>10, <1>11, <1>12, <1>13
       DEF Next, Step

\* What a writer is writing stays computed from what is on disk.
LEMMA LostUpdateStep ==
  ASSUME TypeOK, CacheCoherent, CallState, NoLostUpdate, [Next]_vars
  PROVE  NoLostUpdate'
  <1>1. ASSUME NEW t \in Tasks, Peek(t) PROVE NoLostUpdate'
    BY <1>1, TaskAssumption DEF Peek, Goto, NoLostUpdate, TypeOK, InLock
  <1>2. ASSUME NEW t \in Tasks, Lock(t) PROVE NoLostUpdate'
    BY <1>2, TaskAssumption DEF Lock, Goto, NoLostUpdate, TypeOK, InLock
  <1>3. ASSUME NEW t \in Tasks, ReloadUncertain(t) PROVE NoLostUpdate'
    <2>1. \A u \in Tasks : pc'[u] # "write"
      BY <1>3, OneInLock DEF ReloadUncertain, Goto, TypeOK, InLock
    <2> QED
      BY <2>1 DEF NoLostUpdate
  <1>4. ASSUME NEW t \in Tasks, ReadLocked(t) PROVE NoLostUpdate'
    <2>1. \A u \in Tasks : pc'[u] # "write"
      BY <1>4, OneInLock DEF ReadLocked, Return, Goto, TypeOK, InLock
    <2> QED
      BY <2>1 DEF NoLostUpdate
  <1>5. ASSUME NEW t \in Tasks, Refuse(t) PROVE NoLostUpdate'
    <2>1. \A u \in Tasks : pc'[u] # "write"
      BY <1>5, OneInLock DEF Refuse, Return, Goto, TypeOK, InLock
    <2> QED
      BY <2>1 DEF NoLostUpdate
  <1>6. ASSUME NEW t \in Tasks, PersistProofs(t) PROVE NoLostUpdate'
    <2>1. cache = disk
      BY <1>6 DEF PersistProofs, Mutates, CallState, CacheCoherent
    <2>2. /\ target' = Apply(req[t], disk, index) /\ Allowed(req[t], disk, index)
          /\ UNCHANGED <<disk, index, req>> /\ pc' = [pc EXCEPT ![t] = "write"]
          /\ pc[t] = "ready"
      BY <1>6, <2>1 DEF PersistProofs, Mutates, Goto
    <2>3. \A u \in Tasks : pc'[u] = "write" => u = t
      BY <2>2, OneInLock DEF TypeOK, InLock
    <2> QED
      BY <2>2, <2>3 DEF NoLostUpdate
  <1>7. ASSUME NEW t \in Tasks, Land(t) PROVE NoLostUpdate'
    <2>1. \A u \in Tasks : pc'[u] # "write"
      BY <1>7, OneInLock DEF Land, Goto, TypeOK, InLock
    <2> QED
      BY <2>1 DEF NoLostUpdate
  <1>8. ASSUME NEW t \in Tasks, Commit(t) PROVE NoLostUpdate'
    <2>1. \A u \in Tasks : pc'[u] # "write"
      BY <1>8, OneInLock DEF Commit, Return, Goto, TypeOK, InLock
    <2> QED
      BY <2>1 DEF NoLostUpdate
  <1>9. ASSUME NEW t \in Tasks, RemoveIndex(t) PROVE NoLostUpdate'
    <2>1. \A u \in Tasks : pc'[u] # "write"
      BY <1>9, OneInLock DEF RemoveIndex, Return, Goto, TypeOK, InLock
    <2> QED
      BY <2>1 DEF NoLostUpdate
  <1>10. ASSUME NEW t \in Tasks, Abort(t) PROVE NoLostUpdate'
    <2>1. CASE lock = t
      <3>1. \A u \in Tasks : pc'[u] # "write"
        BY <1>10, <2>1, OneInLock DEF Abort, Return, Goto, TypeOK, InLock
      <3> QED
        BY <3>1 DEF NoLostUpdate
    <2>2. CASE lock # t
      BY <1>10, <2>2 DEF Abort, Return, Goto, NoLostUpdate, TypeOK
    <2> QED
      BY <2>1, <2>2
  <1>11. ASSUME NEW t \in Tasks, NEW r \in Requests, Call(t, r) PROVE NoLostUpdate'
    BY <1>11, TaskAssumption DEF Call, Goto, NoLostUpdate, TypeOK, InLock
  <1>12. CASE Restart
    BY <1>12, TaskAssumption DEF Restart, NoLostUpdate, TypeOK, InLock
  <1>13. CASE UNCHANGED vars
    BY <1>13 DEF vars, NoLostUpdate
  <1> QED
    BY <1>1, <1>2, <1>3, <1>4, <1>5, <1>6, <1>7, <1>8, <1>9, <1>10, <1>11, <1>12, <1>13
       DEF Next, Step

\* The part of CallState that is about one task.
CallOf(t) ==
    /\ pc[t] = "peek" => req[t] = ReadAll
    /\ pc[t] \in {"ready", "clear"} => reload = FALSE
    /\ pc[t] \in {"write", "commit"} => reload = TRUE /\ Mutation(req[t])
    /\ pc[t] = "commit" => disk = target
    /\ pc[t] = "clear" => req[t].kind = "release"
    /\ pc[t] \in {"commit", "clear"} /\ req[t].kind = "release" => IndexDone(req[t].o)

\* A step of the task that holds the lock, or is about to give it up, leaves
\* what the other tasks know alone.
LEMMA OthersOutside ==
  ASSUME TypeOK, CallState, NEW t \in Tasks, pc[t] \in InLock,
         NEW u \in Tasks, u # t, pc'[u] = pc[u], req'[u] = req[u]
  PROVE  CallOf(u)'
  <1>1. pc[u] \notin InLock
    BY OneInLock
  <1> QED
    BY <1>1 DEF CallOf, CallState, InLock

\* A task outside the critical section knows little.
LEMMA Outside ==
  ASSUME NEW u \in Tasks, pc[u] \notin InLock, pc[u] = "peek" => req[u] = ReadAll
  PROVE  CallOf(u)
  BY DEF CallOf, InLock

\* Every step keeps what each place in a call knows.
LEMMA CallStep ==
  ASSUME TypeOK, CallState, NoLostUpdate, [Next]_vars
  PROVE  CallState'
  <1>1. ASSUME NEW t \in Tasks, Peek(t) PROVE CallState'
    <2>1. UNCHANGED <<disk, reload, index>>
      BY <1>1 DEF Peek
    <2>2. ASSUME NEW u \in Tasks, u # t PROVE CallOf(u)'
      BY <1>1, <2>1, <2>2 DEF Peek, Goto, TypeOK, CallState, CallOf, IndexDone
    <2>3. CallOf(t)'
      BY <1>1 DEF Peek, Goto, TypeOK, CallState, CallOf
    <2> QED
      BY <2>2, <2>3 DEF CallState, CallOf
  <1>2. ASSUME NEW t \in Tasks, Lock(t) PROVE CallState'
    <2>1. UNCHANGED <<disk, reload, index>>
      BY <1>2 DEF Lock
    <2>2. ASSUME NEW u \in Tasks, u # t PROVE CallOf(u)'
      BY <1>2, <2>1, <2>2 DEF Lock, Goto, TypeOK, CallState, CallOf, IndexDone
    <2>3. CallOf(t)'
      BY <1>2 DEF Lock, Goto, TypeOK, CallState, CallOf
    <2> QED
      BY <2>2, <2>3 DEF CallState, CallOf
  <1>3. ASSUME NEW t \in Tasks, ReloadUncertain(t) PROVE CallState'
    <2>1. ASSUME NEW u \in Tasks, u # t PROVE CallOf(u)'
      BY <1>3, <2>1, OthersOutside DEF ReloadUncertain, Goto, TypeOK, InLock
    <2>2. CallOf(t)'
      BY <1>3 DEF ReloadUncertain, Goto, CallOf, TypeOK
    <2> QED
      BY <2>1, <2>2 DEF CallState, CallOf
  <1>4. ASSUME NEW t \in Tasks, ReadLocked(t) PROVE CallState'
    <2>1. ASSUME NEW u \in Tasks, u # t PROVE CallOf(u)'
      BY <1>4, <2>1, OthersOutside DEF ReadLocked, Return, Goto, TypeOK, InLock
    <2>2. CallOf(t)'
      BY <1>4 DEF ReadLocked, Return, Goto, CallOf, TypeOK
    <2> QED
      BY <2>1, <2>2 DEF CallState, CallOf
  <1>5. ASSUME NEW t \in Tasks, Refuse(t) PROVE CallState'
    <2>1. ASSUME NEW u \in Tasks, u # t PROVE CallOf(u)'
      BY <1>5, <2>1, OthersOutside DEF Refuse, Return, Goto, TypeOK, InLock
    <2>2. CallOf(t)'
      BY <1>5 DEF Refuse, Return, Goto, CallOf, TypeOK
    <2> QED
      BY <2>1, <2>2 DEF CallState, CallOf
  <1>6. ASSUME NEW t \in Tasks, PersistProofs(t) PROVE CallState'
    <2>1. ASSUME NEW u \in Tasks, u # t PROVE CallOf(u)'
      BY <1>6, <2>1, OthersOutside DEF PersistProofs, Mutates, Goto, TypeOK, InLock
    <2>2. CallOf(t)'
      BY <1>6 DEF PersistProofs, Mutates, Goto, CallOf, TypeOK
    <2> QED
      BY <2>1, <2>2 DEF CallState, CallOf
  <1>7. ASSUME NEW t \in Tasks, Land(t) PROVE CallState'
    <2>1. ASSUME NEW u \in Tasks, u # t PROVE CallOf(u)'
      BY <1>7, <2>1, OthersOutside DEF Land, Goto, TypeOK, InLock
    <2>2. CallOf(t)'
      <3>1. /\ pc'[t] = "commit" /\ disk' = target /\ UNCHANGED <<reload, req, index, target>>
            /\ pc[t] = "write"
        BY <1>7 DEF Land, Goto, TypeOK
      <3>2. reload = TRUE /\ Mutation(req[t])
        BY <3>1 DEF CallState
      <3>3. ASSUME req[t].kind = "release" PROVE IndexDone(req[t].o)'
        <4>1. req[t].o \in Ops
          BY <3>3, RequestFields DEF TypeOK
        <4>2. disk' = ReleaseProofs(disk, index, req[t].o)
          BY <3>1, <3>3 DEF NoLostUpdate, Apply
        <4> QED
          BY <3>1, <4>1, <4>2, ReleaseDone DEF IndexDone, TypeOK
      <3> QED
        BY <3>1, <3>2, <3>3 DEF CallOf
    <2> QED
      BY <2>1, <2>2 DEF CallState, CallOf
  <1>8. ASSUME NEW t \in Tasks, Commit(t) PROVE CallState'
    <2>1. ASSUME NEW u \in Tasks, u # t PROVE CallOf(u)'
      BY <1>8, <2>1, OthersOutside DEF Commit, Return, Goto, TypeOK, InLock
    <2>2. CallOf(t)'
      <3>1. req[t].kind = "release" => IndexDone(req[t].o)
        BY <1>8 DEF Commit, CallState
      <3>2. UNCHANGED <<disk, index>> /\ reload' = FALSE
        BY <1>8 DEF Commit
      <3>3. CASE req[t].kind = "release"
        <4>1. pc'[t] = "clear" /\ req' = req
          BY <1>8, <3>3 DEF Commit, Goto, TypeOK
        <4> QED
          BY <3>1, <3>2, <3>3, <4>1 DEF CallOf, IndexDone
      <3>4. CASE req[t].kind # "release"
        <4>1. pc'[t] = "idle"
          BY <1>8, <3>4 DEF Commit, Return, Goto, TypeOK
        <4> QED
          BY <4>1 DEF CallOf
      <3> QED
        BY <3>3, <3>4
    <2> QED
      BY <2>1, <2>2 DEF CallState, CallOf
  <1>9. ASSUME NEW t \in Tasks, RemoveIndex(t) PROVE CallState'
    <2>1. ASSUME NEW u \in Tasks, u # t PROVE CallOf(u)'
      BY <1>9, <2>1, OthersOutside DEF RemoveIndex, Return, Goto, TypeOK, InLock
    <2>2. CallOf(t)'
      BY <1>9 DEF RemoveIndex, Return, Goto, CallOf, TypeOK
    <2> QED
      BY <2>1, <2>2 DEF CallState, CallOf
  <1>10. ASSUME NEW t \in Tasks, Abort(t) PROVE CallState'
    <2>1. UNCHANGED <<disk, reload, index>> /\ pc'[t] = "idle"
      BY <1>10 DEF Abort, Return, Goto, TypeOK
    <2>2. ASSUME NEW u \in Tasks, u # t PROVE CallOf(u)'
      <3>1. pc'[u] = pc[u] /\ req'[u] = req[u]
        BY <1>10, <2>2 DEF Abort, Return, Goto, TypeOK
      <3>2. CASE lock = t
        BY <2>2, <3>1, <3>2, OthersOutside DEF TypeOK
      <3>3. CASE lock # t
        <4>1. target' = target
          BY <1>10, <3>3 DEF Abort, Return
        <4> QED
          BY <2>1, <3>1, <4>1 DEF CallState, CallOf, IndexDone
      <3> QED
        BY <3>2, <3>3
    <2>3. CallOf(t)'
      BY <2>1 DEF CallOf
    <2> QED
      BY <2>2, <2>3 DEF CallState, CallOf
  <1>11. ASSUME NEW t \in Tasks, NEW r \in Requests, Call(t, r) PROVE CallState'
    <2>1. UNCHANGED <<disk, reload, index>>
      BY <1>11 DEF Call
    <2>2. ASSUME NEW u \in Tasks, u # t PROVE CallOf(u)'
      BY <1>11, <2>1, <2>2 DEF Call, Goto, TypeOK, CallState, CallOf, IndexDone
    <2>3. CallOf(t)'
      BY <1>11 DEF Call, Goto, TypeOK, CallOf, ReadAll
    <2> QED
      BY <2>2, <2>3 DEF CallState, CallOf
  <1>12. CASE Restart
    BY <1>12 DEF Restart, CallState
  <1>13. CASE UNCHANGED vars
    BY <1>13 DEF vars, CallState, IndexDone
  <1> QED
    BY <1>1, <1>2, <1>3, <1>4, <1>5, <1>6, <1>7, <1>8, <1>9, <1>10, <1>11, <1>12, <1>13
       DEF Next, Step

\* The store's invariant holds in every reachable state.
THEOREM StoreInvariant == Spec => []StoreInv
  <1>1. Init => StoreInv
    <2> SUFFICES ASSUME Init PROVE StoreInv
      OBVIOUS
    <2>1. TypeOK
      BY InitType
    <2>2. CacheCoherent /\ NoLostUpdate /\ CallState
      BY DEF Init, CacheCoherent, NoLostUpdate, CallState
    <2> QED
      BY <2>1, <2>2 DEF StoreInv
  <1>2. StoreInv /\ [Next]_vars => StoreInv'
    BY NextType, CoherentStep, LostUpdateStep, CallStep DEF StoreInv
  <1> QED
    BY <1>1, <1>2, PTL DEF Spec

\* Whenever readers trust the cache it is what is on disk, whichever writes
\* failed, were cancelled or landed without being acknowledged.
THEOREM CacheIsCoherent == Spec => []CacheCoherent
  BY StoreInvariant, PTL DEF StoreInv

\* No task overwrites proofs it has not seen: what it writes is its own
\* mutation of what is on disk.
THEOREM UpdatesAreKept == Spec => []NoLostUpdate
  BY StoreInvariant, PTL DEF StoreInv

-----------------------------------------------------------------------------
(***************************************************************************)
(* The store implements the atomic ledger.                                 *)
(***************************************************************************)

\* The ledger's operators are the store's.
LEMMA SameOperators ==
  /\ Atomic!Index = Index
  /\ \A r : Atomic!Mutation(r) = Mutation(r)
  /\ \A r, p, ix : Atomic!Allowed(r, p, ix) = Allowed(r, p, ix)
  /\ \A r, p, ix : Atomic!Apply(r, p, ix) = Apply(r, p, ix)
  /\ \A r, p, ix : Atomic!View(r, p, ix) = View(r, p, ix)
  <1>1. \A p, ix, o : Atomic!ReservedProofs(p, ix, o) = ReservedProofs(p, ix, o)
    BY DEF Atomic!ReservedProofs, ReservedProofs
  <1>2. \A p, u : Atomic!UpdateProofs(p, u) = UpdateProofs(p, u)
    BY DEF Atomic!UpdateProofs, UpdateProofs
  <1>3. \A p, ys, x : Atomic!UpdateProofsState(p, ys, x) = UpdateProofsState(p, ys, x)
    BY DEF Atomic!UpdateProofsState, UpdateProofsState
  <1>4. \A p, ys, o : Atomic!ReserveProofs(p, ys, o) = ReserveProofs(p, ys, o)
    BY DEF Atomic!ReserveProofs, ReserveProofs
  <1>5. \A p, ix, o : Atomic!ReleaseProofs(p, ix, o) = ReleaseProofs(p, ix, o)
    BY <1>1 DEF Atomic!ReleaseProofs, ReleaseProofs
  <1>6. \A p, ix, ys, o : Atomic!CanReserve(p, ix, ys, o) = CanReserve(p, ix, ys, o)
    BY <1>1 DEF Atomic!CanReserve, CanReserve
  <1>7. \A r, p, ix : Atomic!Apply(r, p, ix) = Apply(r, p, ix)
    BY <1>2, <1>3, <1>4, <1>5 DEF Atomic!Apply, Apply
  <1>8. \A r, p, ix : Atomic!Allowed(r, p, ix) = Allowed(r, p, ix)
    BY <1>6 DEF Atomic!Allowed, Allowed
  <1>9. \A r, p, ix : Atomic!View(r, p, ix) = View(r, p, ix)
    BY <1>1 DEF Atomic!View, View
  <1> QED
    BY <1>7, <1>8, <1>9 DEF Atomic!Index, Index, Atomic!Mutation, Mutation

\* A freshly opened store is a fresh ledger.
LEMMA InitRefines == Init => Atomic!Init
  BY SameOperators DEF Init, Atomic!Init

\* A step that returns no proofs and writes nothing is invisible.
LEMMA InternalStep ==
  ASSUME out' = None, UNCHANGED <<disk, index>>
  PROVE  [Atomic!Next]_(Atomic!vars)
  BY DEF Atomic!Next, Atomic!Internal

\* Every step of the store is a step of the ledger, or changes nothing.
LEMMA StepRefines ==
  ASSUME StoreInv, [Next]_vars
  PROVE  [Atomic!Next]_(Atomic!vars)
  <1>1. ASSUME NEW t \in Tasks, Peek(t) PROVE [Atomic!Next]_(Atomic!vars)
    <2>1. CASE reload
      BY <1>1, <2>1, InternalStep DEF Peek
    <2>2. CASE ~reload
      <3>1. out' = disk /\ UNCHANGED <<disk, index>>
        BY <1>1, <2>2 DEF Peek, StoreInv, CacheCoherent
      <3>2. ReadAll \in Requests /\ Atomic!Read(ReadAll)
        BY <3>1, ProofAssumption, SameOperators DEF Atomic!Read, ReadAll, Mutation, View
      <3> QED
        BY <3>2 DEF Atomic!Next
    <2> QED
      BY <2>1, <2>2
  <1>2. ASSUME NEW t \in Tasks, ReadLocked(t) PROVE [Atomic!Next]_(Atomic!vars)
    <2>1. cache = disk
      BY <1>2 DEF ReadLocked, StoreInv, CallState, CacheCoherent
    <2>2. req[t] \in Requests /\ Atomic!Read(req[t])
      BY <1>2, <2>1, SameOperators DEF ReadLocked, StoreInv, TypeOK, Atomic!Read
    <2> QED
      BY <2>2 DEF Atomic!Next
  <1>3. ASSUME NEW t \in Tasks, Land(t) PROVE [Atomic!Next]_(Atomic!vars)
    <2>1. /\ Mutation(req[t]) /\ Allowed(req[t], disk, index)
          /\ target = Apply(req[t], disk, index)
      BY <1>3 DEF Land, StoreInv, CallState, NoLostUpdate
    <2>2. req[t] \in Requests /\ Atomic!Mutate(req[t])
      BY <1>3, <2>1, SameOperators DEF Land, StoreInv, TypeOK, Atomic!Mutate
    <2> QED
      BY <2>2 DEF Atomic!Next
  <1>4. ASSUME NEW t \in Tasks, RemoveIndex(t) PROVE [Atomic!Next]_(Atomic!vars)
    <2>1. IndexDone(req[t].o) /\ req[t].kind = "release"
      BY <1>4 DEF RemoveIndex, StoreInv, CallState
    <2>2. req[t].o \in Ops
      BY <2>1, RequestFields DEF StoreInv, TypeOK
    <2>3. Atomic!DropIndex(req[t].o)
      BY <1>4, <2>1 DEF RemoveIndex, IndexDone, Atomic!DropIndex
    <2> QED
      BY <2>2, <2>3 DEF Atomic!Next
  <1>5. ASSUME NEW t \in Tasks,
               \/ Lock(t) \/ ReloadUncertain(t) \/ Refuse(t) \/ PersistProofs(t)
               \/ Commit(t) \/ Abort(t) \/ \E r \in Requests : Call(t, r)
        PROVE  [Atomic!Next]_(Atomic!vars)
    BY <1>5, InternalStep
       DEF Lock, ReloadUncertain, Refuse, PersistProofs, Mutates, Commit, Abort, Call
  <1>6. CASE Restart
    BY <1>6, InternalStep DEF Restart
  <1>7. CASE UNCHANGED vars
    BY <1>7 DEF vars, Atomic!vars
  <1> QED
    BY <1>1, <1>2, <1>3, <1>4, <1>5, <1>6, <1>7 DEF Next, Step

\* CashuKvDatabase is one ledger of proofs whose mutations are atomic and whose
\* reads return the current proofs, across errors, cancellations and restarts.
THEOREM StoreIsAtomicLedger == Spec => AtomicLedger
  <1>1. Spec => []StoreInv
    BY StoreInvariant
  <1> QED
    BY <1>1, InitRefines, StepRefines, PTL DEF Spec, AtomicLedger, Atomic!Spec

-----------------------------------------------------------------------------
\* The old index reserves a proof for one operation; it only ever shrinks.
IndexApart == \A a, b \in Ops : a # b => index[a] \cap index[b] = {}

\* A write that the ledger lets through takes nothing from an operation that
\* holds a reservation, but for what Ends names.
LEMMA ApplyKeeps ==
  ASSUME NEW r \in Requests, Mutation(r), TypeOK, IndexApart, Allowed(r, disk, index),
         NEW o \in Ops, NEW y \in Ys, Holds(o, y),
         NEW d \in Ledger, d = Apply(r, disk, index), d[y] # Absent
  PROVE  \/ d[y].owner = o
         \/ d[y].owner = NoOp /\ disk[y].owner = NoOp /\ d[y].st = disk[y].st
         \/ Ends(r, o, y, d[y].owner)
  <1>1. disk[y] \in Proof /\ disk[y].owner \in {o, NoOp}
    BY DEF Holds, TypeOK, Ledger
  <1>2. CASE r.kind = "update"
    <2>1. d = UpdateProofs(disk, r)
      BY <1>2 DEF Apply
    <2>2. y \notin r.removed
      BY <2>1 DEF UpdateProofs
    <2>3. CASE r.added[y] = Absent
      BY <1>1, <2>1, <2>2, <2>3 DEF UpdateProofs
    <2>4. CASE r.added[y] # Absent
      BY <1>2, <2>1, <2>2, <2>4 DEF UpdateProofs, Ends
    <2> QED
      BY <2>3, <2>4
  <1>3. CASE r.kind = "state"
    <2>1. d = UpdateProofsState(disk, r.ys, r.st)
      BY <1>3 DEF Apply
    <2>2. d[y].owner = disk[y].owner
      BY <1>1, <2>1 DEF UpdateProofsState, Proof
    <2> QED
      BY <1>1, <1>3, <2>2 DEF Ends
  <1>4. CASE r.kind = "reserve"
    <2>1. d = ReserveProofs(disk, r.ys, r.o) /\ CanReserve(disk, index, r.ys, r.o) /\ r.o \in Ops
      BY <1>4, RequestFields DEF Apply, Allowed
    <2>2. CASE y \notin r.ys
      BY <1>1, <2>1, <2>2 DEF ReserveProofs
    <2>3. CASE y \in r.ys
      <3>1. d[y].owner = r.o
        BY <1>1, <2>1, <2>3 DEF ReserveProofs, Proof, Holds
      <3>2. disk[y].owner \in {NoOp, r.o}
        BY <2>1, <2>3 DEF CanReserve
      <3>3. CASE disk[y].owner = o
        BY <3>1, <3>2, <3>3, ProofAssumption
      <3>4. CASE disk[y].owner # o
        <4>1. disk[y].owner = NoOp /\ disk[y].st = "Reserved" /\ y \in index[o]
          BY <1>1, <3>4 DEF Holds
        <4>2. y \in index[r.o]
          BY <2>1, <2>3, <4>1 DEF CanReserve, ReservedProofs
        <4> QED
          BY <2>1, <3>1, <4>1, <4>2 DEF IndexApart
      <3> QED
        BY <3>3, <3>4
    <2> QED
      BY <2>2, <2>3
  <1>5. CASE r.kind = "release"
    <2>1. d = ReleaseProofs(disk, index, r.o) /\ r.o \in Ops
      BY <1>5, RequestFields DEF Apply
    <2>2. CASE r.o = o
      <3>1. d[y].owner \in {disk[y].owner, NoOp}
        BY <1>1, <2>1 DEF ReleaseProofs, Proof
      <3> QED
        BY <1>1, <1>5, <2>2, <3>1 DEF Ends
    <2>3. CASE r.o # o
      <3>1. y \notin ReservedProofs(disk, index, r.o)
        BY <1>1, <2>1, <2>3, ProofAssumption DEF ReservedProofs, Holds, IndexApart
      <3>2. d[y] = disk[y]
        BY <2>1, <3>1 DEF ReleaseProofs
      <3> QED
        BY <1>1, <3>2
    <2> QED
      BY <2>2, <2>3
  <1> QED
    BY <1>2, <1>3, <1>4, <1>5 DEF Mutation

\* A reservation never passes from one operation to another, and ends only by
\* its own release, by an update that replaces the proof or, in the old index,
\* by a change of the proof's state; for any calls CDK makes, of any tasks.
THEOREM ReservationsKept == Spec => NoStolenReservation
  <1> DEFINE Kept == \A o \in Ops, y \in Ys : Holds(o, y) /\ disk'[y] # Absent =>
                \/ disk'[y].owner = o
                \/ disk'[y].owner = NoOp /\ disk[y].owner = NoOp /\ disk'[y].st = disk[y].st
                \/ \E t \in Tasks : pc[t] = "write" /\ Ends(req[t], o, y, disk'[y].owner)
  <1>1. Init => IndexApart
    BY DEF Init, IndexApart
  <1>2. IndexApart /\ StoreInv /\ [Next]_vars => IndexApart'
    <2> SUFFICES ASSUME IndexApart, StoreInv, [Next]_vars PROVE IndexApart'
      OBVIOUS
    <2>1. ASSUME NEW t \in Tasks, RemoveIndex(t) PROVE IndexApart'
      <3>1. index' = [index EXCEPT ![req[t].o] = {}] /\ index \in [Ops -> SUBSET Ys]
        BY <2>1 DEF RemoveIndex, StoreInv, TypeOK, Index
      <3> QED
        BY <3>1 DEF IndexApart
    <2>2. CASE UNCHANGED index
      BY <2>2 DEF IndexApart
    <2> QED
      BY <2>1, <2>2 DEF Next, Step, Peek, Lock, ReloadUncertain, ReadLocked, Refuse, PersistProofs,
         Land, Commit, Abort, Call, Restart, vars
  <1>3. IndexApart /\ StoreInv /\ [Next]_vars => [Kept]_vars
    <2> SUFFICES ASSUME IndexApart, StoreInv, [Next]_vars PROVE Kept
      OBVIOUS
    <2>1. ASSUME NEW t \in Tasks, Land(t) PROVE Kept
      <3>1. /\ pc[t] = "write" /\ Mutation(req[t]) /\ Allowed(req[t], disk, index)
            /\ disk' = Apply(req[t], disk, index)
            /\ disk' \in Ledger /\ req[t] \in Requests
        BY <2>1 DEF Land, StoreInv, CallState, NoLostUpdate, TypeOK
      <3> QED
        BY <3>1, ApplyKeeps DEF StoreInv
    <2>2. CASE UNCHANGED disk
      BY <2>2 DEF Holds
    <2> QED
      BY <2>1, <2>2 DEF Next, Step, Peek, Lock, ReloadUncertain, ReadLocked, Refuse, PersistProofs,
         Mutates, RemoveIndex, Commit, Abort, Call, Restart, vars
  <1> QED
    BY <1>1, <1>2, <1>3, StoreInvariant, PTL DEF Spec, NoStolenReservation
=============================================================================
