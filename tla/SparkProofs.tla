----------------------------- MODULE SparkProofs -----------------------------
(***************************************************************************)
(* What TLAPS proves of SparkWallet and SparkStore, for any number of      *)
(* payments, records, tasks and faults.  Of the wallet: erased deposits    *)
(* are always going to be synced again, and the SDK announces the end of a *)
(* payment at most once.  Of the store: no two ids share a key, an accepted*)
(* change waits for the server, an acknowledged record is not taken back   *)
(* by the order of pushes and pulls, and no report on a deposit undoes     *)
(* another.  The two specifications share the tasks; each theorem is about *)
(* one of them.                                                            *)
(***************************************************************************)
EXTENDS SparkWallet, SparkStore, SequenceTheorems, FiniteSetTheorems, WellFoundedInduction, TLAPS

(***************************************************************************)
(* The type invariant.                                                     *)
(***************************************************************************)

Call == {Idle}
        \cup [pc : {"update"}, p : Payments, status : Statuses, sync : BOOLEAN]
        \cup [pc : {"write", "emit"}, p : Payments, status : Statuses, sync : BOOLEAN,
              emit : BOOLEAN]
        \cup [pc : {"synced"}, p : Payments, sync : {TRUE}]

\* What is stored and what was announced.
StoreTypes ==
    /\ kind \in [Payments -> {"send", "rebalance", "receive", "deposit"}]
    /\ stored \in [Payments -> Payment \cup {None}]
    /\ offset \in {None} \cup 0..N
    /\ emitted \in [Payments -> Seq(Statuses)]
    /\ shown \in [Payments -> Seq({"PaymentSuccessful", "PaymentFailed", "PaymentReceived"})]
    /\ faults \in Nat

\* The wallet's start, and its tasks: the migration has to do with stored
\* payments only, and no task is at work unless the SDK runs.
ProcessTypes ==
    /\ phase \in {"down", "migrate", "run"}
    /\ mig \in [todo : SUBSET Payments, reset : BOOLEAN]
    /\ phase = "migrate" => \A p \in mig.todo : stored[p] # None
    /\ migrated \in BOOLEAN /\ listener \in BOOLEAN
    /\ call \in [Tasks -> Call]
    /\ phase # "run" => \A t \in Tasks : call[t].pc = "idle"

\* payment_update_lock is held by exactly the task between its read and its
\* write.
LockInv ==
    /\ lock \in Tasks \cup {None}
    /\ \A t \in Tasks : lock = t <=> call[t].pc = "write"

TypeInv == StoreTypes /\ ProcessTypes /\ LockInv

(***************************************************************************)
(* The steps.                                                              *)
(***************************************************************************)

\* One step: of the wallet's start, of its listener, or of an SDK task.
LEMMA StepCases ==
    ASSUME Next
    PROVE  \/ Start \/ FinishMigration \/ AddListener \/ RemoveListener \/ Crash
           \/ \E p \in Payments : SkipPayment(p) \/ ResetOffset(p) \/ EraseDetails(p)
           \/ \E t \in Tasks : \/ SyncNext(t) \/ ReadStatus(t) \/ WritePayment(t)
                               \/ Emit(t) \/ MoveOffset(t)
                               \/ \E p \in Payments : Report(t, p)
BY DEF Next, Work

\* What a write makes of the store.
LEMMA OutcomeFacts ==
    ASSUME NEW o \in Outcomes, faults \in Nat, Fault(o)
    PROVE  o \in {"ok", "failed", "late"} /\ faults' \in Nat
BY DEF Outcomes, Fault

\* The fields of a call, by where it is.
LEMMA CallFields ==
    ASSUME NEW c \in Call
    PROVE  /\ c.pc \in {"idle", "update", "write", "emit", "synced"}
           /\ c.pc # "idle" => c.p \in Payments /\ c.sync \in BOOLEAN
           /\ c.pc \in {"update", "write", "emit"} => c.status \in Statuses
           /\ c.pc = "synced" => c.sync = TRUE
           /\ c.pc \in {"write", "emit"} => c.emit \in BOOLEAN
<1>1. CASE c = Idle
    BY <1>1 DEF Idle
<1>2. CASE c \in [pc : {"update"}, p : Payments, status : Statuses, sync : BOOLEAN]
    BY <1>2
<1>3. CASE c \in [pc : {"write", "emit"}, p : Payments, status : Statuses, sync : BOOLEAN,
                  emit : BOOLEAN]
    BY <1>3
<1>4. CASE c \in [pc : {"synced"}, p : Payments, sync : {TRUE}]
    BY <1>4
<1> QED BY <1>1, <1>2, <1>3, <1>4 DEF Call

\* What a task returns to: it is idle, or goes on with the sync.
LEMMA ReturnedFacts ==
    ASSUME NEW c \in Call, c.pc # "idle"
    PROVE  /\ Returned(c) \in Call
           /\ ~c.sync => Returned(c).pc = "idle"
           /\ c.sync => /\ Returned(c).pc = "synced" /\ Returned(c).p = c.p
                        /\ Returned(c).sync = TRUE
BY CallFields DEF Returned, Call, Idle

\* A report or a sync that is picked up.
LEMMA UpdateFacts ==
    ASSUME NEW p \in Payments, NEW s \in Statuses, NEW b \in BOOLEAN
    PROVE  LET c == [pc |-> "update", p |-> p, status |-> s, sync |-> b]
           IN  c \in Call /\ c.pc = "update" /\ c.p = p /\ c.status = s /\ c.sync = b
BY DEF Call

\* An update that is going to be written.
LEMMA WriteFacts ==
    ASSUME NEW p \in Payments, NEW s \in Statuses, NEW b \in BOOLEAN, NEW e \in BOOLEAN
    PROVE  LET c == [pc |-> "write", p |-> p, status |-> s, sync |-> b, emit |-> e]
           IN  /\ c \in Call /\ c.pc = "write" /\ c.p = p /\ c.status = s
               /\ c.sync = b /\ c.emit = e
BY DEF Call

\* A payment that was written and is going to be emitted.
LEMMA EmitFacts ==
    ASSUME NEW c \in Call, c.pc = "write"
    PROVE  LET d == [c EXCEPT !.pc = "emit"]
           IN  /\ d \in Call /\ d.pc = "emit" /\ d.p = c.p /\ d.status = c.status
               /\ d.sync = c.sync /\ d.emit = c.emit
<1> DEFINE W == [pc : {"write", "emit"}, p : Payments, status : Statuses, sync : BOOLEAN,
                 emit : BOOLEAN]
<1>1. c \in W
    <2>1. c # Idle
        BY DEF Idle
    <2>2. c \notin [pc : {"update"}, p : Payments, status : Statuses, sync : BOOLEAN]
        OBVIOUS
    <2>3. c \notin [pc : {"synced"}, p : Payments, sync : {TRUE}]
        OBVIOUS
    <2> QED BY <2>1, <2>2, <2>3, Zenon DEF Call
<1>2. PICK d : d = [c EXCEPT !.pc = "emit"]
    OBVIOUS
<1>3. d \in W
    BY <1>1, <1>2
<1>4. d.pc = "emit" /\ d.p = c.p /\ d.status = c.status /\ d.sync = c.sync /\ d.emit = c.emit
    BY <1>1, <1>2
<1> QED BY <1>2, <1>3, <1>4 DEF Call

(***************************************************************************)
(* What a task's step makes of its call.                                   *)
(***************************************************************************)

\* The payment is stored with a final status.
Settled(p) == stored[p] # None /\ IsFinal(stored[p].status)

\* The payment the sync reads next.
NextSynced == 1 + IF offset = None THEN 0 ELSE offset

\* The task is the one that syncs.
Syncs(t) == call[t].pc # "idle" /\ call[t].sync

\* The record apply_payment_update writes for a call.
Written(c) == [stored EXCEPT ![c.p] = [status |-> c.status, details |-> "full"]]

\* A report starts an update that is not the sync's.
LEMMA ReportStep ==
    ASSUME TypeInv, NEW t \in Tasks, NEW p \in Payments, Report(t, p)
    PROVE  /\ phase = "run" /\ call[t].pc = "idle"
           /\ \E d \in Call : /\ call' = [call EXCEPT ![t] = d]
                              /\ d.pc = "update" /\ d.sync = FALSE
           /\ UNCHANGED <<kind, disk, setup, lock, told, faults>>
<1>1. PICK s \in Statuses : call' = [call EXCEPT ![t] = [pc |-> "update", p |-> p, status |-> s,
                                                        sync |-> FALSE]]
    BY DEF Report, Goto
<1>2. PICK d : d = [pc |-> "update", p |-> p, status |-> s, sync |-> FALSE]
    OBVIOUS
<1>3. d \in Call /\ d.pc = "update" /\ d.sync = FALSE
    BY <1>2, UpdateFacts
<1>4. call' = [call EXCEPT ![t] = d]
    BY <1>1, <1>2
<1> QED BY <1>3, <1>4 DEF Report

\* The sync takes up the payment after the offset, if no other task syncs.
LEMMA SyncStep ==
    ASSUME TypeInv, NEW t \in Tasks, SyncNext(t)
    PROVE  /\ phase = "run" /\ call[t].pc = "idle"
           /\ \A u \in Tasks : ~Syncs(u)
           /\ \E d \in Call : /\ call' = [call EXCEPT ![t] = d]
                              /\ d.pc = "update" /\ d.sync = TRUE /\ d.p = NextSynced
                              /\ stored[d.p] # None => stored[d.p].status \in {"Pending", d.status}
           /\ UNCHANGED <<kind, disk, setup, lock, told, faults>>
<1> DEFINE p == NextSynced
<1>1. /\ p \in Payments
      /\ \E s \in Statuses :
            /\ (IF stored[p] # None THEN stored[p].status ELSE "Pending") \in {"Pending", s}
            /\ call' = [call EXCEPT ![t] = [pc |-> "update", p |-> p, status |-> s, sync |-> TRUE]]
    BY DEF SyncNext, Goto, NextSynced
<1> HIDE DEF p
<1>2. PICK s \in Statuses :
          /\ (IF stored[p] # None THEN stored[p].status ELSE "Pending") \in {"Pending", s}
          /\ call' = [call EXCEPT ![t] = [pc |-> "update", p |-> p, status |-> s, sync |-> TRUE]]
    BY <1>1
<1>3. PICK d : d = [pc |-> "update", p |-> p, status |-> s, sync |-> TRUE]
    OBVIOUS
<1>4. d \in Call /\ d.pc = "update" /\ d.sync = TRUE /\ d.p = p /\ d.status = s
    BY <1>1, <1>3, UpdateFacts
<1>5. call' = [call EXCEPT ![t] = d]
    BY <1>2, <1>3
<1>6. stored[d.p] # None => stored[d.p].status \in {"Pending", d.status}
    BY <1>2, <1>4
<1>7. \A u \in Tasks : ~Syncs(u)
    BY DEF SyncNext, Syncs
<1>8. d.p = NextSynced
    BY <1>4 DEF p
<1>9. /\ phase = "run" /\ call[t].pc = "idle"
      /\ UNCHANGED <<kind, disk, setup, lock, told, faults>>
    BY DEF SyncNext
<1> QED BY <1>4, <1>5, <1>6, <1>7, <1>8, <1>9

\* apply_payment_update, its first half: the update is dropped because another
\* final status is stored, or the task takes the lock and is going to write.
LEMMA ReadStep ==
    ASSUME TypeInv, NEW t \in Tasks, ReadStatus(t)
    PROVE  /\ call[t].pc = "update" /\ lock = None
           /\ \E d \in Call :
                 /\ call' = [call EXCEPT ![t] = d]
                 /\ \/ /\ Settled(call[t].p) /\ stored[call[t].p].status # call[t].status
                       /\ d = Returned(call[t]) /\ lock' = lock
                    \/ /\ ~(Settled(call[t].p) /\ stored[call[t].p].status # call[t].status)
                       /\ d.pc = "write" /\ d.p = call[t].p /\ d.status = call[t].status
                       /\ d.sync = call[t].sync /\ d.emit = IsNews(call[t].p, call[t].status)
                       /\ lock' = t
           /\ UNCHANGED <<kind, disk, setup, told, faults>>
<1> PICK c : c = call[t]
    OBVIOUS
<1>1. c \in Call /\ c.pc = "update" /\ lock = None
    BY DEF ReadStatus, TypeInv, ProcessTypes
<1>2. c.p \in Payments /\ c.status \in Statuses /\ c.sync \in BOOLEAN
    BY <1>1, CallFields
<1> DEFINE e == IsNews(c.p, c.status)
<1>3. e \in BOOLEAN
    BY DEF IsNews, IsFinal
<1> HIDE DEF e
<1>4. PICK w : w = [pc |-> "write", p |-> c.p, status |-> c.status, sync |-> c.sync, emit |-> e]
    OBVIOUS
<1>5. w \in Call /\ w.pc = "write" /\ w.p = c.p /\ w.status = c.status /\ w.sync = c.sync /\ w.emit = e
    BY <1>2, <1>3, <1>4, WriteFacts
<1>6. Returned(c) \in Call
    BY <1>1, ReturnedFacts
<1>7. IF Settled(c.p) /\ stored[c.p].status # c.status
      THEN call' = [call EXCEPT ![t] = Returned(c)] /\ lock' = lock
      ELSE call' = [call EXCEPT ![t] = w] /\ lock' = t
    BY <1>4 DEF ReadStatus, Goto, Settled, e
<1>8. UNCHANGED <<kind, disk, setup, told, faults>>
    BY DEF ReadStatus
<1>9. CASE Settled(c.p) /\ stored[c.p].status # c.status
    BY <1>1, <1>6, <1>7, <1>8, <1>9
<1>10. CASE ~(Settled(c.p) /\ stored[c.p].status # c.status)
    BY <1>1, <1>5, <1>7, <1>8, <1>10 DEF e
<1> QED BY <1>9, <1>10

\* apply_payment_update, its second half: the write fails, or the payment is
\* written and the task goes on to emit it, returns, or reports a failure.
LEMMA WriteStep ==
    ASSUME TypeInv, NEW t \in Tasks, WritePayment(t)
    PROVE  /\ call[t].pc = "write" /\ lock' = None
           /\ \E d \in Call :
                 /\ call' = [call EXCEPT ![t] = d]
                 /\ \/ d = Idle /\ stored' = stored
                    \/ d = Idle /\ stored' = Written(call[t])
                    \/ /\ ~call[t].emit /\ d = Returned(call[t]) /\ stored' = Written(call[t])
                    \/ /\ call[t].emit /\ stored' = Written(call[t])
                       /\ d.pc = "emit" /\ d.p = call[t].p /\ d.status = call[t].status
                       /\ d.sync = call[t].sync
           /\ faults' \in Nat
           /\ UNCHANGED <<kind, offset, migrated, setup, emitted, shown>>
<1> PICK c : c = call[t]
    OBVIOUS
<1>1. c \in Call /\ c.pc = "write" /\ lock' = None
    BY DEF WritePayment, TypeInv, ProcessTypes
<1>2. PICK w : w = [c EXCEPT !.pc = "emit"]
    OBVIOUS
<1>3. w \in Call /\ w.pc = "emit" /\ w.p = c.p /\ w.status = c.status /\ w.sync = c.sync
    BY <1>1, <1>2, EmitFacts
<1>4. Returned(c) \in Call /\ Idle \in Call
    BY <1>1, ReturnedFacts DEF Call
<1>5. PICK o \in Outcomes :
          /\ stored' = Landed(o, Written(c), stored)
          /\ call' = [call EXCEPT ![t] = IF o # "ok" THEN Idle ELSE IF c.emit THEN w ELSE Returned(c)]
          /\ Fault(o)
    BY <1>2 DEF WritePayment, Goto, Written
<1>6. o \in {"ok", "failed", "late"} /\ faults' \in Nat
    BY <1>5, OutcomeFacts DEF TypeInv, StoreTypes
<1>7. UNCHANGED <<kind, offset, migrated, setup, emitted, shown>>
    BY DEF WritePayment
<1>8. CASE o = "failed"
    BY <1>1, <1>4, <1>5, <1>6, <1>7, <1>8 DEF Landed
<1>9. CASE o = "late"
    BY <1>1, <1>4, <1>5, <1>6, <1>7, <1>9 DEF Landed
<1>10. CASE o = "ok" /\ c.emit
    BY <1>1, <1>3, <1>5, <1>6, <1>7, <1>10 DEF Landed
<1>11. CASE o = "ok" /\ ~c.emit
    BY <1>1, <1>4, <1>5, <1>6, <1>7, <1>11 DEF Landed
<1> QED BY <1>6, <1>8, <1>9, <1>10, <1>11

\* What the application may be told is at most one event.
LEMMA EventOfFacts ==
    ASSUME NEW p \in Payments, NEW s \in Statuses
    PROVE  \/ EventOf(p, s) = <<>>
           \/ EventOf(p, s) = <<"PaymentSuccessful">>
           \/ EventOf(p, s) = <<"PaymentFailed">>
           \/ EventOf(p, s) = <<"PaymentReceived">>
BY DEF EventOf

\* A stored status makes at most one event.
LEMMA EventOfSeq ==
    ASSUME NEW p \in Payments, NEW s \in Statuses
    PROVE  /\ EventOf(p, s) \in Seq({"PaymentSuccessful", "PaymentFailed", "PaymentReceived"})
           /\ Len(EventOf(p, s)) <= 1
<1> DEFINE Events == {"PaymentSuccessful", "PaymentFailed", "PaymentReceived"}
<1>1. /\ <<>> \in Seq(Events) /\ Len(<<>>) <= 1
      /\ \A e \in Events : <<e>> \in Seq(Events) /\ Len(<<e>>) <= 1
    OBVIOUS
<1>2. "PaymentSuccessful" \in Events /\ "PaymentFailed" \in Events /\ "PaymentReceived" \in Events
    OBVIOUS
<1> HIDE DEF Events
<1>3. EventOf(p, s) \in Seq(Events) /\ Len(EventOf(p, s)) <= 1
    BY <1>1, <1>2, EventOfFacts, Zenon
<1> QED BY <1>3 DEF Events

\* on_event: the status is announced, and the event is queued or lost.
LEMMA EmitStep ==
    ASSUME TypeInv, NEW t \in Tasks, Emit(t)
    PROVE  /\ call[t].pc = "emit"
           /\ Returned(call[t]) \in Call
           /\ call' = [call EXCEPT ![t] = Returned(call[t])]
           /\ emitted' = [emitted EXCEPT ![call[t].p] = Append(@, call[t].status)]
           /\ \/ shown' = shown
              \/ shown' = [shown EXCEPT ![call[t].p] = @ \o EventOf(call[t].p, call[t].status)]
           /\ faults' \in Nat
           /\ UNCHANGED <<kind, disk, setup, lock>>
<1>1. call[t] \in Call /\ call[t].pc = "emit"
    BY DEF Emit, TypeInv, ProcessTypes
<1>2. Returned(call[t]) \in Call
    BY <1>1, ReturnedFacts
<1>3. PICK o \in Outcomes : Fault(o) /\ shown' \in {shown, 
          [shown EXCEPT ![call[t].p] = @ \o EventOf(call[t].p, call[t].status)]}
    BY DEF Emit
<1>4. faults' \in Nat
    BY <1>3, OutcomeFacts DEF TypeInv, StoreTypes
<1> QED BY <1>1, <1>2, <1>3, <1>4 DEF Emit, Goto

\* The sync ends: the offset moves past its payment, or stays.
LEMMA MoveStep ==
    ASSUME TypeInv, NEW t \in Tasks, MoveOffset(t)
    PROVE  /\ call[t].pc = "synced" /\ call[t].p \in Payments /\ call[t].sync = TRUE
           /\ call' = [call EXCEPT ![t] = Idle] /\ Idle \in Call
           /\ offset' = offset \/ offset' = call[t].p
           /\ faults' \in Nat
           /\ UNCHANGED <<kind, stored, migrated, setup, lock, told>>
<1>1. call[t] \in Call /\ call[t].pc = "synced"
    BY DEF MoveOffset, TypeInv, ProcessTypes
<1>2. call[t].p \in Payments /\ call[t].sync = TRUE
    BY <1>1, CallFields
<1>3. PICK o \in Outcomes : offset' = Landed(o, call[t].p, offset) /\ Fault(o)
    BY DEF MoveOffset
<1>4. faults' \in Nat
    BY <1>3, OutcomeFacts DEF TypeInv, StoreTypes
<1> QED BY <1>1, <1>2, <1>3, <1>4 DEF MoveOffset, Goto, Landed, Call

(***************************************************************************)
(* What a step of the wallet's start makes of the migration.               *)
(***************************************************************************)

\* The payment after its details were erased.
ErasedAt(p) == [stored EXCEPT ![p].details = "null"]

\* A payment is passed over.
LEMMA SkipStep ==
    ASSUME TypeInv, NEW p \in Payments, SkipPayment(p)
    PROVE  /\ phase = "migrate" /\ p \in mig.todo /\ stored[p].details # "legacy"
           /\ mig' \in [todo : SUBSET Payments, reset : BOOLEAN]
           /\ mig'.todo = mig.todo \ {p} /\ mig'.reset = mig.reset
           /\ UNCHANGED <<kind, disk, phase, listener, lock, call, told, faults>>
<1> PICK q : q = [mig EXCEPT !.todo = @ \ {p}]
    OBVIOUS
<1>1. q \in [todo : SUBSET Payments, reset : BOOLEAN] /\ q.todo = mig.todo \ {p} /\ q.reset = mig.reset
    BY DEF TypeInv, ProcessTypes
<1> QED BY <1>1 DEF SkipPayment, Legacy

\* The offset is reset; the migration goes on only if that succeeded.
LEMMA ResetStep ==
    ASSUME TypeInv, NEW p \in Payments, ResetOffset(p)
    PROVE  /\ phase = "migrate"
           /\ phase' \in {"down", "migrate"}
           /\ offset' = offset \/ offset' = 0
           /\ phase' = "migrate" => offset' \in {None, 0}
           /\ mig' \in [todo : SUBSET Payments, reset : BOOLEAN]
           /\ mig'.todo = mig.todo
           /\ faults' \in Nat
           /\ UNCHANGED <<kind, stored, migrated, listener, lock, call, told>>
<1>1. PICK o \in Outcomes :
          /\ offset' = Landed(o, IF offset = None THEN None ELSE 0, offset)
          /\ mig' = [mig EXCEPT !.reset = TRUE]
          /\ phase' = IF o = "ok" THEN "migrate" ELSE "down"
          /\ Fault(o)
    BY DEF ResetOffset
<1>2. faults' \in Nat /\ o \in {"ok", "failed", "late"}
    BY <1>1, OutcomeFacts DEF TypeInv, StoreTypes
<1> PICK q : q = [mig EXCEPT !.reset = TRUE]
    OBVIOUS
<1>3. q \in [todo : SUBSET Payments, reset : BOOLEAN] /\ q.todo = mig.todo
    BY DEF TypeInv, ProcessTypes
<1>4. mig' = q
    BY <1>1
<1>5. /\ phase = "migrate"
      /\ UNCHANGED <<kind, stored, migrated, listener, lock, call, told>>
    BY DEF ResetOffset
<1>6. /\ offset' = offset \/ offset' = 0
      /\ phase' = "migrate" => offset' \in {None, 0}
    BY <1>1, <1>2 DEF Landed
<1> QED BY <1>1, <1>2, <1>3, <1>4, <1>5, <1>6

\* The details of an old deposit are erased, after the offset was reset; the
\* migration goes on only if that succeeded.
LEMMA EraseStep ==
    ASSUME TypeInv, NEW p \in Payments, EraseDetails(p)
    PROVE  /\ phase = "migrate" /\ p \in mig.todo /\ mig.reset
           /\ stored[p] \in Payment
           /\ phase' \in {"down", "migrate"}
           /\ stored' = stored \/ stored' = ErasedAt(p)
           /\ phase' = "migrate" => stored' = ErasedAt(p)
           /\ mig' \in [todo : SUBSET Payments, reset : BOOLEAN]
           /\ mig'.todo = mig.todo \ {p} /\ mig'.reset = mig.reset
           /\ faults' \in Nat
           /\ UNCHANGED <<kind, offset, migrated, listener, lock, call, told>>
<1>1. PICK o \in Outcomes :
          /\ stored' = Landed(o, ErasedAt(p), stored)
          /\ phase' = IF o = "ok" THEN "migrate" ELSE "down"
          /\ Fault(o)
    BY DEF EraseDetails, ErasedAt
<1>2. faults' \in Nat /\ o \in {"ok", "failed", "late"}
    BY <1>1, OutcomeFacts DEF TypeInv, StoreTypes
<1> PICK q : q = [mig EXCEPT !.todo = @ \ {p}]
    OBVIOUS
<1>3. q \in [todo : SUBSET Payments, reset : BOOLEAN] /\ q.todo = mig.todo \ {p} /\ q.reset = mig.reset
    BY DEF TypeInv, ProcessTypes
<1>4. mig' = q
    BY DEF EraseDetails
<1>5. /\ phase = "migrate" /\ p \in mig.todo /\ mig.reset
      /\ UNCHANGED <<kind, offset, migrated, listener, lock, call, told>>
    BY DEF EraseDetails
<1>6. stored[p] \in Payment
    BY <1>5 DEF TypeInv, ProcessTypes, StoreTypes
<1>7. /\ stored' = stored \/ stored' = ErasedAt(p)
      /\ phase' = "migrate" => stored' = ErasedAt(p)
      /\ phase' \in {"down", "migrate"}
    BY <1>1, <1>2 DEF Landed
<1> QED BY <1>2, <1>3, <1>4, <1>5, <1>6, <1>7

\* The flag is written, and the SDK runs only if that succeeded.
LEMMA FinishStep ==
    ASSUME TypeInv, FinishMigration
    PROVE  /\ phase = "migrate" /\ mig.todo = {}
           /\ phase' \in {"down", "run"}
           /\ migrated' = migrated \/ migrated' = TRUE
           /\ mig' = NoMigration
           /\ faults' \in Nat
           /\ UNCHANGED <<kind, stored, offset, listener, lock, call, told>>
<1>1. PICK o \in Outcomes :
          /\ migrated' = Landed(o, TRUE, migrated)
          /\ phase' = IF o = "ok" THEN "run" ELSE "down"
          /\ Fault(o)
    BY DEF FinishMigration
<1>2. faults' \in Nat
    BY <1>1, OutcomeFacts DEF TypeInv, StoreTypes
<1>3. phase' \in {"down", "run"}
    BY <1>1
<1>4. migrated' = migrated \/ migrated' = TRUE
    BY <1>1, Zenon DEF Landed
<1> QED BY <1>2, <1>3, <1>4 DEF FinishMigration

\* The store after a payment was written or erased: one record changed.
LEMMA WrittenFacts ==
    ASSUME StoreTypes, NEW c \in Call, c.pc = "write"
    PROVE  /\ Written(c) \in [Payments -> Payment \cup {None}]
           /\ Written(c)[c.p] = [status |-> c.status, details |-> "full"]
           /\ Written(c)[c.p] # None
           /\ \A p \in Payments : p # c.p => Written(c)[p] = stored[p]
<1>1. c.p \in Payments /\ c.status \in Statuses
    BY CallFields
<1>2. PICK r : r = [status |-> c.status, details |-> "full"]
    OBVIOUS
<1>3. r \in Payment
    BY <1>1, <1>2 DEF Payment
<1>4. Written(c) = [stored EXCEPT ![c.p] = r]
    BY <1>2 DEF Written
<1> QED BY <1>1, <1>2, <1>3, <1>4, SparkWalletAssumption DEF StoreTypes

\* erase_deposit_details takes a payment's details and nothing else.
LEMMA ErasedFacts ==
    ASSUME StoreTypes, NEW p \in Payments, stored[p] \in Payment
    PROVE  /\ ErasedAt(p) \in [Payments -> Payment \cup {None}]
           /\ ErasedAt(p)[p].status = stored[p].status
           /\ ErasedAt(p)[p].details = "null"
           /\ ErasedAt(p)[p] # None
           /\ \A q \in Payments : q # p => ErasedAt(p)[q] = stored[q]
<1>1. PICK r : r = [stored[p] EXCEPT !.details = "null"]
    OBVIOUS
<1>2. r \in Payment /\ r.status = stored[p].status /\ r.details = "null"
    BY <1>1 DEF Payment
<1>3. ErasedAt(p) = [stored EXCEPT ![p] = r]
    BY <1>1 DEF ErasedAt, StoreTypes
<1> QED BY <1>2, <1>3, SparkWalletAssumption DEF StoreTypes

(***************************************************************************)
(* Types.                                                                  *)
(***************************************************************************)

\* A task's step puts a well-formed call in place of its own.
LEMMA CallPut ==
    ASSUME call \in [Tasks -> Call], NEW t \in Tasks, NEW d \in Call, call' = [call EXCEPT ![t] = d]
    PROVE  /\ call' \in [Tasks -> Call] /\ call'[t] = d
           /\ \A u \in Tasks : u # t => call'[u] = call[u]
OBVIOUS

\* The types hold at first.
LEMMA TypeInit == Init => TypeInv
<1> SUFFICES ASSUME Init PROVE TypeInv
    OBVIOUS
<1>1. emitted \in [Payments -> Seq(Statuses)]
    <2>1. ASSUME NEW p \in Payments
          PROVE  (IF stored[p] # None /\ IsFinal(stored[p].status)
                  THEN <<stored[p].status>> ELSE <<>>) \in Seq(Statuses)
        <3>1. stored[p] \in Payment \cup {None}
            BY DEF Init
        <3>2. CASE stored[p] = None
            BY <3>2
        <3>3. CASE stored[p] # None
            <4>1. stored[p].status \in Statuses
                BY <3>1, <3>3 DEF Payment
            <4> QED BY <4>1, <3>3
        <3> QED BY <3>2, <3>3
    <2> QED BY <2>1 DEF Init
<1>2. StoreTypes
    BY <1>1, SparkWalletAssumption DEF Init, StoreTypes
<1>3. Idle \in Call /\ Idle.pc = "idle"
    BY DEF Call, Idle
<1>4. ProcessTypes
    BY <1>3 DEF Init, ProcessTypes, NoMigration
<1>5. LockInv
    BY <1>3, SparkWalletAssumption DEF Init, LockInv
<1> QED BY <1>2, <1>4, <1>5 DEF TypeInv

\* What an emission appends keeps the histories well-formed.
LEMMA EmitTypes ==
    ASSUME TypeInv, NEW t \in Tasks, Emit(t)
    PROVE  StoreTypes'
<1>1. /\ call[t].p \in Payments /\ call[t].status \in Statuses
      /\ call[t].pc = "emit"
    BY EmitStep, CallFields DEF TypeInv, ProcessTypes
<1>2. emitted' \in [Payments -> Seq(Statuses)]
    <2>1. emitted \in [Payments -> Seq(Statuses)]
        BY DEF TypeInv, StoreTypes
    <2>2. PICK q : q = Append(emitted[call[t].p], call[t].status)
        OBVIOUS
    <2>3. q \in Seq(Statuses)
        BY <1>1, <2>1, <2>2
    <2>4. emitted' = [emitted EXCEPT ![call[t].p] = q]
        BY <2>2, EmitStep
    <2> QED BY <2>1, <2>3, <2>4
<1> DEFINE Events == {"PaymentSuccessful", "PaymentFailed", "PaymentReceived"}
<1>3. EventOf(call[t].p, call[t].status) \in Seq(Events)
    BY <1>1, EventOfSeq
<1>4. shown' \in [Payments -> Seq(Events)]
    <2> HIDE DEF Events
    <2>1. shown \in [Payments -> Seq(Events)]
        BY DEF TypeInv, StoreTypes, Events
    <2>2. shown[call[t].p] \o EventOf(call[t].p, call[t].status) \in Seq(Events)
        BY <1>1, <1>3, <2>1
    <2> QED BY <1>1, <2>1, <2>2, EmitStep
<1>5. faults' \in Nat /\ UNCHANGED <<kind, stored, offset>>
    BY EmitStep DEF disk
<1> QED BY <1>2, <1>4, <1>5 DEF TypeInv, StoreTypes

\* Every step keeps the types.
LEMMA TypeNext == TypeInv /\ [Next]_vars => TypeInv'
<1> SUFFICES ASSUME TypeInv, [Next]_vars PROVE TypeInv'
    OBVIOUS
<1>0. CASE UNCHANGED vars
    BY <1>0 DEF TypeInv, StoreTypes, ProcessTypes, LockInv, vars, disk, setup, told
<1>1. CASE Start
    <2>1. mig' \in [todo : SUBSET Payments, reset : BOOLEAN]
        BY <1>1 DEF Start, NoMigration
    <2>2. phase' = "migrate" => \A p \in mig'.todo : stored[p] # None
        BY <1>1 DEF Start
    <2>3. phase' \in {"migrate", "run"} /\ phase = "down"
        BY <1>1 DEF Start
    <2> QED BY <1>1, <2>1, <2>2, <2>3
            DEF Start, TypeInv, StoreTypes, ProcessTypes, LockInv, disk, told
<1>2. CASE FinishMigration
    <2>1. NoMigration \in [todo : SUBSET Payments, reset : BOOLEAN] /\ NoMigration.todo = {}
        BY DEF NoMigration
    <2>2. migrated' \in BOOLEAN
        BY <1>2, FinishStep, Zenon DEF TypeInv, ProcessTypes
    <2> QED BY <1>2, <2>1, <2>2, FinishStep DEF TypeInv, StoreTypes, ProcessTypes, LockInv, told
<1>3. CASE AddListener
    BY <1>3 DEF AddListener, TypeInv, StoreTypes, ProcessTypes, LockInv, disk, told
<1>4. CASE RemoveListener
    <2>1. faults' \in Nat
        BY <1>4 DEF RemoveListener, TypeInv, StoreTypes
    <2>2. listener' \in BOOLEAN
        BY <1>4 DEF RemoveListener
    <2>3. StoreTypes'
        BY <1>4, <2>1 DEF RemoveListener, TypeInv, StoreTypes, disk, told
    <2> QED BY <1>4, <2>2, <2>3, Zenon DEF RemoveListener, TypeInv, ProcessTypes, LockInv, disk
<1>5. CASE Crash
    <2>1. NoMigration \in [todo : SUBSET Payments, reset : BOOLEAN]
        BY DEF NoMigration
    <2>2. call' \in [Tasks -> Call] /\ \A t \in Tasks : call'[t].pc = "idle"
        BY <1>5 DEF Crash, Call, Idle
    <2>3. faults' \in Nat
        BY <1>5 DEF Crash, TypeInv, StoreTypes
    <2>4. StoreTypes'
        BY <1>5, <2>3 DEF Crash, TypeInv, StoreTypes, disk
    <2>5. ProcessTypes'
        <3>1. phase' = "down" /\ mig' = NoMigration /\ migrated' = migrated /\ listener' = FALSE
            BY <1>5 DEF Crash, disk
        <3> QED BY <2>1, <2>2, <3>1 DEF TypeInv, ProcessTypes
    <2>6. LockInv'
        BY <1>5, <2>2, SparkWalletAssumption DEF Crash, LockInv
    <2> QED BY <2>4, <2>5, <2>6 DEF TypeInv
<1>6. ASSUME NEW p \in Payments, SkipPayment(p) PROVE TypeInv'
    BY <1>6, SkipStep DEF TypeInv, StoreTypes, ProcessTypes, LockInv, disk, told
<1>7. ASSUME NEW p \in Payments, ResetOffset(p) PROVE TypeInv'
    BY <1>7, ResetStep, SparkWalletAssumption DEF TypeInv, StoreTypes, ProcessTypes, LockInv, told
<1>8. ASSUME NEW p \in Payments, EraseDetails(p) PROVE TypeInv'
    <2>1. stored' \in [Payments -> Payment \cup {None}] /\ \A q \in Payments : stored[q] # None => stored'[q] # None
        <3>1. stored[p] \in Payment /\ (stored' = stored \/ stored' = ErasedAt(p))
            BY <1>8, EraseStep
        <3>2. stored \in [Payments -> Payment \cup {None}]
            BY DEF TypeInv, StoreTypes
        <3>3. /\ ErasedAt(p) \in [Payments -> Payment \cup {None}]
              /\ ErasedAt(p)[p] # None
              /\ \A q \in Payments : q # p => ErasedAt(p)[q] = stored[q]
            BY <3>1, ErasedFacts DEF TypeInv
        <3> QED BY <3>1, <3>2, <3>3
    <2> QED BY <1>8, <2>1, EraseStep DEF TypeInv, StoreTypes, ProcessTypes, LockInv, told
<1>9. ASSUME NEW t \in Tasks, NEW p \in Payments, Report(t, p) PROVE TypeInv'
    <2>1. PICK d \in Call : call' = [call EXCEPT ![t] = d] /\ d.pc = "update"
        BY <1>9, ReportStep
    <2>2. /\ call' \in [Tasks -> Call] /\ call'[t] = d
          /\ \A u \in Tasks : u # t => call'[u] = call[u]
        BY <2>1, CallPut DEF TypeInv, ProcessTypes
    <2> QED BY <1>9, <2>1, <2>2, ReportStep
            DEF TypeInv, StoreTypes, ProcessTypes, LockInv, disk, setup, told
<1>10. ASSUME NEW t \in Tasks, SyncNext(t) PROVE TypeInv'
    <2>1. PICK d \in Call : call' = [call EXCEPT ![t] = d] /\ d.pc = "update"
        BY <1>10, SyncStep
    <2>2. /\ call' \in [Tasks -> Call] /\ call'[t] = d
          /\ \A u \in Tasks : u # t => call'[u] = call[u]
        BY <2>1, CallPut DEF TypeInv, ProcessTypes
    <2>3. phase = "run" /\ call[t].pc = "idle" /\ UNCHANGED <<kind, disk, setup, lock, told, faults>>
        BY <1>10, SyncStep
    <2> QED BY <2>1, <2>2, <2>3
            DEF TypeInv, StoreTypes, ProcessTypes, LockInv, disk, setup, told
<1>11. ASSUME NEW t \in Tasks, ReadStatus(t) PROVE TypeInv'
    <2>0. call[t] \in Call /\ call[t].pc = "update" /\ lock = None
        BY <1>11, ReadStep DEF TypeInv, ProcessTypes
    <2>1. PICK d \in Call : /\ call' = [call EXCEPT ![t] = d]
                            /\ \/ d.pc # "write" /\ lock' = lock
                               \/ d.pc = "write" /\ lock' = t
        <3>1. PICK d \in Call : /\ call' = [call EXCEPT ![t] = d]
                                /\ \/ d = Returned(call[t]) /\ lock' = lock
                                   \/ d.pc = "write" /\ lock' = t
            BY <1>11, ReadStep
        <3>2. Returned(call[t]).pc # "write"
            BY <2>0, CallFields, ReturnedFacts
        <3> QED BY <3>1, <3>2
    <2>2. /\ call' \in [Tasks -> Call] /\ call'[t] = d
          /\ \A u \in Tasks : u # t => call'[u] = call[u]
        BY <2>1, CallPut DEF TypeInv, ProcessTypes
    <2>3. UNCHANGED <<kind, disk, setup, told, faults>>
        BY <1>11, ReadStep
    <2>4. ProcessTypes' /\ StoreTypes'
        BY <2>0, <2>2, <2>3 DEF TypeInv, StoreTypes, ProcessTypes, disk, setup, told
    <2>5. LockInv'
        BY <2>0, <2>1, <2>2, SparkWalletAssumption DEF TypeInv, LockInv
    <2> QED BY <2>4, <2>5 DEF TypeInv
<1>12. ASSUME NEW t \in Tasks, WritePayment(t) PROVE TypeInv'
    <2>0. call[t] \in Call /\ call[t].pc = "write" /\ lock' = None /\ faults' \in Nat
        BY <1>12, WriteStep DEF TypeInv, ProcessTypes
    <2>1. PICK d \in Call : call' = [call EXCEPT ![t] = d] /\ d.pc # "write"
        <3>1. PICK d \in Call : /\ call' = [call EXCEPT ![t] = d]
                                /\ d = Returned(call[t]) \/ d = Idle \/ d.pc = "emit"
            BY <1>12, WriteStep
        <3>2. Returned(call[t]).pc # "write" /\ Idle.pc # "write"
            BY <2>0, CallFields, ReturnedFacts DEF Idle
        <3> QED BY <3>1, <3>2
    <2>2. /\ call' \in [Tasks -> Call] /\ call'[t] = d
          /\ \A u \in Tasks : u # t => call'[u] = call[u]
        BY <2>1, CallPut DEF TypeInv, ProcessTypes
    <2>3. UNCHANGED <<kind, offset, migrated, setup, emitted, shown>>
        BY <1>12, WriteStep
    <2>4. stored' \in [Payments -> Payment \cup {None}]
        BY <1>12, <2>0, WriteStep, WrittenFacts DEF TypeInv, StoreTypes
    <2>5. phase = "run"
        BY <2>0 DEF TypeInv, ProcessTypes
    <2>6. ProcessTypes' /\ StoreTypes'
        BY <2>0, <2>2, <2>3, <2>4, <2>5 DEF TypeInv, StoreTypes, ProcessTypes, setup
    <2>7. LockInv'
        BY <2>0, <2>1, <2>2, SparkWalletAssumption DEF TypeInv, LockInv
    <2> QED BY <2>6, <2>7 DEF TypeInv
<1>13. ASSUME NEW t \in Tasks, Emit(t) PROVE TypeInv'
    <2>0. call[t] \in Call /\ call[t].pc = "emit" /\ UNCHANGED <<kind, disk, setup, lock>>
        BY <1>13, EmitStep DEF TypeInv, ProcessTypes
    <2>1. PICK d \in Call : call' = [call EXCEPT ![t] = d] /\ d.pc # "write"
        BY <1>13, <2>0, EmitStep, ReturnedFacts
    <2>2. /\ call' \in [Tasks -> Call] /\ call'[t] = d
          /\ \A u \in Tasks : u # t => call'[u] = call[u]
        BY <2>1, CallPut DEF TypeInv, ProcessTypes
    <2>3. phase = "run"
        BY <2>0 DEF TypeInv, ProcessTypes
    <2>4. ProcessTypes'
        BY <2>0, <2>2, <2>3 DEF TypeInv, ProcessTypes, setup, disk
    <2>5. LockInv'
        BY <2>0, <2>1, <2>2 DEF TypeInv, LockInv
    <2> QED BY <1>13, <2>4, <2>5, EmitTypes DEF TypeInv
<1>14. ASSUME NEW t \in Tasks, MoveOffset(t) PROVE TypeInv'
    <2>1. /\ call' \in [Tasks -> Call] /\ call'[t] = Idle
          /\ \A u \in Tasks : u # t => call'[u] = call[u]
        BY <1>14, MoveStep, CallPut DEF TypeInv, ProcessTypes
    <2>2. /\ call[t].pc = "synced" /\ call[t].p \in Payments /\ faults' \in Nat
          /\ offset' = offset \/ offset' = call[t].p
          /\ UNCHANGED <<kind, stored, migrated, setup, lock, told>>
        BY <1>14, MoveStep
    <2>3. phase = "run"
        BY <2>2 DEF TypeInv, ProcessTypes
    <2>4. StoreTypes'
        BY <2>2, SparkWalletAssumption DEF TypeInv, StoreTypes, told, Payments
    <2>5. ProcessTypes'
        BY <2>1, <2>2, <2>3 DEF TypeInv, ProcessTypes, setup
    <2>6. LockInv'
        BY <2>1, <2>2 DEF TypeInv, LockInv, Idle
    <2> QED BY <2>4, <2>5, <2>6 DEF TypeInv
<1> QED BY <1>0, <1>1, <1>2, <1>3, <1>4, <1>5, <1>6, <1>7, <1>8, <1>9, <1>10, <1>11, <1>12,
           <1>13, <1>14, StepCases

\* Every variable of SparkWallet has its type, in every state: among others,
\* payment_update_lock is held by exactly the task between its read and its
\* write, and no task is at work unless the SDK runs.
THEOREM TypeAlways == Spec => []TypeInv
BY TypeInit, TypeNext, PTL DEF Spec
(***************************************************************************)
(* The inductive invariants.                                               *)
(***************************************************************************)

\* The payment's details were erased by the migration.
Erased(p) == stored[p] # None /\ stored[p].details = "null"

\* One task syncs at a time, and it is at the payment after the offset.  The
\* update it is about to make is not behind what is stored as long as the
\* details are missing, so it is not dropped; once it was applied, or dropped in
\* favour of another task's update, the details are there again.
SyncInv ==
    /\ \A t, u \in Tasks : Syncs(t) /\ Syncs(u) => t = u
    /\ \A t \in Tasks : Syncs(t) =>
          /\ call[t].p = NextSynced
          /\ call[t].pc = "update" /\ Erased(call[t].p) =>
                stored[call[t].p].status \in {"Pending", call[t].status}
          /\ call[t].pc \in {"emit", "synced"} => ~Erased(call[t].p)

\* While the migration erases details, the offset is at the start.
ResyncInv ==
    /\ phase = "migrate" /\ mig.reset => offset \in {None, 0}
    /\ SyncInv
    /\ ErasedIsResynced

\* An old deposit that does not parse is still to be migrated.
ReadableInv ==
    /\ migrated \/ phase = "run" =>
          \A p \in Payments : stored[p] # None => stored[p].details # "legacy"
    /\ phase = "migrate" =>
          \A p \in Payments : stored[p] # None /\ stored[p].details = "legacy" => p \in mig.todo

\* A task that is going to write does not replace a final status by another,
\* and is going to emit only what is not final yet; a task that is going to
\* emit wrote the final status itself, and nobody else is going to emit it.
AnnounceInv ==
    /\ \A t \in Tasks : call[t].pc = "write" =>
          /\ call[t].emit => IsFinal(call[t].status) /\ ~Settled(call[t].p)
          /\ Settled(call[t].p) => stored[call[t].p].status = call[t].status
    /\ \A t \in Tasks : call[t].pc = "emit" =>
          /\ Settled(call[t].p) /\ stored[call[t].p].status = call[t].status
          /\ emitted[call[t].p] = <<>>
    /\ \A t, u \in Tasks : call[t].pc = "emit" /\ call[u].pc = "emit" /\ call[t].p = call[u].p => t = u

\* What was emitted is what is stored, and only what was emitted was shown.
EmittedInv ==
    \A p \in Payments :
        /\ emitted[p] # <<>> => Settled(p) /\ emitted[p] = <<stored[p].status>>
        /\ emitted[p] = <<>> => shown[p] = <<>>
        /\ Len(shown[p]) <= 1

OnceInv == AnnounceInv /\ EmittedInv
-----------------------------------------------------------------------------
(* The deposits whose details were erased.                                 *)

\* No details are erased at first.
LEMMA ResyncInit == Init => ResyncInv
<1> SUFFICES ASSUME Init PROVE ResyncInv
    OBVIOUS
<1>1. \A t \in Tasks : ~Syncs(t)
    BY DEF Init, Syncs, Idle
<1>2. \A p \in Payments : ~Erased(p)
    BY DEF Init, Erased
<1>3. phase = "down"
    BY DEF Init
<1> QED BY <1>1, <1>2, <1>3 DEF ResyncInv, SyncInv, ErasedIsResynced, Erased

\* While no task is at work, nobody syncs.
LEMMA NobodySyncs ==
    ASSUME TypeInv, phase # "run"
    PROVE  \A t \in Tasks : ~Syncs(t)
BY DEF TypeInv, ProcessTypes, Syncs

\* A step that changes neither payments, offset nor calls, and does not begin to
\* erase details, leaves the invariant as it was.
LEMMA ResyncFrame ==
    ASSUME ResyncInv, UNCHANGED <<stored, offset, call>>,
           phase' = "migrate" /\ mig'.reset => phase = "migrate" /\ mig.reset
    PROVE  ResyncInv'
<1>1. \A t \in Tasks : Syncs(t)' <=> Syncs(t)
    BY DEF Syncs
<1>2. NextSynced' = NextSynced
    BY DEF NextSynced
<1>3. \A p \in Payments : Erased(p)' <=> Erased(p)
    BY DEF Erased
<1>4. SyncInv'
    BY <1>1, <1>2 DEF ResyncInv, SyncInv, Erased
<1>5. ErasedIsResynced'
    BY DEF ResyncInv, ErasedIsResynced
<1> QED BY <1>4, <1>5 DEF ResyncInv

\* The migration resets the offset first, and erases details only then.
LEMMA ResyncMigrates ==
    ASSUME TypeInv, ResyncInv, NEW p \in Payments, ResetOffset(p) \/ EraseDetails(p)
    PROVE  ResyncInv'
<1>1. phase = "migrate" /\ call' = call
    BY ResetStep, EraseStep
<1>2. \A t \in Tasks : ~Syncs(t)'
    BY <1>1, NobodySyncs DEF Syncs
<1>3. CASE ResetOffset(p)
    <2>1. ErasedIsResynced'
        BY <1>3, ResetStep DEF ResyncInv, ErasedIsResynced, Payments
    <2> QED BY <1>2, <1>3, <2>1, ResetStep DEF ResyncInv, SyncInv
<1>4. CASE EraseDetails(p)
    <2>1. /\ offset' = offset /\ offset \in {None, 0}
          /\ phase' = "migrate" /\ mig'.reset => phase = "migrate" /\ mig.reset
        BY <1>4, EraseStep DEF ResyncInv
    <2>2. ErasedIsResynced'
        BY <2>1 DEF ErasedIsResynced, Payments
    <2> QED BY <1>2, <2>1, <2>2 DEF ResyncInv, SyncInv
<1> QED BY <1>3, <1>4

\* A task that begins an update.
LEMMA ResyncBegins ==
    ASSUME TypeInv, ResyncInv, NEW t \in Tasks,
           SyncNext(t) \/ \E p \in Payments : Report(t, p)
    PROVE  ResyncInv'
<1>0. call \in [Tasks -> Call]
    BY DEF TypeInv, ProcessTypes
<1>1. UNCHANGED <<stored, offset, phase, mig>> /\ phase = "run"
    BY SyncStep, ReportStep DEF disk, setup
<1>2. CASE SyncNext(t)
    <2>1. PICK d \in Call :
              /\ call' = [call EXCEPT ![t] = d]
              /\ d.pc = "update" /\ d.sync = TRUE /\ d.p = NextSynced
              /\ stored[d.p] # None => stored[d.p].status \in {"Pending", d.status}
        BY <1>2, SyncStep
    <2>2. call'[t] = d /\ \A u \in Tasks : u # t => call'[u] = call[u]
        BY <1>0, <2>1
    <2>3. \A u \in Tasks : ~Syncs(u)
        BY <1>2, SyncStep
    <2>4. \A u \in Tasks : Syncs(u)' => u = t
        BY <2>2, <2>3 DEF Syncs
    <2>5. SyncInv'
        BY <1>1, <2>1, <2>2, <2>4 DEF SyncInv, NextSynced, Erased
    <2> QED BY <1>1, <2>5 DEF ResyncInv, ErasedIsResynced
<1>3. CASE \E p \in Payments : Report(t, p)
    <2>1. PICK d \in Call : call' = [call EXCEPT ![t] = d] /\ d.pc = "update" /\ d.sync = FALSE
        BY <1>3, ReportStep
    <2>2. call'[t] = d /\ \A u \in Tasks : u # t => call'[u] = call[u]
        BY <1>0, <2>1
    <2>3. \A u \in Tasks : Syncs(u)' => u # t /\ Syncs(u)
        BY <2>1, <2>2 DEF Syncs
    <2>4. SyncInv'
        BY <1>1, <2>2, <2>3 DEF ResyncInv, SyncInv, NextSynced, Erased
    <2> QED BY <1>1, <2>4 DEF ResyncInv, ErasedIsResynced
<1> QED BY <1>2, <1>3

\* A sync that drops its update, because another final status is stored, leaves
\* no details missing: its own status was not behind a payment without details.
LEMMA ResyncReads ==
    ASSUME TypeInv, ResyncInv, NEW t \in Tasks, ReadStatus(t)
    PROVE  ResyncInv'
<1>0. /\ call \in [Tasks -> Call] /\ call[t] \in Call /\ call[t].pc = "update"
      /\ UNCHANGED <<stored, offset, phase, mig>>
    BY ReadStep DEF TypeInv, ProcessTypes, disk, setup
<1>1. PICK d \in Call :
          /\ call' = [call EXCEPT ![t] = d]
          /\ \/ /\ Settled(call[t].p) /\ stored[call[t].p].status # call[t].status
                /\ d = Returned(call[t])
             \/ d.pc = "write" /\ d.p = call[t].p /\ d.sync = call[t].sync
    BY ReadStep
<1>2. call'[t] = d /\ \A u \in Tasks : u # t => call'[u] = call[u]
    BY <1>0, <1>1
<1>3. d.pc # "idle" /\ d.sync => Syncs(t) /\ d.p = call[t].p /\ d.pc \in {"write", "synced"}
    <2>1. CASE d = Returned(call[t])
        BY <1>0, <2>1, ReturnedFacts DEF Syncs
    <2>2. CASE d.pc = "write" /\ d.p = call[t].p /\ d.sync = call[t].sync
        BY <1>0, <2>2 DEF Syncs
    <2> QED BY <1>1, <2>1, <2>2
<1>4. \A u \in Tasks : Syncs(u)' => Syncs(u)
    BY <1>2, <1>3 DEF Syncs
<1>5. d.pc = "synced" => Settled(call[t].p) /\ stored[call[t].p].status # call[t].status
    BY <1>1
<1>6. Syncs(t)' => /\ call'[t].p = NextSynced /\ call'[t].pc \in {"write", "synced"}
                   /\ call'[t].pc = "synced" => ~Erased(call'[t].p)
    <2> SUFFICES ASSUME Syncs(t)' 
                 PROVE  /\ d.p = NextSynced /\ d.pc \in {"write", "synced"}
                        /\ d.pc = "synced" => ~Erased(d.p)
        BY <1>2
    <2>1. Syncs(t) /\ d.p = call[t].p /\ d.pc \in {"write", "synced"}
        BY <1>2, <1>3 DEF Syncs
    <2>2. call[t].p = NextSynced
        BY <2>1 DEF ResyncInv, SyncInv
    <2>3. Erased(call[t].p) => stored[call[t].p].status \in {"Pending", call[t].status}
        BY <1>0, <2>1 DEF ResyncInv, SyncInv
    <2> QED BY <1>5, <2>1, <2>2, <2>3 DEF Settled, IsFinal
<1>7. SyncInv'
    BY <1>0, <1>2, <1>4, <1>6 DEF ResyncInv, SyncInv, NextSynced, Erased
<1> QED BY <1>0, <1>7 DEF ResyncInv, ErasedIsResynced

\* A write puts the details back; the sync goes on only after it landed.
LEMMA ResyncWrites ==
    ASSUME TypeInv, ResyncInv, NEW t \in Tasks, WritePayment(t)
    PROVE  ResyncInv'
<1> DEFINE Gone(p) == stored'[p] # None /\ stored'[p].details = "null"
<1>0. /\ call \in [Tasks -> Call] /\ call[t] \in Call /\ call[t].pc = "write"
      /\ UNCHANGED <<offset, phase, mig>> /\ call[t].p \in Payments
    BY WriteStep, CallFields DEF TypeInv, ProcessTypes, setup
<1>1. PICK d \in Call :
          /\ call' = [call EXCEPT ![t] = d]
          /\ \/ d = Idle /\ stored' = stored
             \/ d = Idle /\ stored' = Written(call[t])
             \/ d = Returned(call[t]) /\ stored' = Written(call[t])
             \/ /\ stored' = Written(call[t])
                /\ d.pc = "emit" /\ d.p = call[t].p /\ d.sync = call[t].sync
    BY WriteStep
<1>2. call'[t] = d /\ \A u \in Tasks : u # t => call'[u] = call[u]
    BY <1>0, <1>1
<1>3. /\ Written(call[t])[call[t].p].details = "full"
      /\ \A p \in Payments : p # call[t].p => Written(call[t])[p] = stored[p]
    <2>1. [status |-> call[t].status, details |-> "full"].details = "full"
        OBVIOUS
    <2> QED BY <1>0, <2>1, WrittenFacts DEF TypeInv
<1>4. \A p \in Payments : Gone(p) => Erased(p) /\ stored'[p] = stored[p]
    BY <1>0, <1>1, <1>3 DEF Erased
<1>5. d.pc # "idle" /\ d.sync =>
          /\ Syncs(t) /\ d.p = call[t].p /\ d.pc \in {"emit", "synced"}
          /\ stored' = Written(call[t])
    <2>1. CASE d = Idle
        BY <2>1 DEF Idle
    <2>2. CASE d = Returned(call[t]) /\ stored' = Written(call[t])
        BY <1>0, <2>2, ReturnedFacts DEF Syncs
    <2>3. CASE stored' = Written(call[t]) /\ d.pc = "emit" /\ d.p = call[t].p /\ d.sync = call[t].sync
        BY <1>0, <2>3 DEF Syncs
    <2> QED BY <1>1, <2>1, <2>2, <2>3
<1>6. \A u \in Tasks : Syncs(u)' => Syncs(u)
    BY <1>2, <1>5 DEF Syncs
<1>7. Syncs(t)' => /\ call'[t].p = NextSynced /\ call'[t].pc \in {"emit", "synced"}
                   /\ ~Gone(call'[t].p)
    <2> SUFFICES ASSUME Syncs(t)'
                 PROVE  d.p = NextSynced /\ d.pc \in {"emit", "synced"} /\ ~Gone(d.p)
        BY <1>2
    <2>1. /\ Syncs(t) /\ d.p = call[t].p /\ d.pc \in {"emit", "synced"}
          /\ stored' = Written(call[t])
        BY <1>2, <1>5 DEF Syncs
    <2>2. call[t].p = NextSynced
        BY <2>1 DEF ResyncInv, SyncInv
    <2> QED BY <1>3, <2>1, <2>2 DEF Erased
<1>8. NextSynced' = NextSynced
    BY <1>0 DEF NextSynced
<1>9. \A u \in Tasks : Syncs(u) => call[u].p \in Payments
    BY <1>0, CallFields DEF Syncs
<1>10. SyncInv'
    <2>1. \A u, v \in Tasks : Syncs(u)' /\ Syncs(v)' => u = v
        BY <1>6 DEF ResyncInv, SyncInv
    <2>2. ASSUME NEW u \in Tasks, Syncs(u)', u # t
          PROVE  /\ call'[u].p = NextSynced'
                 /\ call'[u].pc = "update" /\ Gone(call'[u].p) =>
                       stored'[call'[u].p].status \in {"Pending", call'[u].status}
                 /\ call'[u].pc \in {"emit", "synced"} => ~Gone(call'[u].p)
        <3>1. /\ call'[u] = call[u] /\ Syncs(u) /\ call[u].p \in Payments
            BY <1>2, <1>6, <1>9, <2>2
        <3>2. Gone(call[u].p) => Erased(call[u].p) /\ stored'[call[u].p] = stored[call[u].p]
            BY <1>4, <3>1
        <3>3. /\ call[u].p = NextSynced
              /\ call[u].pc = "update" /\ Erased(call[u].p) =>
                    stored[call[u].p].status \in {"Pending", call[u].status}
              /\ call[u].pc \in {"emit", "synced"} => ~Erased(call[u].p)
            BY <3>1 DEF ResyncInv, SyncInv
        <3> HIDE DEF Gone
        <3> QED BY <1>8, <3>1, <3>2, <3>3
    <2> QED BY <1>7, <1>8, <2>1, <2>2 DEF SyncInv, Erased
<1>11. ErasedIsResynced'
    BY <1>0, <1>4 DEF ResyncInv, ErasedIsResynced, Erased
<1> QED BY <1>0, <1>10, <1>11 DEF ResyncInv

\* An emission changes no payment.
LEMMA ResyncEmits ==
    ASSUME TypeInv, ResyncInv, NEW t \in Tasks, Emit(t)
    PROVE  ResyncInv'
<1>0. /\ call \in [Tasks -> Call] /\ call[t] \in Call /\ call[t].pc = "emit"
      /\ UNCHANGED <<stored, offset, phase, mig>>
      /\ call' = [call EXCEPT ![t] = Returned(call[t])]
    BY EmitStep DEF TypeInv, ProcessTypes, disk, setup
<1>1. call'[t] = Returned(call[t]) /\ \A u \in Tasks : u # t => call'[u] = call[u]
    BY <1>0
<1>2. Syncs(t)' => Syncs(t) /\ call'[t].p = call[t].p /\ call'[t].pc = "synced"
    BY <1>0, <1>1, ReturnedFacts DEF Syncs
<1>3. \A u \in Tasks : Syncs(u)' => Syncs(u)
    BY <1>1, <1>2 DEF Syncs
<1>4. SyncInv'
    BY <1>0, <1>1, <1>2, <1>3 DEF ResyncInv, SyncInv, NextSynced, Erased
<1> QED BY <1>0, <1>4 DEF ResyncInv, ErasedIsResynced

\* The offset moves past one payment, whose details are there.
LEMMA ResyncMoves ==
    ASSUME TypeInv, ResyncInv, NEW t \in Tasks, MoveOffset(t)
    PROVE  ResyncInv'
<1>0. /\ call \in [Tasks -> Call] /\ call[t].pc = "synced" /\ call[t].sync = TRUE
      /\ UNCHANGED <<stored, phase, mig>>
      /\ call' = [call EXCEPT ![t] = Idle]
      /\ offset' = offset \/ offset' = call[t].p
    BY MoveStep DEF TypeInv, ProcessTypes, setup
<1>1. Syncs(t)
    BY <1>0 DEF Syncs
<1>2. \A u \in Tasks : ~Syncs(u)'
    <2>1. \A u \in Tasks : u # t => ~Syncs(u)
        BY <1>1 DEF ResyncInv, SyncInv
    <2>2. \A u \in Tasks : call'[u] = IF u = t THEN Idle ELSE call[u]
        BY <1>0
    <2> QED BY <2>1, <2>2 DEF Syncs, Idle
<1>3. call[t].p = NextSynced /\ ~Erased(call[t].p)
    BY <1>0, <1>1 DEF ResyncInv, SyncInv
<1>4. ErasedIsResynced'
    <2> SUFFICES ASSUME NEW p \in Payments, Erased(p)
                 PROVE  offset' = None \/ offset' < p
        BY <1>0 DEF ErasedIsResynced, Erased
    <2>1. offset = None \/ offset < p
        BY DEF ResyncInv, ErasedIsResynced, Erased
    <2>2. CASE offset' = offset
        BY <2>1, <2>2
    <2>3. CASE offset' = NextSynced
        <3>1. p # NextSynced /\ p \in Nat /\ p > 0
            BY <1>3, SparkWalletAssumption DEF Payments
        <3>2. offset \in {None} \cup 0..N
            BY DEF TypeInv, StoreTypes
        <3> QED BY <2>1, <2>3, <3>1, <3>2, SparkWalletAssumption DEF NextSynced
    <2> QED BY <1>0, <1>3, <2>2, <2>3
<1>5. phase = "run"
    BY <1>0 DEF TypeInv, ProcessTypes
<1> QED BY <1>0, <1>2, <1>4, <1>5 DEF ResyncInv, SyncInv

\* Every step keeps the deposits to be read again.
LEMMA ResyncNext == TypeInv /\ ResyncInv /\ [Next]_vars => ResyncInv'
<1> SUFFICES ASSUME TypeInv, ResyncInv, [Next]_vars PROVE ResyncInv'
    OBVIOUS
<1>1. CASE UNCHANGED vars
    BY <1>1, ResyncFrame DEF vars, disk, setup
<1>2. CASE Start
    <2>1. phase' = "migrate" => ~mig'.reset
        BY <1>2 DEF Start
    <2> QED BY <1>2, <2>1, ResyncFrame DEF Start, disk
<1>3. CASE FinishMigration
    BY <1>3, FinishStep, ResyncFrame
<1>4. CASE AddListener \/ RemoveListener
    BY <1>4, ResyncFrame DEF AddListener, RemoveListener, disk
<1>5. CASE Crash
    <2>1. \A t \in Tasks : ~Syncs(t)'
        BY <1>5 DEF Crash, Syncs, Idle
    <2>2. phase' = "down" /\ UNCHANGED <<stored, offset>>
        BY <1>5 DEF Crash, disk
    <2> QED BY <2>1, <2>2 DEF ResyncInv, SyncInv, ErasedIsResynced
<1>6. ASSUME NEW p \in Payments, SkipPayment(p) PROVE ResyncInv'
    BY <1>6, SkipStep, ResyncFrame DEF disk
<1>7. ASSUME NEW p \in Payments, ResetOffset(p) \/ EraseDetails(p) PROVE ResyncInv'
    BY <1>7, ResyncMigrates
<1>8. ASSUME NEW t \in Tasks, SyncNext(t) \/ \E p \in Payments : Report(t, p) PROVE ResyncInv'
    BY <1>8, ResyncBegins
<1>9. ASSUME NEW t \in Tasks, ReadStatus(t) \/ WritePayment(t) \/ Emit(t) \/ MoveOffset(t)
      PROVE  ResyncInv'
    BY <1>9, ResyncReads, ResyncWrites, ResyncEmits, ResyncMoves
<1> QED BY <1>1, <1>2, <1>3, <1>4, <1>5, <1>6, <1>7, <1>8, <1>9, StepCases

\* migrate_deposit_details resets the cached offset before it erases the first
\* record, and the sync moves the offset only past payments whose details are
\* there: however often the migration is interrupted, and whatever other tasks
\* report meanwhile, a deposit whose details were erased lies after the offset.
THEOREM ResyncSafe == Spec => []ErasedIsResynced
<1>1. Spec => []ResyncInv
    BY TypeAlways, ResyncInit, ResyncNext, PTL DEF Spec
<1>2. ResyncInv => ErasedIsResynced
    BY DEF ResyncInv
<1> QED BY <1>1, <1>2, PTL

-----------------------------------------------------------------------------
(* The payments an old version stored.                                     *)

\* The payments an old version stored are unmigrated.
LEMMA ReadableInit == Init => ReadableInv
BY DEF Init, ReadableInv

\* No step makes a payment unreadable after the migration.
LEMMA ReadableNext == TypeInv /\ ReadableInv /\ [Next]_vars => ReadableInv'
<1> SUFFICES ASSUME TypeInv, ReadableInv, [Next]_vars PROVE ReadableInv'
    OBVIOUS
<1>1. CASE UNCHANGED <<stored, migrated, phase, mig>>
    BY <1>1 DEF ReadableInv
<1>2. CASE Start
    <2>1. /\ phase' = IF migrated THEN "run" ELSE "migrate"
          /\ phase' = "migrate" => mig'.todo = {p \in Payments : stored[p] # None}
          /\ UNCHANGED <<stored, migrated>>
        BY <1>2 DEF Start, disk
    <2> QED BY <2>1 DEF ReadableInv
<1>3. CASE FinishMigration
    BY <1>3, FinishStep DEF ReadableInv
<1>4. CASE Crash
    BY <1>4 DEF Crash, disk, ReadableInv
<1>5. ASSUME NEW p \in Payments, SkipPayment(p) PROVE ReadableInv'
    BY <1>5, SkipStep DEF ReadableInv, disk
<1>6. ASSUME NEW p \in Payments, ResetOffset(p) PROVE ReadableInv'
    BY <1>6, ResetStep DEF ReadableInv
<1>7. ASSUME NEW p \in Payments, EraseDetails(p) PROVE ReadableInv'
    <2>1. /\ stored[p] \in Payment /\ phase = "migrate"
          /\ phase' \in {"down", "migrate"} /\ migrated' = migrated
          /\ stored' = stored \/ stored' = ErasedAt(p)
          /\ phase' = "migrate" => stored' = ErasedAt(p)
          /\ mig'.todo = mig.todo \ {p}
        BY <1>7, EraseStep
    <2>2. /\ ErasedAt(p)[p].details = "null"
          /\ \A q \in Payments : q # p => ErasedAt(p)[q] = stored[q]
        BY <2>1, ErasedFacts DEF TypeInv
    <2> QED BY <2>1, <2>2 DEF ReadableInv
<1>8. ASSUME NEW t \in Tasks, WritePayment(t) PROVE ReadableInv'
    <2>1. /\ call[t] \in Call /\ call[t].pc = "write"
          /\ stored' = stored \/ stored' = Written(call[t])
          /\ UNCHANGED <<migrated, phase, mig>>
        BY <1>8, WriteStep DEF TypeInv, ProcessTypes, setup
    <2>2. [status |-> call[t].status, details |-> "full"].details = "full"
        OBVIOUS
    <2>3. /\ Written(call[t])[call[t].p].details = "full"
          /\ \A p \in Payments : p # call[t].p => Written(call[t])[p] = stored[p]
        BY <2>1, <2>2, WrittenFacts DEF TypeInv
    <2>4. \A p \in Payments : (stored'[p] # None /\ stored'[p].details = "legacy")
                              => (stored[p] # None /\ stored[p].details = "legacy")
        BY <2>1, <2>3
    <2> QED BY <2>1, <2>4 DEF ReadableInv
<1>9. ASSUME NEW t \in Tasks,
             \/ SyncNext(t) \/ ReadStatus(t) \/ Emit(t) \/ MoveOffset(t)
             \/ \E p \in Payments : Report(t, p)
      PROVE  UNCHANGED <<stored, migrated, phase, mig>>
    BY <1>9, SyncStep, ReadStep, EmitStep, MoveStep, ReportStep DEF disk, setup
<1>10. ASSUME AddListener \/ RemoveListener \/ UNCHANGED vars
       PROVE  UNCHANGED <<stored, migrated, phase, mig>>
    BY <1>10 DEF AddListener, RemoveListener, vars, disk, setup
<1> QED BY <1>1, <1>2, <1>3, <1>4, <1>5, <1>6, <1>7, <1>8, <1>9, <1>10, StepCases

\* Once the SDK runs, no stored payment is one list_payments cannot parse.
Readable ==
    phase = "run" => ~\E p \in Payments : stored[p] # None /\ Legacy(p)

\* The migration leaves out no old deposit, however often it is interrupted:
\* the flag it writes at the end, and the SDK it lets run, come after the last
\* one, so list_payments never fails on one (the first half of ListedInPages).
THEOREM ReadableSafe == Spec => []Readable
<1>1. Spec => []ReadableInv
    BY TypeAlways, ReadableInit, ReadableNext, PTL DEF Spec
<1>2. ReadableInv => Readable
    BY DEF ReadableInv, Readable, Legacy
<1> QED BY <1>1, <1>2, PTL

-----------------------------------------------------------------------------
(* The pages of list_payments.                                             *)

\* How many payments of L come before p.
Rank(L, o, p) == Cardinality({q \in L : Before(o, q, p)})

\* There are finitely many payments.
LEMMA SomeFinite ==
    ASSUME NEW L, L \subseteq Payments
    PROVE  IsFiniteSet(L) /\ Cardinality(L) \in 0..N
<1>1. IsFiniteSet(Payments) /\ Cardinality(Payments) <= N /\ Cardinality(Payments) \in Nat
    <2>1. N \in Nat
        BY SparkWalletAssumption
    <2>2. IsFiniteSet(1..N) /\ Cardinality(1..N) = IF 1 > N THEN 0 ELSE N - 1 + 1
        BY <2>1, FS_Interval
    <2> QED BY <2>1, <2>2 DEF Payments
<1>3. IsFiniteSet(L) /\ Cardinality(L) <= Cardinality(Payments)
    BY <1>1, FS_Subset
<1>4. Cardinality(L) \in Nat
    BY <1>3, FS_CardinalityType
<1> QED BY <1>1, <1>3, <1>4, SparkWalletAssumption

\* The times are compared first and the places of the keys decide between equal
\* ones: the order is strict and total.
LEMMA OrderFacts ==
    ASSUME NEW o \in Orders, NEW x \in Payments, NEW y \in Payments
    PROVE  /\ ~Before(o, x, x)
           /\ x # y => Before(o, x, y) \/ Before(o, y, x)
           /\ \A z \in Payments : Before(o, z, x) /\ Before(o, x, y) => Before(o, z, y)
<1>1. /\ o.time \in [Payments -> Nat] /\ o.place \in [Payments -> Payments]
      /\ \A p, q \in Payments : o.place[p] = o.place[q] => p = q
    <2>1. o.time \in Times /\ o.place \in Injection(Payments, Payments)
        BY DEF Orders
    <2>2. o.place \in [Payments -> Payments] /\ DOMAIN o.place = Payments
        BY <2>1 DEF Injection
    <2>3. \A p, q \in DOMAIN o.place : o.place[p] = o.place[q] => p = q
        BY <2>1 DEF Injection, IsInjective
    <2> QED BY <2>1, <2>2, <2>3, SparkWalletAssumption
<1>2. \A p \in Payments : o.time[p] \in Nat /\ o.place[p] \in Nat
    BY <1>1, SparkWalletAssumption DEF Payments
<1> QED BY <1>1, <1>2 DEF Before

\* A payment's rank is below the number of payments, and an earlier payment has
\* a lower one.
LEMMA RankFacts ==
    ASSUME NEW L, L \subseteq Payments, NEW o \in Orders, NEW p \in L
    PROVE  /\ Rank(L, o, p) \in 0..(Cardinality(L) - 1)
           /\ \A q \in L : Before(o, q, p) => Rank(L, o, q) < Rank(L, o, p)
<1> DEFINE B(x) == {q \in L : Before(o, q, x)}
<1>2. IsFiniteSet(L) /\ Cardinality(L) \in Nat
    BY SomeFinite
<1>3. \A x \in L : B(x) \subseteq L /\ x \notin B(x)
    BY OrderFacts
<1>4. \A x, y \in L : Before(o, x, y) => B(x) \subseteq B(y) /\ x \in B(y)
    <2> SUFFICES ASSUME NEW x \in L, NEW y \in L, Before(o, x, y)
                 PROVE  \A z \in L : Before(o, z, x) => Before(o, z, y)
        OBVIOUS
    <2>1. x \in Payments /\ y \in Payments /\ \A z \in L : z \in Payments
        OBVIOUS
    <2> QED BY <2>1, OrderFacts
<1>5. \A x : Rank(L, o, x) = Cardinality(B(x))
    BY DEF Rank
<1> HIDE DEF B
<1>6. \A x \in L : IsFiniteSet(B(x)) /\ Cardinality(B(x)) \in Nat
    BY <1>2, <1>3, FS_Subset, FS_CardinalityType
<1>7. Cardinality(B(p)) < Cardinality(L)
    <2>1. /\ Cardinality(B(p)) <= Cardinality(L)
          /\ Cardinality(L) = Cardinality(B(p)) => L = B(p)
        BY <1>2, <1>3, FS_Subset
    <2>2. L # B(p)
        BY <1>3
    <2> QED BY <1>2, <1>6, <2>1, <2>2
<1>8. ASSUME NEW q \in L, Before(o, q, p) PROVE Cardinality(B(q)) < Cardinality(B(p))
    <2>1. B(q) \subseteq B(p) /\ B(q) # B(p)
        BY <1>3, <1>4, <1>8
    <2>2. /\ Cardinality(B(q)) <= Cardinality(B(p))
          /\ Cardinality(B(p)) = Cardinality(B(q)) => B(p) = B(q)
        BY <1>6, <2>1, FS_Subset
    <2> QED BY <1>6, <2>1, <2>2
<1> QED BY <1>2, <1>5, <1>6, <1>7, <1>8

\* Different payments have different ranks.
LEMMA RankInjective ==
    ASSUME NEW L, L \subseteq Payments, NEW o \in Orders, NEW p \in L, NEW q \in L, p # q
    PROVE  Rank(L, o, p) # Rank(L, o, q)
<1>1. Rank(L, o, p) \in Int /\ Rank(L, o, q) \in Int
    BY RankFacts, SomeFinite
<1>2. Before(o, p, q) \/ Before(o, q, p)
    BY OrderFacts
<1>3. CASE Before(o, p, q)
    <2>1. Rank(L, o, p) < Rank(L, o, q)
        BY <1>3, RankFacts
    <2> QED BY <1>1, <2>1
<1>4. CASE Before(o, q, p)
    <2>1. Rank(L, o, q) < Rank(L, o, p)
        BY <1>4, RankFacts
    <2> QED BY <1>1, <2>1
<1> QED BY <1>2, <1>3, <1>4

\* Every number below that of the payments is the rank of one.
LEMMA RankOnto ==
    ASSUME NEW L, L \subseteq Payments, NEW o \in Orders, NEW k \in 1..Cardinality(L)
    PROVE  \E p \in L : Rank(L, o, p) = k - 1
<1> DEFINE n == Cardinality(L)
           f == [p \in L |-> Rank(L, o, p) + 1]
<1>0. n \in Nat
    BY SomeFinite
<1>1. \A p \in L : Rank(L, o, p) \in 0..(n - 1)
    BY RankFacts
<1>2. f \in [L -> 1..n]
    BY <1>0, <1>1
<1>3. ASSUME NEW p \in L, NEW q \in L, p # q PROVE f[p] # f[q]
    <2>1. Rank(L, o, p) # Rank(L, o, q)
        BY <1>3, RankInjective
    <2> QED BY <1>0, <1>1, <2>1
<1>4. IsFiniteSet(1..n) /\ Cardinality(1..n) = n
    <2>1. IsFiniteSet(1..n) /\ Cardinality(1..n) = IF 1 > n THEN 0 ELSE n - 1 + 1
        BY <1>0, FS_Interval
    <2> QED BY <1>0, <2>1
<1>5. \A p \in L : f[p] = Rank(L, o, p) + 1
    OBVIOUS
<1> HIDE DEF f
<1>6. f \in Injection(L, 1..n)
    <2>1. DOMAIN f = L
        BY <1>2
    <2> QED BY <1>2, <1>3, <2>1 DEF Injection, IsInjective
<1>7. f \in Surjection(L, 1..n)
    <2>1. Cardinality(L) = Cardinality(1..n)
        BY <1>4
    <2> QED BY <1>4, <1>6, <2>1, FS_Injection
<1>8. PICK p \in L : f[p] = k
    BY <1>7 DEF Surjection
<1> QED BY <1>0, <1>1, <1>5, <1>8

\* Sorted has each payment at the place its rank says, earlier ones first.
LEMMA SortedFacts ==
    ASSUME NEW L, L \subseteq Payments, NEW o \in Orders
    PROVE  LET all == Sorted(L, o)
               n == Cardinality(L)
           IN  /\ all \in [1..n -> L] /\ all \in Seq(L) /\ Len(all) = n
               /\ \A k \in 1..n, p \in L : all[k] = p <=> k = Rank(L, o, p) + 1
               /\ \A k, l \in 1..n : k < l => Before(o, all[k], all[l])
<1> DEFINE all == Sorted(L, o)
           n == Cardinality(L)
<1>0. n \in Nat
    BY SomeFinite
<1>1. all = [k \in 1..n |-> CHOOSE p \in L : Rank(L, o, p) = k - 1]
    BY DEF Sorted, Rank
<1>2. \A k \in 1..n : all[k] \in L /\ Rank(L, o, all[k]) = k - 1
    <2> SUFFICES ASSUME NEW k \in 1..n PROVE all[k] \in L /\ Rank(L, o, all[k]) = k - 1
        OBVIOUS
    <2>1. all[k] = CHOOSE p \in L : Rank(L, o, p) = k - 1
        BY <1>1
    <2>2. \E p \in L : Rank(L, o, p) = k - 1
        BY RankOnto
    <2> HIDE DEF all
    <2> QED BY <2>1, <2>2
<1>3. DOMAIN all = 1..n
    BY <1>1
<1>4. all \in [1..n -> L]
    BY <1>1, <1>2
<1> HIDE DEF all
<1>5. all \in Seq(L) /\ Len(all) = n
    BY <1>0, <1>3, <1>4
<1>6. ASSUME NEW x \in L, NEW y \in L, ~Before(o, x, y), x # y
      PROVE  Rank(L, o, y) < Rank(L, o, x)
    <2>1. Before(o, y, x)
        BY <1>6, OrderFacts
    <2> QED BY <2>1, RankFacts
<1>7. ASSUME NEW k \in 1..n, NEW l \in 1..n, k < l PROVE Before(o, all[k], all[l])
    <2> DEFINE x == all[k]
               y == all[l]
    <2>1. /\ x \in L /\ y \in L
          /\ Rank(L, o, x) = k - 1 /\ Rank(L, o, y) = l - 1
        BY <1>2
    <2> HIDE DEF x, y
    <2>2. x # y
        BY <1>0, <1>7, <2>1
    <2>3. ~(Rank(L, o, y) < Rank(L, o, x))
        BY <1>0, <1>7, <2>1
    <2>4. Before(o, x, y)
        BY <1>6, <2>1, <2>2, <2>3, Zenon
    <2> QED BY <2>4 DEF x, y
<1>8. ASSUME NEW k \in 1..n, NEW p \in L PROVE all[k] = p <=> k = Rank(L, o, p) + 1
    <2>1. all[k] \in L /\ Rank(L, o, all[k]) = k - 1 /\ Rank(L, o, p) \in 0..(n - 1)
        BY <1>2, RankFacts
    <2>2. all[k] # p => Rank(L, o, all[k]) # Rank(L, o, p)
        BY <2>1, RankInjective
    <2>3. all[k] = p => Rank(L, o, p) = k - 1
        BY <2>1
    <2> QED BY <1>0, <2>1, <2>2, <2>3
<1> QED BY <1>4, <1>5, <1>7, <1>8 DEF all

\* The page of `limit` payments from an offset on holds the payments at the
\* places after it, as far as there are any.
LEMMA PageFacts ==
    ASSUME NEW L, L \subseteq Payments, NEW o \in Orders, NEW from \in Nat, NEW limit \in Nat
    PROVE  LET page == Page(L, o, from, limit)
               all == Sorted(L, o)
               n == Cardinality(L)
           IN  /\ Len(page) \in 0..limit /\ DOMAIN page = 1..Len(page)
               /\ \A k \in DOMAIN page : from + k \in 1..n /\ page[k] = all[from + k]
               /\ \A x \in 1..n : from < x /\ x <= from + limit => x - from \in DOMAIN page
<1> DEFINE all == Sorted(L, o)
           n == Cardinality(L)
           m == Min({from + limit, n})
           page == SubSeq(all, from + 1, m)
<1>1. all \in Seq(L) /\ Len(all) = n /\ n \in Nat
    BY SortedFacts, SomeFinite
<1>2. Page(L, o, from, limit) = page
    BY DEF Page
<1> HIDE DEF all, n
<1>4. m = IF from + limit <= n THEN from + limit ELSE n
    BY <1>1 DEF Min
<1> HIDE DEF m
<1>6. CASE from + 1 <= m
    <2>1. /\ page \in Seq(L) /\ Len(page) = m - from
          /\ \A k \in 1..(m - from) : page[k] = all[from + k]
        BY <1>1, <1>4, <1>6, SubSeqProperties
    <2> HIDE DEF page
    <2>2. DOMAIN page = 1..(m - from) /\ m \in Nat /\ m <= n /\ m - from \in 0..limit
        BY <1>1, <1>4, <1>6, <2>1
    <2> QED BY <1>1, <1>2, <1>4, <1>6, <2>1, <2>2 DEF all, n
<1>7. CASE ~(from + 1 <= m)
    <2>1. page = << >>
        BY <1>1, <1>4, <1>7, SubSeqEmpty
    <2> HIDE DEF page
    <2>2. Len(page) = 0 /\ DOMAIN page = {}
        BY <2>1
    <2>3. DOMAIN page = 1..Len(page)
        BY <2>2
    <2> QED BY <1>1, <1>2, <1>4, <1>7, <2>2, <2>3 DEF all, n
<1> QED BY <1>6, <1>7

\* Successive pages of a size overlap nowhere.
LEMMA PagesApart ==
    ASSUME NEW i \in Nat, NEW j \in Nat, NEW limit \in Nat, i < j,
           NEW k \in 1..limit, NEW l \in Nat \ {0}
    PROVE  (i - 1) * limit + k < (j - 1) * limit + l
<1> DEFINE d == j - 1 - i
<1>1. d \in Nat /\ j - 1 = i + d
    OBVIOUS
<1> HIDE DEF d
<1>2. (j - 1) * limit = i * limit + d * limit /\ d * limit \in Nat /\ i * limit \in Nat
    BY <1>1
<1>3. (i - 1) * limit = i * limit - limit
    OBVIOUS
<1> QED BY <1>2, <1>3

\* Every place is on one of the pages.
LEMMA OnSomePage ==
    ASSUME NEW x \in 1..N, NEW limit \in 1..N
    PROVE  \E i \in 1..N : (i - 1) * limit < x /\ x <= (i - 1) * limit + limit
<1> DEFINE T == {i \in Nat : x <= i * limit}
<1>0. N \in Nat
    BY SparkWalletAssumption
<1>1. x \in T
    <2>1. PICK d \in Nat : limit = 1 + d
        BY <1>0
    <2>2. x * limit = x + x * d /\ x * d \in Nat
        BY <1>0, <2>1
    <2> QED BY <1>0, <2>2
<1>2. \E m \in T : \A i \in T : ~(<<i, m>> \in OpToRel(<, Nat))
    BY <1>1, NatLessThanWellFounded, WFMin
<1>3. PICK m \in T : \A i \in T : ~(i < m)
    BY <1>2 DEF OpToRel
<1>4. m \in 1..N
    <2>1. m <= x
        BY <1>0, <1>1, <1>3
    <2>2. m # 0
        BY <1>0, <1>3
    <2> QED BY <1>0, <1>3, <2>1, <2>2
<1>5. m - 1 \in Nat /\ m - 1 \notin T
    BY <1>0, <1>3, <1>4
<1>6. (m - 1) * limit < x
    BY <1>0, <1>5
<1>7. (m - 1) * limit + limit = m * limit
    BY <1>0, <1>4
<1> QED BY <1>3, <1>4, <1>6, <1>7

\* A payment whose place does not depend on the listing has the same rank on
\* every page.
LEMMA FixedRank ==
    ASSUME NEW L, L \subseteq Payments, NEW orders \in [1..N -> Orders], NEW p \in L,
           NEW i \in 1..N, NEW j \in 1..N, Fixed(L, orders, p),
           orders[i].time = orders[j].time, orders[i].ascending = orders[j].ascending
    PROVE  Rank(L, orders[i], p) = Rank(L, orders[j], p)
<1> DEFINE a == orders[i]
           b == orders[j]
<1>1. a \in Orders /\ b \in Orders /\ p \in Payments
    OBVIOUS
<1>2. a = b \/ \A q \in L \ {p} : a.time[q] # a.time[p]
    BY DEF Fixed
<1>3. a.time = b.time /\ a.ascending = b.ascending
    OBVIOUS
<1> HIDE DEF a, b
<1>4. CASE \A q \in L \ {p} : a.time[q] # a.time[p]
    <2>1. ASSUME NEW q \in L PROVE Before(a, q, p) <=> Before(b, q, p)
        <3>1. CASE q = p
            BY <1>1, <3>1, OrderFacts
        <3>2. CASE q # p
            <4>1. a.time[q] # a.time[p]
                BY <1>4, <3>2
            <4> QED BY <1>3, <4>1 DEF Before
        <3> QED BY <3>1, <3>2
    <2>2. {q \in L : Before(a, q, p)} = {q \in L : Before(b, q, p)}
        BY <2>1
    <2>3. Rank(L, a, p) = Rank(L, b, p)
        BY <2>2 DEF Rank
    <2> QED BY <2>3 DEF a, b
<1> QED BY <1>2, <1>4 DEF a, b

\* Pages of any size list every set of payments well.
LEMMA PagesSuffice == ASSUME NEW L, L \subseteq Payments PROVE WellPaged(L)
<1> SUFFICES ASSUME NEW limit \in 1..N, NEW ascending \in BOOLEAN, NEW time \in Times,
                    NEW place \in [1..N -> Injection(Payments, Payments)]
             PROVE  LET orders == [i \in 1..N |-> [ascending |-> ascending, time |-> time,
                                                   place |-> place[i]]]
                        pages == [i \in 1..N |-> Page(L, orders[i], (i - 1) * limit, limit)]
                    IN  /\ \A i \in 1..N :
                              /\ Len(pages[i]) <= limit
                              /\ \A k, l \in DOMAIN pages[i] :
                                    k < l => Before(orders[i], pages[i][k], pages[i][l])
                        /\ \A p \in L : Fixed(L, orders, p) =>
                              \E at \in PlacesOf(p, pages) : PlacesOf(p, pages) = {at}
    BY DEF WellPaged
<1> DEFINE O(i) == [ascending |-> ascending, time |-> time, place |-> place[i]]
           orders == [i \in 1..N |-> O(i)]
           pages == [i \in 1..N |-> Page(L, orders[i], (i - 1) * limit, limit)]
           n == Cardinality(L)
           from(i) == (i - 1) * limit
<1>0. N \in Nat /\ limit \in Nat /\ n \in 0..N
    BY SparkWalletAssumption, SomeFinite
<1>1. \A i \in 1..N : from(i) \in Nat /\ O(i) \in Orders /\ orders[i] = O(i)
    BY <1>0 DEF Orders
<1>2. ASSUME NEW i \in 1..N
      PROVE  /\ Len(pages[i]) \in 0..limit /\ DOMAIN pages[i] = 1..Len(pages[i])
             /\ \A k \in DOMAIN pages[i] :
                   from(i) + k \in 1..n /\ pages[i][k] = Sorted(L, O(i))[from(i) + k]
             /\ \A x \in 1..n :
                   from(i) < x /\ x <= from(i) + limit => x - from(i) \in DOMAIN pages[i]
    <2>1. pages[i] = Page(L, O(i), from(i), limit) /\ from(i) \in Nat /\ O(i) \in Orders
        BY <1>1
    <2> HIDE DEF pages, O, from
    <2> QED BY <1>0, <2>1, PageFacts
<1>3. ASSUME NEW i \in 1..N
      PROVE  /\ \A k \in 1..n, p \in L : Sorted(L, O(i))[k] = p <=> k = Rank(L, O(i), p) + 1
             /\ \A k, l \in 1..n : k < l => Before(O(i), Sorted(L, O(i))[k], Sorted(L, O(i))[l])
    <2>1. O(i) \in Orders
        BY <1>1
    <2> HIDE DEF O
    <2> QED BY <2>1, SortedFacts
<1>4. ASSUME NEW i \in 1..N
      PROVE  /\ Len(pages[i]) <= limit
             /\ \A k, l \in DOMAIN pages[i] :
                   k < l => Before(orders[i], pages[i][k], pages[i][l])
    <2>0. Len(pages[i]) \in 0..limit /\ DOMAIN pages[i] = 1..Len(pages[i])
        BY <1>2
    <2>1. Len(pages[i]) <= limit
        <3> HIDE DEF pages
        <3> QED BY <1>0, <2>0
    <2>2. ASSUME NEW k \in DOMAIN pages[i], NEW l \in DOMAIN pages[i], k < l
          PROVE  Before(orders[i], pages[i][k], pages[i][l])
        <3>1. /\ from(i) + k \in 1..n /\ pages[i][k] = Sorted(L, O(i))[from(i) + k]
              /\ from(i) + l \in 1..n /\ pages[i][l] = Sorted(L, O(i))[from(i) + l]
            BY <1>2
        <3>2. from(i) + k < from(i) + l
            <4>1. k \in Nat /\ l \in Nat /\ from(i) \in Nat
                <5>1. from(i) \in Nat
                    BY <1>1
                <5> HIDE DEF pages, from
                <5> QED BY <1>0, <2>0, <5>1
            <4> HIDE DEF from
            <4> QED BY <2>2, <4>1
        <3>3. orders[i] = O(i)
            BY <1>1
        <3> HIDE DEF pages, orders, O, from
        <3> QED BY <1>3, <3>1, <3>2, <3>3
    <2> QED BY <2>1, <2>2
<1>5. ASSUME NEW p \in L, Fixed(L, orders, p)
      PROVE  \E at \in PlacesOf(p, pages) : PlacesOf(p, pages) = {at}
    <2>0. 1 \in 1..N
        BY <1>0
    <2> DEFINE x == Rank(L, O(1), p) + 1
    <2>1. \A i \in 1..N : Rank(L, O(i), p) + 1 = x
        <3> SUFFICES ASSUME NEW i \in 1..N PROVE Rank(L, O(i), p) + 1 = x
            OBVIOUS
        <3>1. /\ orders \in [1..N -> Orders] /\ orders[i] = O(i) /\ orders[1] = O(1)
              /\ O(i).time = O(1).time /\ O(i).ascending = O(1).ascending
            BY <1>1, <2>0
        <3>2. Rank(L, O(i), p) = Rank(L, O(1), p)
            <4> HIDE DEF O, orders, pages
            <4>1. orders[i].time = orders[1].time /\ orders[i].ascending = orders[1].ascending
                BY <3>1
            <4>2. orders \in [1..N -> Orders] /\ Fixed(L, orders, p)
                BY <1>5, <3>1
            <4>3. Rank(L, orders[i], p) = Rank(L, orders[1], p)
                BY <2>0, <4>1, <4>2, FixedRank
            <4> QED BY <3>1, <4>3
        <3> HIDE DEF O
        <3> QED BY <3>2
    <2>2. x \in 1..n /\ x \in 1..N
        <3>1. Rank(L, O(1), p) \in 0..(n - 1)
            BY <1>1, <2>0, RankFacts
        <3> HIDE DEF O
        <3> QED BY <1>0, <3>1
    <2> HIDE DEF x
    <2>3. \A i \in 1..N : \A k \in DOMAIN pages[i] : pages[i][k] = p <=> from(i) + k = x
        <3> SUFFICES ASSUME NEW i \in 1..N, NEW k \in DOMAIN pages[i]
                     PROVE  pages[i][k] = p <=> from(i) + k = x
            OBVIOUS
        <3>1. from(i) + k \in 1..n /\ pages[i][k] = Sorted(L, O(i))[from(i) + k]
            BY <1>2
        <3>2. Rank(L, O(i), p) + 1 = x
            BY <2>1
        <3> HIDE DEF pages, O, from
        <3> QED BY <1>3, <3>1, <3>2
    <2>4. PICK i \in 1..N : from(i) < x /\ x <= from(i) + limit
        BY <2>2, OnSomePage
    <2> DEFINE k == x - from(i)
    <2>5. k \in DOMAIN pages[i]
        BY <1>2, <2>2, <2>4
    <2>6. from(i) + k = x
        <3>1. from(i) \in Nat /\ x \in Nat
            BY <1>0, <1>1, <2>2
        <3> HIDE DEF from
        <3> QED BY <3>1
    <2> HIDE DEF k
    <2>7. \A h \in 1..N : \A z \in DOMAIN pages[h] : z \in 1..limit
        <3> SUFFICES ASSUME NEW h \in 1..N, NEW z \in DOMAIN pages[h] PROVE z \in 1..limit
            OBVIOUS
        <3>1. z \in 1..Len(pages[h]) /\ Len(pages[h]) \in 0..limit
            BY <1>2
        <3> HIDE DEF pages
        <3> QED BY <1>0, <3>1
    <2>8. ASSUME NEW j \in 1..N, NEW l \in DOMAIN pages[j], from(j) + l = x
          PROVE  j = i /\ l = k
        <3>1. k \in 1..limit /\ l \in 1..limit
            BY <2>5, <2>7
        <3>2. ~(i < j)
            <4>1. ASSUME i < j PROVE FALSE
                <5>1. from(i) + k < from(j) + l
                    BY <1>0, <3>1, <4>1, PagesApart
                <5>2. from(i) + k \in Nat
                    BY <1>0, <2>2, <2>6
                <5> HIDE DEF from
                <5> QED BY <2>6, <2>8, <5>1, <5>2
            <4> QED BY <4>1
        <3>3. ~(j < i)
            <4>1. ASSUME j < i PROVE FALSE
                <5>1. from(j) + l < from(i) + k
                    BY <1>0, <3>1, <4>1, PagesApart
                <5>2. from(i) + k \in Nat
                    BY <1>0, <2>2, <2>6
                <5> HIDE DEF from
                <5> QED BY <2>6, <2>8, <5>1, <5>2
            <4> QED BY <4>1
        <3>4. j = i
            BY <1>0, <3>2, <3>3
        <3>5. from(i) \in Nat /\ k \in Nat /\ l \in Nat
            BY <1>0, <1>1, <3>1
        <3> HIDE DEF from
        <3> QED BY <2>6, <2>8, <3>4, <3>5
    <2> HIDE DEF pages, from
    <2>9. <<i, k>> \in PlacesOf(p, pages)
        <3>1. i \in 1..N /\ k \in 1..N /\ k \in DOMAIN pages[i] /\ pages[i][k] = p
            <4>1. k \in 1..limit
                BY <2>5, <2>7
            <4> QED BY <1>0, <2>3, <2>5, <2>6, <4>1
        <3> QED BY <3>1 DEF PlacesOf
    <2>10. ASSUME NEW at \in PlacesOf(p, pages) PROVE at = <<i, k>>
        <3>1. PICK j \in 1..N, l \in 1..N : at = <<j, l>>
            BY DEF PlacesOf
        <3>2. l \in DOMAIN pages[j] /\ pages[j][l] = p
            BY <3>1 DEF PlacesOf
        <3>3. from(j) + l = x
            BY <2>3, <3>2
        <3> QED BY <2>8, <3>1, <3>2, <3>3
    <2> QED BY <2>9, <2>10
<1> QED BY <1>4, <1>5, Zenon

\* Once the SDK runs, list_payments can read every payment, whatever the earlier
\* versions stored and however often the migration was interrupted, and for any
\* times and any answers of KVStore::list successive pages of any size list each
\* payment once.  Payments of the same second are excepted, unless the listing
\* is the same for every page.
THEOREM PagesComplete == Spec => []ListedInPages
<1>1. Spec => []ReadableInv
    BY TypeAlways, ReadableInit, ReadableNext, PTL DEF Spec
<1>2. AllWellPaged
    BY PagesSuffice DEF AllWellPaged
<1>3. ReadableInv /\ AllWellPaged => ListedInPages
    BY DEF ReadableInv, ListedInPages, AllParse, Listed, Legacy
<1> QED BY <1>1, <1>2, <1>3, PTL

-----------------------------------------------------------------------------
(* The announcements.                                                      *)

\* Nothing is announced at first.
LEMMA OnceInit == Init => OnceInv
<1> SUFFICES ASSUME Init PROVE OnceInv
    OBVIOUS
<1>1. \A t \in Tasks : call[t].pc = "idle"
    BY DEF Init, Idle
<1>2. ASSUME NEW p \in Payments
      PROVE  /\ emitted[p] # <<>> => Settled(p) /\ emitted[p] = <<stored[p].status>>
             /\ shown[p] = <<>>
    BY DEF Init, Settled
<1>3. \A p \in Payments : Len(shown[p]) <= 1
    BY <1>2
<1>4. AnnounceInv
    BY <1>1 DEF AnnounceInv
<1> QED BY <1>2, <1>3, <1>4 DEF OnceInv, EmittedInv

\* A step that keeps every stored status and every task's call leaves the
\* invariant as it was; so does one after which no task is at work.
LEMMA OnceFrame ==
    ASSUME OnceInv, UNCHANGED <<emitted, shown>>,
           \A p \in Payments : Settled(p) => Settled(p)' /\ stored'[p].status = stored[p].status,
           \/ call' = call /\ \A p \in Payments : Settled(p)' => Settled(p)
           \/ \A t \in Tasks : call'[t].pc = "idle",
           \A t \in Tasks : call[t].pc # "idle" => call[t].p \in Payments
    PROVE  OnceInv'
<1>1. EmittedInv'
    BY DEF OnceInv, EmittedInv
<1>2. CASE \A t \in Tasks : call'[t].pc = "idle"
    BY <1>1, <1>2 DEF OnceInv, AnnounceInv
<1>3. CASE call' = call /\ \A p \in Payments : Settled(p)' => Settled(p)
    <2>1. ASSUME NEW t \in Tasks, call'[t].pc \in {"write", "emit"}
          PROVE  /\ call'[t] = call[t]
                 /\ Settled(call[t].p)' <=> Settled(call[t].p)
                 /\ Settled(call[t].p) => stored'[call[t].p].status = stored[call[t].p].status
        BY <1>3, <2>1 DEF Settled
    <2>2. AnnounceInv'
        BY <1>3, <2>1 DEF OnceInv, AnnounceInv
    <2> QED BY <1>1, <2>2 DEF OnceInv
<1> QED BY <1>2, <1>3

\* A task whose step changes no payment and announces nothing may only turn to
\* writing, and only as the invariant allows it.
LEMMA OnceTurns ==
    ASSUME TypeInv, OnceInv, UNCHANGED <<stored, emitted, shown>>,
           NEW t \in Tasks, NEW d \in Call, call' = [call EXCEPT ![t] = d],
           d.pc # "emit",
           d.pc = "write" => /\ d.emit => IsFinal(d.status) /\ ~Settled(d.p)
                             /\ Settled(d.p) => stored[d.p].status = d.status
    PROVE  OnceInv'
<1>1. call'[t] = d /\ \A u \in Tasks : u # t => call'[u] = call[u]
    BY CallPut DEF TypeInv, ProcessTypes
<1>2. EmittedInv'
    BY DEF OnceInv, EmittedInv, Settled
<1>3. \A u \in Tasks : call'[u].pc = "emit" => call'[u] = call[u]
    BY <1>1
<1>4. \A u \in Tasks : call'[u].pc = "write" =>
          /\ call'[u].emit => IsFinal(call'[u].status) /\ ~Settled(call'[u].p)
          /\ Settled(call'[u].p) => stored[call'[u].p].status = call'[u].status
    BY <1>1 DEF OnceInv, AnnounceInv
<1>5. \A u \in Tasks : call'[u].pc = "emit" =>
          /\ Settled(call'[u].p) /\ stored[call'[u].p].status = call'[u].status
          /\ emitted[call'[u].p] = <<>>
    BY <1>3 DEF OnceInv, AnnounceInv
<1>6. \A u, v \in Tasks : call'[u].pc = "emit" /\ call'[v].pc = "emit" /\ call'[u].p = call'[v].p
                          => u = v
    BY <1>3 DEF OnceInv, AnnounceInv
<1>7. AnnounceInv'
    BY <1>4, <1>5, <1>6 DEF AnnounceInv, Settled
<1> QED BY <1>2, <1>7 DEF OnceInv

\* The lock is what keeps the status that a task has read from changing before
\* it writes: a final status is replaced by itself only.
LEMMA OnceWrites ==
    ASSUME TypeInv, OnceInv, NEW t \in Tasks, WritePayment(t)
    PROVE  OnceInv'
<1> DEFINE Final(p) == stored'[p] # None /\ IsFinal(stored'[p].status)
<1> PICK c : c = call[t]
    OBVIOUS
<1>0. /\ call \in [Tasks -> Call] /\ c \in Call /\ c.pc = "write"
      /\ UNCHANGED <<emitted, shown>>
    BY WriteStep DEF TypeInv, ProcessTypes
<1>1. c.p \in Payments /\ c.status \in Statuses
    BY <1>0, CallFields
<1>2. PICK d \in Call :
          /\ call' = [call EXCEPT ![t] = d]
          /\ \/ d.pc # "emit" /\ stored' = stored
             \/ d.pc # "emit" /\ stored' = Written(c)
             \/ /\ c.emit /\ stored' = Written(c)
                /\ d.pc = "emit" /\ d.p = c.p /\ d.status = c.status
    <2>1. Returned(c).pc # "emit" /\ Idle.pc # "emit"
        BY <1>0, CallFields, ReturnedFacts DEF Idle
    <2> QED BY <2>1, WriteStep
<1>3. call'[t] = d /\ \A u \in Tasks : u # t => call'[u] = call[u]
    BY <1>0, <1>2
<1>4. lock = t /\ lock' = None
    BY <1>0, WriteStep DEF TypeInv, LockInv
<1>5. \A u \in Tasks : call'[u].pc # "write"
    <2>1. TypeInv'
        BY TypeNext DEF Next, Work
    <2> QED BY <1>4, <2>1, SparkWalletAssumption DEF TypeInv, LockInv
<1>6. /\ c.emit => IsFinal(c.status) /\ ~Settled(c.p)
      /\ Settled(c.p) => stored[c.p].status = c.status
    BY <1>0 DEF OnceInv, AnnounceInv
<1>7. PICK w : w = Written(c)
    OBVIOUS
<1>8. /\ w[c.p] # None /\ w[c.p].status = c.status
      /\ \A p \in Payments : p # c.p => w[p] = stored[p]
    <2>1. [status |-> c.status, details |-> "full"].status = c.status
        OBVIOUS
    <2> QED BY <1>0, <1>7, <2>1, WrittenFacts DEF TypeInv
<1>9. stored' = stored \/ stored' = w
    BY <1>2, <1>7
<1>10. ASSUME NEW p \in Payments, Settled(p)
       PROVE  Final(p) /\ stored'[p].status = stored[p].status
    BY <1>6, <1>8, <1>9, <1>10 DEF Settled
<1>11. EmittedInv'
    <2>1. \A p \in Payments : Settled(p)' <=> Final(p)
        BY DEF Settled
    <2> HIDE DEF Final
    <2> QED BY <1>0, <1>10, <2>1 DEF OnceInv, EmittedInv
<1>12. d.pc = "emit" =>
          /\ Final(d.p) /\ stored'[d.p].status = d.status /\ emitted[d.p] = <<>>
          /\ \A u \in Tasks : call[u].pc = "emit" => call[u].p # d.p
    <2> SUFFICES ASSUME d.pc = "emit"
                 PROVE  /\ Final(d.p) /\ stored'[d.p].status = d.status /\ emitted[d.p] = <<>>
                        /\ \A u \in Tasks : call[u].pc = "emit" => call[u].p # d.p
        OBVIOUS
    <2>1. c.emit /\ stored' = w /\ d.p = c.p /\ d.status = c.status
        BY <1>2, <1>7
    <2>2. IsFinal(c.status) /\ ~Settled(c.p)
        BY <1>6, <2>1
    <2>3. emitted[c.p] = <<>>
        BY <1>1, <2>2 DEF OnceInv, EmittedInv
    <2>4. \A u \in Tasks : call[u].pc = "emit" => call[u].p # c.p
        BY <2>2 DEF OnceInv, AnnounceInv
    <2> QED BY <1>8, <2>1, <2>2, <2>3, <2>4
<1>13. ASSUME NEW u \in Tasks, u # t, call'[u].pc = "emit"
       PROVE  /\ call'[u] = call[u] /\ call[u].pc = "emit"
              /\ Final(call[u].p) /\ stored'[call[u].p].status = call[u].status
              /\ emitted[call[u].p] = <<>>
    <2>1. call'[u] = call[u] /\ call[u].pc = "emit" /\ call[u].p \in Payments
        BY <1>0, <1>3, <1>13, CallFields
    <2>2. /\ Settled(call[u].p) /\ stored[call[u].p].status = call[u].status
          /\ emitted[call[u].p] = <<>>
        BY <2>1 DEF OnceInv, AnnounceInv
    <2> HIDE DEF Final
    <2> QED BY <1>10, <2>1, <2>2
<1>14. AnnounceInv'
    <2>1. \A u \in Tasks : call'[u].pc = "emit" =>
              Final(call'[u].p) /\ stored'[call'[u].p].status = call'[u].status /\ emitted[call'[u].p] = <<>>
        <3> HIDE DEF Final
        <3> QED BY <1>3, <1>12, <1>13
    <2>2. \A u, v \in Tasks : call'[u].pc = "emit" /\ call'[v].pc = "emit" /\ call'[u].p = call'[v].p
                              => u = v
        <3>1. \A u, v \in Tasks : call[u].pc = "emit" /\ call[v].pc = "emit" /\ call[u].p = call[v].p
                                  => u = v
            BY DEF OnceInv, AnnounceInv
        <3> HIDE DEF Final
        <3> QED BY <1>3, <1>12, <3>1
    <2> QED BY <1>0, <1>5, <2>1, <2>2 DEF AnnounceInv, Settled
<1> QED BY <1>11, <1>14 DEF OnceInv

\* Only the task that wrote the final status announces it, and once.
LEMMA OnceEmits ==
    ASSUME TypeInv, OnceInv, NEW t \in Tasks, Emit(t)
    PROVE  OnceInv'
<1> PICK c : c = call[t]
    OBVIOUS
<1>0. /\ call \in [Tasks -> Call] /\ c \in Call /\ c.pc = "emit" /\ stored' = stored
      /\ call' = [call EXCEPT ![t] = Returned(c)]
      /\ emitted' = [emitted EXCEPT ![c.p] = Append(@, c.status)]
      /\ shown' = shown \/ shown' = [shown EXCEPT ![c.p] = @ \o EventOf(c.p, c.status)]
    BY EmitStep DEF TypeInv, ProcessTypes, disk
<1>1. c.p \in Payments /\ c.status \in Statuses
    BY <1>0, CallFields
<1>2. call'[t] = Returned(c) /\ \A u \in Tasks : u # t => call'[u] = call[u]
    BY <1>0
<1>3. Returned(c).pc \notin {"write", "emit"}
    BY <1>0, CallFields, ReturnedFacts
<1>4. /\ Settled(c.p) /\ stored[c.p].status = c.status /\ emitted[c.p] = <<>>
      /\ \A u \in Tasks : u # t /\ call[u].pc = "emit" => call[u].p # c.p
    BY <1>0 DEF OnceInv, AnnounceInv
<1>5. shown[c.p] = <<>>
    BY <1>1, <1>4 DEF OnceInv, EmittedInv
<1>6. /\ emitted'[c.p] = <<c.status>>
      /\ \A p \in Payments : p # c.p => emitted'[p] = emitted[p]
    <2>1. Append(<<>>, c.status) = <<c.status>>
        OBVIOUS
    <2> QED BY <1>0, <1>1, <1>4, <2>1 DEF TypeInv, StoreTypes
<1>7. /\ Len(shown'[c.p]) <= 1
      /\ \A p \in Payments : p # c.p => shown'[p] = shown[p]
    <2>1. PICK e : e = EventOf(c.p, c.status)
        OBVIOUS
    <2>2. Len(<<>> \o e) <= 1 /\ Len(<<>>) <= 1
        <3>1. /\ e \in Seq({"PaymentSuccessful", "PaymentFailed", "PaymentReceived"})
              /\ Len(e) <= 1
            BY <1>1, <2>1, EventOfSeq
        <3> QED BY <3>1
    <2>3. shown' = shown \/ shown' = [shown EXCEPT ![c.p] = <<>> \o e]
        BY <1>0, <1>5, <2>1
    <2>4. shown \in [Payments -> Seq({"PaymentSuccessful", "PaymentFailed", "PaymentReceived"})]
        BY DEF TypeInv, StoreTypes
    <2> QED BY <1>1, <1>5, <2>2, <2>3, <2>4
<1>8. EmittedInv'
    <2>1. \A p \in Payments : Settled(p)' <=> Settled(p)
        BY <1>0 DEF Settled
    <2>2. <<c.status>> # <<>>
        OBVIOUS
    <2> QED BY <1>0, <1>1, <1>4, <1>6, <1>7, <2>1, <2>2 DEF OnceInv, EmittedInv
<1>9. \A u \in Tasks : call'[u].pc \in {"write", "emit"} => u # t /\ call'[u] = call[u]
    BY <1>2, <1>3
<1>10. \A u \in Tasks : call'[u].pc = "write" =>
          /\ call'[u].emit => IsFinal(call'[u].status) /\ ~Settled(call'[u].p)
          /\ Settled(call'[u].p) => stored[call'[u].p].status = call'[u].status
    BY <1>9 DEF OnceInv, AnnounceInv
<1>11. \A u \in Tasks : call'[u].pc = "emit" =>
          /\ Settled(call'[u].p) /\ stored[call'[u].p].status = call'[u].status
          /\ emitted'[call'[u].p] = <<>>
    <2> SUFFICES ASSUME NEW u \in Tasks, call'[u].pc = "emit"
                 PROVE  /\ Settled(call[u].p) /\ stored[call[u].p].status = call[u].status
                        /\ emitted'[call[u].p] = <<>>
        BY <1>9
    <2>1. u # t /\ call[u].pc = "emit" /\ call[u].p \in Payments
        BY <1>0, <1>9, CallFields
    <2>2. /\ Settled(call[u].p) /\ stored[call[u].p].status = call[u].status
          /\ emitted[call[u].p] = <<>>
        BY <2>1 DEF OnceInv, AnnounceInv
    <2>3. call[u].p # c.p
        BY <1>4, <2>1
    <2> QED BY <1>6, <2>1, <2>2, <2>3
<1>12. \A u, v \in Tasks : call'[u].pc = "emit" /\ call'[v].pc = "emit" /\ call'[u].p = call'[v].p
                           => u = v
    BY <1>9 DEF OnceInv, AnnounceInv
<1>13. AnnounceInv'
    BY <1>0, <1>10, <1>11, <1>12 DEF AnnounceInv, Settled
<1> QED BY <1>8, <1>13 DEF OnceInv

\* Every step keeps that a payment ends once.
LEMMA OnceNext == TypeInv /\ OnceInv /\ [Next]_vars => OnceInv'
<1> SUFFICES ASSUME TypeInv, OnceInv, [Next]_vars PROVE OnceInv'
    OBVIOUS
<1>0. /\ call \in [Tasks -> Call]
      /\ \A t \in Tasks : call[t].pc # "idle" => call[t].p \in Payments
    BY CallFields DEF TypeInv, ProcessTypes
<1>1. CASE UNCHANGED <<stored, call, emitted, shown>>
    BY <1>0, <1>1, OnceFrame DEF Settled
<1>2. CASE Crash
    <2>1. /\ UNCHANGED <<stored, emitted, shown>>
          /\ \A t \in Tasks : call'[t].pc = "idle"
        BY <1>2 DEF Crash, disk, Idle
    <2> QED BY <1>0, <2>1, OnceFrame DEF Settled
<1>3. ASSUME NEW p \in Payments, EraseDetails(p) PROVE OnceInv'
    <2>1. /\ stored[p] \in Payment /\ UNCHANGED <<call, emitted, shown>>
          /\ stored' = stored \/ stored' = ErasedAt(p)
        BY <1>3, EraseStep DEF told
    <2>2. /\ ErasedAt(p)[p].status = stored[p].status /\ ErasedAt(p)[p] # None
          /\ \A q \in Payments : q # p => ErasedAt(p)[q] = stored[q]
        BY <2>1, ErasedFacts DEF TypeInv
    <2>3. stored[p] # None
        BY <2>1, SparkWalletAssumption
    <2>4. \A q \in Payments : /\ Settled(q)' <=> Settled(q)
                              /\ stored[q] # None => stored'[q].status = stored[q].status
        BY <2>1, <2>2, <2>3 DEF Settled
    <2>5. \A q \in Payments : Settled(q) => Settled(q)' /\ stored'[q].status = stored[q].status
        BY <2>4 DEF Settled
    <2> QED BY <1>0, <2>1, <2>4, <2>5, OnceFrame
<1>4. ASSUME NEW p \in Payments, SkipPayment(p) \/ ResetOffset(p)
      PROVE  UNCHANGED <<stored, call, emitted, shown>>
    BY <1>4, SkipStep, ResetStep DEF disk, told
<1>5. ASSUME Start \/ FinishMigration \/ AddListener \/ RemoveListener \/ UNCHANGED vars
      PROVE  UNCHANGED <<stored, call, emitted, shown>>
    BY <1>5, FinishStep DEF Start, AddListener, RemoveListener, vars, disk, told
<1>6. ASSUME NEW t \in Tasks, SyncNext(t) \/ \E p \in Payments : Report(t, p) PROVE OnceInv'
    <2>1. /\ UNCHANGED <<stored, emitted, shown>>
          /\ \E d \in Call : call' = [call EXCEPT ![t] = d] /\ d.pc = "update"
        BY <1>6, SyncStep, ReportStep DEF disk, told
    <2> QED BY <2>1, OnceTurns
<1>7. ASSUME NEW t \in Tasks, ReadStatus(t) PROVE OnceInv'
    <2> PICK c : c = call[t]
        OBVIOUS
    <2>1. UNCHANGED <<stored, emitted, shown>> /\ c \in Call /\ c.pc = "update"
        BY <1>0, <1>7, ReadStep DEF disk, told
    <2>2. PICK d \in Call :
              /\ call' = [call EXCEPT ![t] = d]
              /\ \/ d = Returned(c)
                 \/ /\ ~(Settled(c.p) /\ stored[c.p].status # c.status)
                    /\ d.pc = "write" /\ d.p = c.p /\ d.status = c.status
                    /\ d.emit = IsNews(c.p, c.status)
        BY <1>7, ReadStep
    <2>3. CASE d = Returned(c)
        <3>1. d.pc \notin {"write", "emit"}
            BY <2>1, <2>3, CallFields, ReturnedFacts
        <3> QED BY <2>1, <2>2, <3>1, OnceTurns
    <2>4. CASE /\ ~(Settled(c.p) /\ stored[c.p].status # c.status)
               /\ d.pc = "write" /\ d.p = c.p /\ d.status = c.status
               /\ d.emit = IsNews(c.p, c.status)
        <3>1. d.emit => IsFinal(d.status) /\ ~Settled(d.p)
            BY <2>4 DEF IsNews, Settled
        <3>2. Settled(d.p) => stored[d.p].status = d.status
            BY <2>4
        <3> QED BY <2>1, <2>2, <2>4, <3>1, <3>2, OnceTurns
    <2> QED BY <2>2, <2>3, <2>4
<1>8. ASSUME NEW t \in Tasks, WritePayment(t) \/ Emit(t) PROVE OnceInv'
    BY <1>8, OnceWrites, OnceEmits
<1>9. ASSUME NEW t \in Tasks, MoveOffset(t) PROVE OnceInv'
    <2>1. /\ UNCHANGED <<stored, emitted, shown>> /\ Idle \in Call
          /\ call' = [call EXCEPT ![t] = Idle]
        BY <1>9, MoveStep DEF told
    <2>2. Idle.pc = "idle"
        BY DEF Idle
    <2> QED BY <2>1, <2>2, OnceTurns
<1> QED BY <1>1, <1>2, <1>3, <1>4, <1>5, <1>6, <1>7, <1>8, <1>9, StepCases

\* apply_payment_update lets one task announce the final status of a payment,
\* once over all runs of the wallet, and the status stays the one announced; so
\* the application is told at most once how a payment ended, whatever reports
\* come late, twice or from several tasks.
THEOREM OnceSafe == Spec => []OneFinalEvent
<1>1. Spec => []OnceInv
    BY TypeAlways, OnceInit, OnceNext, PTL DEF Spec
<1>2. OnceInv => OneFinalEvent
    <2> SUFFICES ASSUME OnceInv, NEW p \in Payments
                 PROVE  /\ Len(emitted[p]) <= 1 /\ Len(shown[p]) <= 1
                        /\ emitted[p] # <<>> => stored[p].status = emitted[p][1]
        BY DEF OneFinalEvent
    <2>1. Len(shown[p]) <= 1
        BY DEF OnceInv, EmittedInv
    <2>2. CASE emitted[p] = <<>>
        BY <2>1, <2>2
    <2>3. CASE emitted[p] # <<>>
        <3>1. emitted[p] = <<stored[p].status>>
            BY <2>3 DEF OnceInv, EmittedInv
        <3> QED BY <2>1, <3>1
    <2> QED BY <2>2, <2>3
<1> QED BY <1>1, <1>2, PTL

(***************************************************************************)
(* The Spark store: namespaces and keys.                                   *)
(***************************************************************************)

\* What a namespace holds after a write that may fail, or land unnoticed.
LEMMA PutLanded ==
    ASSUME NEW o, NEW f, NEW k, NEW v, NEW g, g = Landed(o, Put(f, k, v), f)
    PROVE  /\ DOMAIN f \subseteq DOMAIN g /\ DOMAIN g \subseteq DOMAIN f \cup {k}
           /\ Range(g) \subseteq Range(f) \cup {v}
           /\ \A x \in DOMAIN f : x # k => g[x] = f[x]
           /\ o # "failed" => k \in DOMAIN g /\ g[k] = v
           /\ o = "failed" => g = f
<1>1. CASE o = "failed"
    BY <1>1 DEF Landed
<1>2. CASE o # "failed"
    <2>1. g = Put(f, k, v)
        BY <1>2 DEF Landed
    <2> QED BY <1>2, <2>1 DEF Put, Range
<1> QED BY <1>1, <1>2

\* The same of a removal.
LEMMA DropLanded ==
    ASSUME NEW o, NEW f, NEW k, NEW g, g = Landed(o, Drop(f, k), f)
    PROVE  /\ DOMAIN g \subseteq DOMAIN f
           /\ Range(g) \subseteq Range(f)
           /\ \A x \in DOMAIN f : x # k => x \in DOMAIN g
           /\ \A x \in DOMAIN g : g[x] = f[x]
<1>1. CASE o = "failed"
    BY <1>1 DEF Landed
<1>2. CASE o # "failed"
    <2>1. g = Drop(f, k)
        BY <1>2 DEF Landed
    <2> QED BY <2>1 DEF Drop, Range
<1> QED BY <1>1, <1>2

\* The characters of keys.
KeyChars == Characters \cup Digits \cup {"_", "h"}

\* A sequence of sequences of length 2, flattened.
LEMMA FlattenTwo ==
    ASSUME NEW a, NEW b
    PROVE  FlattenSeq(<<a, b>>) = a \o b
<1> DEFINE s == <<a, b>>
           F(f) == [i \in 1..Len(s) |-> IF i = 1 THEN s[i] ELSE f[i-1] \o s[i]]
           f0 == CHOOSE f : f = F(f)
           w == [i \in 1..2 |-> IF i = 1 THEN a ELSE a \o b]
<1>1. Len(s) = 2 /\ s[1] = a /\ s[2] = b
    OBVIOUS
<1>2. w = F(w)
    BY <1>1
<1>3. f0 = F(f0)
    <2> HIDE DEF F, w
    <2> QED BY <1>2
<1>4. f0[1] = a /\ f0[2] = f0[1] \o b
    <2> HIDE DEF f0
    <2>1. ASSUME NEW f PROVE F(f)[1] = a /\ F(f)[2] = f[1] \o b
        BY <1>1
    <2> HIDE DEF F
    <2>2. F(f0)[1] = a /\ F(f0)[2] = f0[1] \o b
        BY <2>1
    <2> QED BY <2>2, <1>3
<1>5. FlattenSeq(s) = f0[2]
    BY <1>1 DEF FlattenSeq
<1> QED BY <1>4, <1>5

\* The characters of two sequences in a row: of the first ...
LEMMA ConcatFirst ==
    ASSUME NEW C, NEW x \in Seq(C), NEW y \in Seq(C), NEW i \in 1..Len(x)
    PROVE  (x \o y)[i] = x[i]
<1>1. Len(x) \in Nat /\ Len(y) \in Nat
    BY LenProperties
<1>2. i \in 1..(Len(x) + Len(y)) /\ i <= Len(x)
    BY <1>1
<1>3. (x \o y)[i] = IF i <= Len(x) THEN x[i] ELSE y[i - Len(x)]
    BY <1>2, ConcatProperties, Zenon
<1> QED BY <1>2, <1>3, Zenon

\* ... and of the second.
LEMMA ConcatSecond ==
    ASSUME NEW C, NEW x \in Seq(C), NEW y \in Seq(C), NEW i \in 1..Len(y)
    PROVE  (x \o y)[Len(x) + i] = y[i]
<1>1. Len(x) \in Nat /\ Len(y) \in Nat
    BY LenProperties
<1> DEFINE k == Len(x) + i
<1>2. k \in 1..(Len(x) + Len(y)) /\ ~(k <= Len(x)) /\ k - Len(x) = i
    BY <1>1
<1> HIDE DEF k
<1>3. (x \o y)[k] = IF k <= Len(x) THEN x[k] ELSE y[k - Len(x)]
    BY <1>2, ConcatProperties, Zenon
<1>4. (x \o y)[k] = y[i]
    BY <1>2, <1>3, Zenon
<1> QED BY <1>4 DEF k

\* Two sequences in a row are told apart by their lengths.
LEMMA SplitEqual ==
    ASSUME NEW C, NEW x \in Seq(C), NEW y \in Seq(C), NEW u \in Seq(C), NEW v \in Seq(C),
           x \o y = u \o v, Len(x) = Len(u)
    PROVE  x = u /\ y = v
<1>1. /\ Len(x \o y) = Len(x) + Len(y) /\ Len(u \o v) = Len(u) + Len(v)
      /\ Len(x) \in Nat /\ Len(y) \in Nat /\ Len(v) \in Nat
    BY ConcatProperties, LenProperties
<1>2. Len(y) = Len(v)
    BY <1>1
<1>3. \A i \in 1..Len(x) : x[i] = u[i]
    BY ConcatFirst
<1>4. ASSUME NEW i \in 1..Len(y) PROVE y[i] = v[i]
    <2>1. (x \o y)[Len(x) + i] = y[i]
        BY ConcatSecond, Zenon
    <2>2. i \in 1..Len(v)
        BY <1>2
    <2>3. (u \o v)[Len(u) + i] = v[i]
        BY <2>2, ConcatSecond, Zenon
    <2> QED BY <2>1, <2>3, Zenon
<1>5. x = u
    BY <1>3, SeqEqual
<1>6. y = v
    BY <1>2, <1>4, SeqEqual
<1> QED BY <1>5, <1>6

\* The separator after a number is the first one of the key.
LEMMA FirstSeparator ==
    ASSUME NEW C, NEW D, D \subseteq C, NEW x \in Seq(D), NEW u \in Seq(D),
           NEW y \in Seq(C), NEW v \in Seq(C), x \o y = u \o v,
           1 <= Len(y), y[1] \notin D
    PROVE  Len(x) >= Len(u)
<1>1. x \in Seq(C) /\ u \in Seq(C)
    BY SeqMonotonic, Zenon
<1>2. Len(x) \in Nat /\ Len(u) \in Nat /\ Len(y) \in Nat
    BY LenProperties
<1>3. ASSUME Len(x) < Len(u) PROVE FALSE
    <2>1. Len(x) + 1 \in 1..Len(u) /\ 1 \in 1..Len(y)
        BY <1>2, <1>3
    <2>a. \A i \in 1..Len(y) : (x \o y)[Len(x) + i] = y[i]
        BY <1>1, ConcatSecond, Zenon
    <2>2. (x \o y)[Len(x) + 1] = y[1]
        BY <2>1, <2>a
    <2>3. (u \o v)[Len(x) + 1] = u[Len(x) + 1]
        BY <1>1, <2>1, ConcatFirst, Zenon
    <2>4. u[Len(x) + 1] \in D
        BY <2>1, ElementOfSeq, Zenon
    <2> QED BY <2>2, <2>3, <2>4, Zenon
<1> QED BY <1>2, <1>3

\* Two texts of characters C that begin with digits D and the separator c.
SameText(C, D, c, x, y, u, v) ==
    /\ D \subseteq C /\ c \in C /\ c \notin D
    /\ x \in Seq(D) /\ u \in Seq(D) /\ y \in Seq(C) /\ v \in Seq(C)
    /\ x \o (<<c>> \o y) = u \o (<<c>> \o v)

\* The digits and the rest can be read back.
LEMMA SplitAtSeparator ==
    ASSUME NEW C, NEW D, NEW c, NEW x, NEW y, NEW u, NEW v, SameText(C, D, c, x, y, u, v)
    PROVE  x = u /\ y = v
<1>0. /\ D \subseteq C /\ c \in C /\ c \notin D
      /\ x \in Seq(D) /\ u \in Seq(D) /\ y \in Seq(C) /\ v \in Seq(C)
      /\ x \o (<<c>> \o y) = u \o (<<c>> \o v)
    BY DEF SameText
<1>1. x \in Seq(C) /\ u \in Seq(C)
    BY <1>0, SeqMonotonic, Zenon
<1>2. <<c>> \in Seq(C) /\ Len(<<c>>) = 1 /\ <<c>>[1] = c
    BY <1>0
<1>3. ASSUME NEW z \in Seq(C)
      PROVE  <<c>> \o z \in Seq(C) /\ 1 <= Len(<<c>> \o z) /\ (<<c>> \o z)[1] \notin D
    <2>1. <<c>> \o z \in Seq(C) /\ Len(<<c>> \o z) = Len(<<c>>) + Len(z)
        BY <1>2, ConcatProperties, Zenon
    <2>2. 1 \in 1..Len(<<c>>)
        BY <1>2
    <2>3. (<<c>> \o z)[1] = <<c>>[1]
        BY <1>2, <2>2, ConcatFirst, Zenon
    <2>4. Len(z) \in Nat
        BY LenProperties
    <2> QED BY <1>0, <1>2, <2>1, <2>3, <2>4
<1>4. Len(x) >= Len(u) /\ Len(u) >= Len(x)
    BY <1>0, <1>3, FirstSeparator, Zenon
<1>5. Len(x) = Len(u)
    BY <1>0, <1>4, LenProperties
<1>6. x = u /\ <<c>> \o y = <<c>> \o v
    BY <1>0, <1>1, <1>3, <1>5, SplitEqual, Zenon
<1>7. y = v
    BY <1>0, <1>2, <1>6, SplitEqual, Zenon
<1> QED BY <1>6, <1>7

Prefixed(a) == Decimal(Len(a)) \o <<"_">> \o a

\* What a key begins with: a digit.
LEMMA PrefixedFacts ==
    ASSUME NEW a \in Seq(KeyChars), Len(a) \in Lengths, NEW y \in Seq(KeyChars)
    PROVE  /\ Prefixed(a) \in Seq(KeyChars)
           /\ Prefixed(a) \o y \in Seq(KeyChars)
           /\ Prefixed(a) \o y = Decimal(Len(a)) \o (<<"_">> \o (a \o y))
           /\ 1 <= Len(Prefixed(a) \o y) /\ (Prefixed(a) \o y)[1] \in Digits
<1> DEFINE x == Decimal(Len(a))
           C == KeyChars
<1> HIDE DEF C
<1>1. x \in Seq(Digits) /\ x # <<>>
    BY DecimalAssumption
<1>2. Digits \subseteq C /\ "_" \in C
    BY DEF C, KeyChars
<1>3. a \in Seq(C) /\ y \in Seq(C)
    BY DEF C
<1>4. Prefixed(a) = x \o <<"_">> \o a
    BY DEF Prefixed
<1> HIDE DEF x
<1>5. x \in Seq(C)
    BY <1>1, <1>2, SeqMonotonic, Zenon
<1>6. ASSUME NEW c \in C
      PROVE  /\ x \o <<c>> \o a \in Seq(C)
             /\ (x \o <<c>> \o a) \o y \in Seq(C)
             /\ (x \o <<c>> \o a) \o y = x \o (<<c>> \o (a \o y))
    <2>1. <<c>> \in Seq(C)
        OBVIOUS
    <2>2. x \o <<c>> \in Seq(C) /\ a \o y \in Seq(C)
        BY <1>3, <1>5, <2>1, ConcatProperties, Zenon
    <2>3. x \o <<c>> \o a \in Seq(C)
        BY <1>3, <2>2, ConcatProperties, Zenon
    <2>4. (x \o <<c>> \o a) \o y \in Seq(C)
        BY <1>3, <2>3, ConcatProperties, Zenon
    <2>a. \A p, q, r \in Seq(C) : (p \o q) \o r = p \o (q \o r)
        BY ConcatAssociative
    <2>5. (x \o <<c>> \o a) \o y = (x \o <<c>>) \o (a \o y)
        BY <1>3, <2>2, <2>a, Zenon
    <2>6. (x \o <<c>>) \o (a \o y) = x \o (<<c>> \o (a \o y))
        BY <1>5, <2>1, <2>2, <2>a, Zenon
    <2> QED BY <2>3, <2>4, <2>5, <2>6, Zenon
<1>7. /\ Prefixed(a) \in Seq(C)
      /\ Prefixed(a) \o y \in Seq(C)
      /\ Prefixed(a) \o y = x \o (<<"_">> \o (a \o y))
    BY <1>2, <1>4, <1>6, Zenon
<1>8. ASSUME NEW w \in Seq(C)
      PROVE  1 <= Len(x \o w) /\ (x \o w)[1] \in Digits
    <2>1. Len(x) \in Nat /\ Len(w) \in Nat /\ Len(x) # 0
        BY <1>1, <1>5, LenProperties, EmptySeq
    <2>2. Len(x \o w) = Len(x) + Len(w)
        BY <1>5, ConcatProperties, Zenon
    <2>3. 1 \in 1..Len(x)
        BY <2>1
    <2>4. (x \o w)[1] = x[1]
        BY <1>5, <2>3, ConcatFirst
    <2>5. x[1] \in Digits
        BY <1>1, <2>3, ElementOfSeq
    <2> QED BY <2>1, <2>2, <2>4, <2>5
<1>9. ASSUME NEW c \in C PROVE <<c>> \o (a \o y) \in Seq(C)
    <2>1. <<c>> \in Seq(C)
        OBVIOUS
    <2>2. a \o y \in Seq(C)
        BY <1>3, ConcatProperties, Zenon
    <2> QED BY <2>1, <2>2, ConcatProperties, Zenon
<1>10. <<"_">> \o (a \o y) \in Seq(C)
    BY <1>2, <1>9, Zenon
<1> QED BY <1>7, <1>8, <1>10, Zenon DEF C, x

\* Two keys, each a part after its length and what comes then.
SameKey(a, y, b, v) ==
    /\ a \in Seq(KeyChars) /\ Len(a) \in Lengths /\ y \in Seq(KeyChars)
    /\ b \in Seq(KeyChars) /\ Len(b) \in Lengths /\ v \in Seq(KeyChars)
    /\ Prefixed(a) \o y = Prefixed(b) \o v

\* A part that is preceded by its length, and what comes after it, can be read
\* back from the key.
LEMMA PrefixedUnique ==
    ASSUME NEW a, NEW y, NEW b, NEW v, SameKey(a, y, b, v)
    PROVE  a = b /\ y = v
<1> DEFINE C == KeyChars
           x == Decimal(Len(a))
           u == Decimal(Len(b))
<1>0. /\ a \in Seq(C) /\ Len(a) \in Lengths /\ y \in Seq(C)
      /\ b \in Seq(C) /\ Len(b) \in Lengths /\ v \in Seq(C)
      /\ Prefixed(a) \o y = Prefixed(b) \o v
    BY DEF SameKey
<1>1. x \in Seq(Digits) /\ u \in Seq(Digits)
    BY <1>0, DecimalAssumption
<1>2. Digits \subseteq C /\ "_" \in C /\ "_" \notin Digits
    BY DEF KeyChars, Digits
<1>3. x \o (<<"_">> \o (a \o y)) = u \o (<<"_">> \o (b \o v))
    BY <1>0, PrefixedFacts, Zenon
<1>4. a \o y \in Seq(C) /\ b \o v \in Seq(C)
    BY <1>0, ConcatProperties, Zenon
<1>5. SameText(C, Digits, "_", x, a \o y, u, b \o v)
    BY <1>1, <1>2, <1>3, <1>4, Zenon DEF SameText
<1>6. x = u /\ a \o y = b \o v
    BY <1>5, SplitAtSeparator, Zenon
<1>7. Len(a) = Len(b)
    BY <1>0, <1>6, DecimalAssumption
<1> QED BY <1>0, <1>6, <1>7, SplitEqual, Zenon

\* The key of an id of two parts.
LEMMA KeyOfTwo ==
    ASSUME NEW id \in RecordIds \cup Swaps
    PROVE  LET k == Prefixed(id[1]) \o Prefixed(id[2])
           IN  sync_record_key(id) = IF Len(k) > KeyMaxLen THEN <<"h", "_">> \o k ELSE k
<1>1. id \in Seq(Characters) \X Seq(Characters)
    BY SparkStoreAssumption
<1>2. DOMAIN id = 1..2
    BY <1>1
<1>3. [i \in DOMAIN id |-> Decimal(Len(id[i])) \o <<"_">> \o id[i]] = <<Prefixed(id[1]), Prefixed(id[2])>>
    <2>1. [i \in DOMAIN id |-> Decimal(Len(id[i])) \o <<"_">> \o id[i]] = [i \in 1..2 |-> Prefixed(id[i])]
        BY <1>2, Zenon DEF Prefixed
    <2>2. [i \in 1..2 |-> Prefixed(id[i])] = <<Prefixed(id[1]), Prefixed(id[2])>>
        OBVIOUS
    <2> QED BY <2>1, <2>2, Zenon
<1>4. FlattenSeq([i \in DOMAIN id |-> Decimal(Len(id[i])) \o <<"_">> \o id[i]])
          = Prefixed(id[1]) \o Prefixed(id[2])
    BY <1>3, FlattenTwo, Zenon
<1> QED BY <1>4, Zenon DEF sync_record_key

\* The parts of an id.
LEMMA IdParts ==
    ASSUME NEW id \in RecordIds \cup Swaps
    PROVE  /\ id[1] \in Seq(KeyChars) /\ id[2] \in Seq(KeyChars)
           /\ Len(id[1]) \in Lengths /\ Len(id[2]) \in Lengths
           /\ id = <<id[1], id[2]>>
<1>1. id \in Seq(Characters) \X Seq(Characters)
    BY SparkStoreAssumption
<1>2. id[1] \in Seq(Characters) /\ id[2] \in Seq(Characters) /\ id = <<id[1], id[2]>>
    BY <1>1
<1>3. Characters \subseteq KeyChars
    BY DEF KeyChars
<1>4. id[1] \in Seq(KeyChars) /\ id[2] \in Seq(KeyChars)
    BY <1>2, <1>3, SeqMonotonic, Zenon
<1>5. 1 \in 1..2 /\ 2 \in 1..2
    OBVIOUS
<1>6. Len(id[1]) \in Lengths /\ Len(id[2]) \in Lengths
    BY <1>5, SMT DEF Lengths
<1> QED BY <1>2, <1>4, <1>6, Zenon

\* No two ids have the same key: the lengths in the key tell where its parts
\* end, and a hash is no key that begins with a digit.
LEMMA KeysDiffer ==
    ASSUME NEW a \in RecordIds \cup Swaps, NEW b \in RecordIds \cup Swaps,
           sync_record_key(a) = sync_record_key(b)
    PROVE  a = b
<1> DEFINE k == Prefixed(a[1]) \o Prefixed(a[2])
           l == Prefixed(b[1]) \o Prefixed(b[2])
           H == <<"h", "_">>
           C == KeyChars
<1>1. /\ a[1] \in Seq(C) /\ a[2] \in Seq(C) /\ Len(a[1]) \in Lengths /\ Len(a[2]) \in Lengths
      /\ b[1] \in Seq(C) /\ b[2] \in Seq(C) /\ Len(b[1]) \in Lengths /\ Len(b[2]) \in Lengths
    BY IdParts, Zenon
<1>2. PICK e \in Seq(C) : TRUE
    BY EmptySeq, Zenon
<1>3. Prefixed(a[2]) \in Seq(C) /\ Prefixed(b[2]) \in Seq(C)
    BY <1>1, <1>2, PrefixedFacts, Zenon
<1>4. /\ k \in Seq(C) /\ 1 <= Len(k) /\ k[1] \in Digits
      /\ l \in Seq(C) /\ 1 <= Len(l) /\ l[1] \in Digits
    BY <1>1, <1>3, PrefixedFacts, Zenon
<1>5. k = l
    <2> HIDE DEF k, l, H, C
    <2>1. /\ sync_record_key(a) = IF Len(k) > KeyMaxLen THEN H \o k ELSE k
          /\ sync_record_key(b) = IF Len(l) > KeyMaxLen THEN H \o l ELSE l
        BY KeyOfTwo, Zenon DEF k, l, H
    <2>2. H \in Seq(C) /\ Len(H) = 2 /\ H[1] = "h" /\ "h" \notin Digits
        <3>1. "h" \in C /\ "_" \in C /\ "h" \notin Digits
            BY DEF C, KeyChars, Digits
        <3>2. ASSUME NEW c \in C, NEW d \in C
              PROVE <<c, d>> \in Seq(C) /\ Len(<<c, d>>) = 2 /\ <<c, d>>[1] = c
            OBVIOUS
        <3> QED BY <3>1, <3>2, Zenon DEF H
    <2>3. ASSUME NEW m \in Seq(C) PROVE (H \o m)[1] \notin Digits
        <3>1. 1 \in 1..Len(H)
            BY <2>2
        <3>2. (H \o m)[1] = H[1]
            BY <2>2, <3>1, ConcatFirst
        <3> QED BY <2>2, <3>2, Zenon
    <2>4. H \o k = H \o l => k = l
        BY <1>4, <2>2, SplitEqual, Zenon
    <2>5. H \o k # l /\ H \o l # k
        BY <1>4, <2>3, Zenon
    <2> QED BY <2>1, <2>4, <2>5, Zenon
<1>6. a[1] = b[1] /\ Prefixed(a[2]) = Prefixed(b[2])
    <2>1. SameKey(a[1], Prefixed(a[2]), b[1], Prefixed(b[2]))
        BY <1>1, <1>3, <1>5, Zenon DEF SameKey
    <2> QED BY <2>1, PrefixedUnique, Zenon
<1>7. Prefixed(a[2]) \o e = Prefixed(b[2]) \o e
    BY <1>6
<1>8. a[2] = b[2]
    <2>1. SameKey(a[2], e, b[2], e)
        BY <1>1, <1>2, <1>7 DEF SameKey
    <2> QED BY <2>1, PrefixedUnique, SMT
<1>9. a = <<a[1], a[2]>> /\ b = <<b[1], b[2]>>
    BY IdParts, Zenon
<1>10. a = <<b[1], b[2]>>
    BY <1>6, <1>8, <1>9, Zenon
<1> QED BY <1>9, <1>10, Zenon

(***************************************************************************)
(* The Spark store: the type invariant.                                    *)
(***************************************************************************)

Change == [id : RecordIds, rev : 1..MaxChanges]

\* What get_pending_outgoing_changes hands out.
Pending == [change : Change, parent : Record \cup {None}]

\* The sync is working on outgoing changes, or on incoming records.
Pushing == sync.pc \in {"push", "remove"} \/ (sync.pc \in {"state", "server"} /\ sync.next = "push")
Pulling == \/ sync.pc \in {"insert", "apply", "delete"}
           \/ sync.pc \in {"state", "server"} /\ sync.next = "apply"

\* A task's call.
CallOK(c) ==
    /\ c.pc \in {"idle", "metadata", "deposit", "revision", "change"}
    /\ c.pc = "metadata" => c.new \subseteq Fields
    /\ c.pc = "deposit" => c.new \in DepositInfo
    /\ c.pc \in {"revision", "change"} => c.id \in RecordIds /\ c.rev \in 1..MaxChanges

CallTypes == DOMAIN call = Tasks /\ \A t \in Tasks : CallOK(call[t])

SyncTypes ==
    /\ sync.pc \in {"idle", "push", "remove", "state", "server", "insert", "apply", "delete"}
    /\ sync.pc \in {"state", "server"} => sync.next \in {"push", "apply"}
    /\ sync.pc \in {"remove", "state", "server", "delete"} => sync.record \in Record
    /\ sync.pc = "remove" => sync.change \in Change
    /\ Pushing => sync.todo \subseteq Pending
    /\ Pulling => sync.todo \subseteq Record

ServerTypes ==
    /\ server.rev \in 0..MaxRevision
    /\ DOMAIN server.of = RecordIds
    /\ \A id \in RecordIds : server.of[id] \in 0..server.rev

RecordTypes ==
    /\ Range(in) \subseteq Record /\ IsFiniteSet(DOMAIN in)
    /\ Range(state) \subseteq Record
    /\ revision \in 0..MaxRevision

ChangeTypes ==
    /\ DOMAIN out \subseteq 1..MaxChanges /\ Range(out) \subseteq Change
    /\ localRevision \in 0..MaxChanges

OtherTypes ==
    /\ meta \subseteq Fields /\ deposit \in DepositInfo \cup {None}
    /\ faults \in 0..MaxFaults

\* A lock is held by exactly the task in its section.
StoreLocks ==
    /\ depositLock \in Tasks \cup {None} /\ revisionLock \in Tasks \cup {None}
    /\ \A t \in Tasks : /\ depositLock = t <=> call[t].pc = "deposit"
                        /\ revisionLock = t <=> call[t].pc = "revision"

StoreTypeInv == /\ CallTypes /\ SyncTypes /\ ServerTypes /\ RecordTypes /\ ChangeTypes
                /\ OtherTypes /\ StoreLocks

\* One step: of a task, of the sync, of another device, or a crash.
LEMMA StoreStepCases ==
    ASSUME StoreNext
    PROVE  \/ \E t \in Tasks : \/ ReadMetadata(t) \/ WriteMetadata(t)
                               \/ ReadDeposit(t) \/ WriteDeposit(t) \/ DeleteDeposit(t)
                               \/ SetSwap(t)
                               \/ ReadLocalRevision(t) \/ WriteLocalRevision(t) \/ WriteChange(t)
           \/ StartPush \/ Push \/ RemoveOutgoing \/ WriteSyncState \/ UpdateServerRevision
           \/ PhaseEnds \/ StartPull \/ InsertIncoming \/ StartApply \/ ApplyIncoming
           \/ DeleteIncoming \/ OtherDevice \/ StoreCrash
BY DEF StoreNext, Sync

\* A task's step changes neither records nor the sync's call.
LEMMA TaskLeavesSync ==
    ASSUME NEW t,
           \/ ReadMetadata(t) \/ WriteMetadata(t) \/ ReadDeposit(t) \/ WriteDeposit(t)
           \/ DeleteDeposit(t) \/ SetSwap(t) \/ ReadLocalRevision(t) \/ WriteLocalRevision(t)
           \/ WriteChange(t)
    PROVE  UNCHANGED <<in, state, revision, sync, server, applied>>
BY DEF ReadMetadata, WriteMetadata, ReadDeposit, WriteDeposit, DeleteDeposit, SetSwap,
       ReadLocalRevision, WriteLocalRevision, WriteChange, storeDisk, memory

\* A step of the sync, or of another device, leaves the tasks alone.
LEMMA SyncLeavesTasks ==
    ASSUME \/ StartPush \/ Push \/ RemoveOutgoing \/ WriteSyncState \/ UpdateServerRevision
           \/ PhaseEnds \/ StartPull \/ InsertIncoming \/ StartApply \/ ApplyIncoming
           \/ DeleteIncoming \/ OtherDevice
    PROVE  UNCHANGED <<meta, deposit, swaps, localRevision, revisionLock, depositLock, call>>
BY DEF StartPush, Push, RemoveOutgoing, WriteSyncState, UpdateServerRevision, PhaseEnds, StartPull,
       InsertIncoming, StartApply, ApplyIncoming, DeleteIncoming, OtherDevice, storeDisk, memory

\* The outcomes of a write.
LEMMA StoreOutcome ==
    ASSUME NEW o \in Outcomes, faults \in 0..MaxFaults, Fault(o)
    PROVE  o \in {"ok", "failed", "late"} /\ faults' \in 0..MaxFaults
BY SparkStoreAssumption DEF Outcomes, Fault

\* add_deposit stores a DepositInfo.
LEMMA NewDeposit ==
    ASSUME NEW old \in DepositInfo \cup {None}, NEW mature \in BOOLEAN
    PROVE  AddDeposit(old, mature) \in DepositInfo
<1>1. CASE old = None
    BY <1>1, Zenon DEF AddDeposit, DepositInfo
<1>2. CASE old # None
    BY <1>2 DEF AddDeposit, DepositInfo
<1> QED BY <1>1, <1>2

\* The new deposit keeps the refund and the instant claim of the old one.
Keeps(old, new) ==
    old # None => /\ old.refund # None => new.refund # None
                  /\ old.instant => new.instant

\* add_deposit keeps what is known of a deposit.
LEMMA AddKeeps ==
    ASSUME NEW old \in DepositInfo \cup {None}, NEW mature \in BOOLEAN
    PROVE  Keeps(old, AddDeposit(old, mature))
BY DEF AddDeposit, DepositInfo, Keeps

\* So does update_deposit, which stores a DepositInfo again.
LEMMA UpdateKeeps ==
    ASSUME NEW old \in DepositInfo, NEW p \in Payload
    PROVE  UpdateDeposit(old, p) \in DepositInfo /\ Keeps(old, UpdateDeposit(old, p))
<1> DEFINE n == UpdateDeposit(old, p)
<1>1. /\ old.refund \in Refunds \cup {None}
      /\ p.ty \in {"ClaimError", "InstantClaim", "Refund", "RefundBroadcastState"}
      /\ p.ty \in {"Refund", "RefundBroadcastState"} => p.refund \in Refunds
    BY DEF DepositInfo, Payload
<1>2. CASE p.ty = "ClaimError"
    <2>1. n = [old EXCEPT !.claim_error = TRUE]
        BY <1>2 DEF UpdateDeposit
    <2>2. n \in DepositInfo
        BY <2>1 DEF DepositInfo
    <2>3. n.refund = old.refund /\ n.instant = old.instant
        BY <2>1 DEF DepositInfo
    <2> QED BY <2>2, <2>3 DEF Keeps
<1>3. CASE p.ty = "InstantClaim"
    <2>1. n = [old EXCEPT !.instant = TRUE]
        BY <1>3 DEF UpdateDeposit
    <2>2. n \in DepositInfo
        BY <2>1 DEF DepositInfo
    <2>3. n.refund = old.refund /\ n.instant = TRUE
        BY <2>1 DEF DepositInfo
    <2> QED BY <2>2, <2>3 DEF Keeps
<1>4. CASE p.ty = "Refund"
    <2>1. n = [old EXCEPT !.refund = p.refund, !.claim_error = FALSE,
                          !.refund_state = [of |-> p.refund, broadcast |-> FALSE]]
        BY <1>4 DEF UpdateDeposit
    <2>2. n \in DepositInfo
        <3>1. [of |-> p.refund, broadcast |-> FALSE] \in [of : Refunds, broadcast : BOOLEAN]
            BY <1>1, <1>4
        <3>2. ASSUME NEW r \in Refunds, NEW s \in [of : Refunds, broadcast : BOOLEAN]
              PROVE  [old EXCEPT !.refund = r, !.claim_error = FALSE, !.refund_state = s] \in DepositInfo
            BY DEF DepositInfo
        <3>3. p.refund \in Refunds
            BY <1>1, <1>4
        <3> QED BY <2>1, <3>1, <3>2, <3>3, Zenon
    <2>3. n.refund = p.refund /\ n.instant = old.instant
        BY <2>1 DEF DepositInfo
    <2> QED BY <1>1, <1>4, <2>2, <2>3, SparkStoreAssumption DEF Keeps
<1>5. CASE p.ty = "RefundBroadcastState" /\ old.refund = p.refund
    <2>1. n = [old EXCEPT !.refund_state = [of |-> p.refund, broadcast |-> TRUE]]
        BY <1>5 DEF UpdateDeposit
    <2>2. n \in DepositInfo
        <3>1. [of |-> p.refund, broadcast |-> TRUE] \in [of : Refunds, broadcast : BOOLEAN]
            BY <1>1, <1>5
        <3>2. ASSUME NEW s \in [of : Refunds, broadcast : BOOLEAN]
              PROVE  [old EXCEPT !.refund_state = s] \in DepositInfo
            BY DEF DepositInfo
        <3> QED BY <2>1, <3>1, <3>2, Zenon
    <2>3. n.refund = old.refund /\ n.instant = old.instant
        BY <2>1 DEF DepositInfo
    <2> QED BY <2>2, <2>3 DEF Keeps
<1>6. CASE p.ty = "RefundBroadcastState" /\ old.refund # p.refund
    <2>1. n = old
        BY <1>6 DEF UpdateDeposit
    <2> QED BY <2>1 DEF Keeps
<1> QED BY <1>1, <1>2, <1>3, <1>4, <1>5, <1>6

\* A task goes on with a call of the right form.
LEMMA CallStep ==
    ASSUME CallTypes, NEW t \in Tasks, NEW c, CallOK(c), Goto(t, c)
    PROVE  /\ CallTypes'
           /\ call'[t] = c /\ \A u \in Tasks : u # t => call'[u] = call[u]
<1>1. /\ DOMAIN call' = Tasks
      /\ call'[t] = c /\ \A u \in Tasks : u # t => call'[u] = call[u]
    BY DEF CallTypes, Goto
<1>2. \A u \in Tasks : CallOK(call'[u])
    BY <1>1 DEF CallTypes
<1>3. CallTypes'
    BY <1>1, <1>2 DEF CallTypes, CallOK
<1> QED BY <1>1, <1>3

\* A task that is idle.
LEMMA IdleOK == CallOK(Idle) /\ Idle.pc = "idle"
BY DEF CallOK, Idle

\* The step of a task: the call it goes on with, and what it leaves in its
\* namespaces.
LEMMA ReadMetadataTypes ==
    ASSUME StoreTypeInv, NEW t \in Tasks, ReadMetadata(t)
    PROVE  StoreTypeInv'
<1>1. PICK fields \in (SUBSET Fields) \ {{}}, readable \in BOOLEAN :
          LET existing == IF readable THEN meta ELSE {} IN
          /\ ~readable => faults < MaxFaults
          /\ Fault(IF readable THEN "ok" ELSE "failed")
          /\ Goto(t, [pc |-> "metadata", read |-> existing, new |-> Coalesce(fields, existing)])
    BY DEF ReadMetadata
<1> DEFINE e == IF readable THEN meta ELSE {}
           c == [pc |-> "metadata", read |-> e, new |-> Coalesce(fields, e)]
<1>2. CallOK(c) /\ c.pc = "metadata"
    BY DEF CallOK, Coalesce, StoreTypeInv, OtherTypes
<1>3. faults' \in 0..MaxFaults
    BY <1>1, SparkStoreAssumption DEF Fault, StoreTypeInv, OtherTypes
<1>4. Goto(t, c) /\ CallTypes
    BY <1>1 DEF StoreTypeInv
<1> HIDE DEF c
<1>5. CallTypes' /\ call'[t] = c /\ \A u \in Tasks : u # t => call'[u] = call[u]
    BY <1>2, <1>4, CallStep
<1>6. /\ call[t].pc = "idle"
      /\ UNCHANGED <<work, storeDisk, revisionLock, depositLock, sync, server, owed, applied>>
    BY DEF ReadMetadata
<1>7. SyncTypes' /\ ServerTypes' /\ RecordTypes' /\ ChangeTypes'
    BY <1>6 DEF StoreTypeInv, SyncTypes, Pushing, Pulling, ServerTypes, RecordTypes, ChangeTypes,
                storeDisk
<1>8. OtherTypes'
    BY <1>3, <1>6 DEF StoreTypeInv, OtherTypes, storeDisk
<1>9. StoreLocks'
    BY <1>2, <1>5, <1>6 DEF StoreTypeInv, StoreLocks
<1> QED BY <1>5, <1>7, <1>8, <1>9 DEF StoreTypeInv

\* The read of a deposit.
LEMMA ReadDepositCall ==
    ASSUME StoreTypeInv, NEW t \in Tasks, ReadDeposit(t)
    PROVE  \E d \in DepositInfo : Goto(t, [pc |-> "deposit", new |-> d]) /\ Keeps(deposit, d)
<1>0. deposit \in DepositInfo \cup {None}
    BY DEF StoreTypeInv, OtherTypes
<1>1. CASE \E mature \in BOOLEAN : Goto(t, [pc |-> "deposit", new |-> AddDeposit(deposit, mature)])
    BY <1>0, <1>1, NewDeposit, AddKeeps, Zenon
<1>2. CASE deposit # None /\ \E p \in Payload :
                /\ UpdateDeposit(deposit, p) # deposit
                /\ Goto(t, [pc |-> "deposit", new |-> UpdateDeposit(deposit, p)])
    <2>1. deposit \in DepositInfo
        BY <1>0, <1>2
    <2> QED BY <1>2, <2>1, UpdateKeeps, Zenon
<1> QED BY <1>1, <1>2, Zenon DEF ReadDeposit

\* The step that reads a deposit keeps the types.
LEMMA ReadDepositTypes ==
    ASSUME StoreTypeInv, NEW t \in Tasks, ReadDeposit(t)
    PROVE  StoreTypeInv'
<1>1. PICK d \in DepositInfo : Goto(t, [pc |-> "deposit", new |-> d])
    BY ReadDepositCall
<1> DEFINE c == [pc |-> "deposit", new |-> d]
<1>2. CallOK(c) /\ c.pc = "deposit"
    BY DEF CallOK
<1>4. Goto(t, c) /\ CallTypes
    BY <1>1 DEF StoreTypeInv
<1> HIDE DEF c
<1>5. CallTypes' /\ call'[t] = c /\ \A u \in Tasks : u # t => call'[u] = call[u]
    BY <1>2, <1>4, CallStep
<1>6. /\ call[t].pc = "idle" /\ depositLock = None /\ depositLock' = t
      /\ UNCHANGED <<work, storeDisk, revisionLock, sync, server, owed, applied, faults>>
    BY DEF ReadDeposit
<1>7. SyncTypes' /\ ServerTypes' /\ RecordTypes' /\ ChangeTypes'
    BY <1>6 DEF StoreTypeInv, SyncTypes, Pushing, Pulling, ServerTypes, RecordTypes, ChangeTypes,
                storeDisk
<1>8. OtherTypes'
    BY <1>6 DEF StoreTypeInv, OtherTypes, storeDisk
<1>9. StoreLocks'
    BY <1>2, <1>5, <1>6, SparkStoreAssumption DEF StoreTypeInv, StoreLocks
<1> QED BY <1>5, <1>7, <1>8, <1>9 DEF StoreTypeInv

\* The write of metadata, or of a deposit, keeps the types.
LEMMA WriteTypes ==
    ASSUME StoreTypeInv, NEW t \in Tasks, WriteMetadata(t) \/ WriteDeposit(t)
    PROVE  StoreTypeInv'
<1>1. /\ Goto(t, Idle) /\ CallTypes /\ OtherTypes
      /\ UNCHANGED <<swaps, out, in, state, revision, localRevision, revisionLock, sync, server>>
    BY DEF WriteMetadata, WriteDeposit, StoreTypeInv
<1>2. CallTypes' /\ call'[t] = Idle /\ \A u \in Tasks : u # t => call'[u] = call[u]
    BY <1>1, IdleOK, CallStep
<1>3. SyncTypes' /\ ServerTypes' /\ RecordTypes' /\ ChangeTypes'
    BY <1>1 DEF StoreTypeInv, SyncTypes, Pushing, Pulling, ServerTypes, RecordTypes, ChangeTypes
<1>4. CallOK(call[t])
    BY <1>1 DEF CallTypes
<1>5. OtherTypes'
    <2>1. CASE WriteMetadata(t)
        <3>1. PICK o \in Outcomes : meta' = Landed(o, call[t].new, meta) /\ Fault(o)
            BY <2>1 DEF WriteMetadata
        <3>2. call[t].new \subseteq Fields /\ deposit' = deposit
            BY <1>4, <2>1 DEF WriteMetadata, CallOK
        <3>3. meta' \subseteq Fields
            BY <1>1, <3>1, <3>2 DEF Landed, OtherTypes
        <3> QED BY <1>1, <3>1, <3>2, <3>3, StoreOutcome DEF OtherTypes
    <2>2. CASE WriteDeposit(t)
        <3>1. PICK o \in Outcomes : deposit' = Landed(o, call[t].new, deposit) /\ Fault(o)
            BY <2>2 DEF WriteDeposit
        <3>2. call[t].new \in DepositInfo /\ meta' = meta
            BY <1>4, <2>2 DEF WriteDeposit, CallOK
        <3>3. deposit' \in DepositInfo \cup {None}
            BY <1>1, <3>1, <3>2 DEF Landed, OtherTypes
        <3> QED BY <1>1, <3>1, <3>2, <3>3, StoreOutcome DEF OtherTypes
    <2> QED BY <2>1, <2>2
<1>6. StoreLocks'
    <2>1. CASE WriteMetadata(t)
        BY <1>1, <1>2, <2>1, IdleOK DEF WriteMetadata, StoreTypeInv, StoreLocks
    <2>2. CASE WriteDeposit(t)
        BY <1>1, <1>2, <2>2, IdleOK, SparkStoreAssumption DEF WriteDeposit, StoreTypeInv, StoreLocks
    <2> QED BY <2>1, <2>2
<1> QED BY <1>2, <1>3, <1>5, <1>6 DEF StoreTypeInv

\* Neither do delete_deposit and set_cross_chain_swap disturb them.
LEMMA DeleteTypes ==
    ASSUME StoreTypeInv, NEW t \in Tasks, DeleteDeposit(t) \/ SetSwap(t)
    PROVE  StoreTypeInv'
<1>1. /\ OtherTypes /\ UNCHANGED <<meta, out, in, state, revision, localRevision, memory, server>>
    BY DEF DeleteDeposit, SetSwap, StoreTypeInv
<1>2. CallTypes' /\ SyncTypes' /\ ServerTypes' /\ RecordTypes' /\ ChangeTypes' /\ StoreLocks'
    BY <1>1 DEF StoreTypeInv, CallTypes, CallOK, SyncTypes, Pushing, Pulling, ServerTypes,
                RecordTypes, ChangeTypes, StoreLocks, memory
<1>3. PICK o \in Outcomes : deposit' \in {deposit, None} /\ Fault(o)
    BY DEF DeleteDeposit, SetSwap, Landed
<1>4. OtherTypes'
    BY <1>1, <1>3, StoreOutcome DEF OtherTypes
<1> QED BY <1>2, <1>4 DEF StoreTypeInv

\* add_outgoing_change keeps the types: the counter is read ...
LEMMA ReadRevisionTypes ==
    ASSUME StoreTypeInv, NEW t \in Tasks, ReadLocalRevision(t)
    PROVE  StoreTypeInv'
<1>1. PICK id \in RecordIds : Goto(t, [pc |-> "revision", id |-> id, rev |-> localRevision + 1])
    BY DEF ReadLocalRevision
<1> DEFINE c == [pc |-> "revision", id |-> id, rev |-> localRevision + 1]
<1>2. CallOK(c) /\ c.pc = "revision"
    BY SparkStoreAssumption DEF CallOK, ReadLocalRevision, StoreTypeInv, ChangeTypes
<1>4. Goto(t, c) /\ CallTypes
    BY <1>1 DEF StoreTypeInv
<1> HIDE DEF c
<1>5. CallTypes' /\ call'[t] = c /\ \A u \in Tasks : u # t => call'[u] = call[u]
    BY <1>2, <1>4, CallStep
<1>6. /\ call[t].pc = "idle" /\ revisionLock = None /\ revisionLock' = t
      /\ UNCHANGED <<work, storeDisk, depositLock, sync, server, owed, applied, faults>>
    BY DEF ReadLocalRevision
<1>7. SyncTypes' /\ ServerTypes' /\ RecordTypes' /\ ChangeTypes'
    BY <1>6 DEF StoreTypeInv, SyncTypes, Pushing, Pulling, ServerTypes, RecordTypes, ChangeTypes,
                storeDisk
<1>8. OtherTypes'
    BY <1>6 DEF StoreTypeInv, OtherTypes, storeDisk
<1>9. StoreLocks'
    BY <1>2, <1>5, <1>6, SparkStoreAssumption DEF StoreTypeInv, StoreLocks
<1> QED BY <1>5, <1>7, <1>8, <1>9 DEF StoreTypeInv

\* ... written ...
LEMMA WriteRevisionTypes ==
    ASSUME StoreTypeInv, NEW t \in Tasks, WriteLocalRevision(t)
    PROVE  StoreTypeInv'
<1> DEFINE d == [pc |-> "change", id |-> call[t].id, rev |-> call[t].rev]
<1>1. PICK o \in Outcomes : /\ localRevision' = Landed(o, call[t].rev, localRevision)
                            /\ Goto(t, IF o = "ok" THEN d ELSE Idle)
                            /\ Fault(o)
    BY DEF WriteLocalRevision
<1>2. /\ call[t].pc = "revision" /\ revisionLock' = None
      /\ UNCHANGED <<meta, deposit, swaps, out, in, state, revision, depositLock, sync, server>>
    BY DEF WriteLocalRevision
<1>3. CallTypes /\ CallOK(call[t])
    BY DEF StoreTypeInv, CallTypes
<1>4. call[t].id \in RecordIds /\ call[t].rev \in 1..MaxChanges
    BY <1>2, <1>3 DEF CallOK
<1>5. CallOK(d) /\ d.pc = "change"
    BY <1>4 DEF CallOK
<1>6. PICK c : CallOK(c) /\ c.pc \in {"change", "idle"} /\ Goto(t, c)
    BY <1>1, <1>5, IdleOK
<1>7. CallTypes' /\ call'[t] = c /\ \A u \in Tasks : u # t => call'[u] = call[u]
    BY <1>3, <1>6, CallStep
<1>8. SyncTypes' /\ ServerTypes' /\ RecordTypes'
    BY <1>2 DEF StoreTypeInv, SyncTypes, Pushing, Pulling, ServerTypes, RecordTypes
<1>9. ChangeTypes'
    BY <1>1, <1>2, <1>4, SparkStoreAssumption DEF Landed, StoreTypeInv, ChangeTypes
<1>10. OtherTypes'
    BY <1>1, <1>2, StoreOutcome DEF StoreTypeInv, OtherTypes
<1>11. StoreLocks'
    BY <1>2, <1>6, <1>7, SparkStoreAssumption DEF StoreTypeInv, StoreLocks
<1> QED BY <1>7, <1>8, <1>9, <1>10, <1>11 DEF StoreTypeInv

\* ... and the change is stored.
LEMMA WriteChangeTypes ==
    ASSUME StoreTypeInv, NEW t \in Tasks, WriteChange(t)
    PROVE  StoreTypeInv'
<1> DEFINE c == [id |-> call[t].id, rev |-> call[t].rev]
<1>1. PICK o \in Outcomes : /\ out' = Landed(o, Put(out, c.rev, c), out)
                            /\ Fault(o)
    BY DEF WriteChange
<1>2. /\ call[t].pc = "change" /\ Goto(t, Idle)
      /\ UNCHANGED <<meta, deposit, swaps, in, state, revision, localRevision,
                     revisionLock, depositLock, sync, server>>
    BY DEF WriteChange
<1>3. CallTypes /\ CallOK(call[t])
    BY DEF StoreTypeInv, CallTypes
<1>4. c \in Change /\ c.rev \in 1..MaxChanges
    BY <1>2, <1>3 DEF CallOK, Change
<1> HIDE DEF c
<1>5. CallTypes' /\ call'[t] = Idle /\ \A u \in Tasks : u # t => call'[u] = call[u]
    BY <1>2, <1>3, IdleOK, CallStep
<1>6. SyncTypes' /\ ServerTypes' /\ RecordTypes'
    BY <1>2 DEF StoreTypeInv, SyncTypes, Pushing, Pulling, ServerTypes, RecordTypes
<1>7. ChangeTypes'
    <2>1. ChangeTypes
        BY DEF StoreTypeInv
    <2>2. DOMAIN out' \subseteq DOMAIN out \cup {c.rev} /\ Range(out') \subseteq Range(out) \cup {c}
        BY <1>1, PutLanded, SMT
    <2> QED BY <1>2, <1>4, <2>1, <2>2 DEF ChangeTypes
<1>8. OtherTypes'
    BY <1>1, <1>2, StoreOutcome DEF StoreTypeInv, OtherTypes
<1>9. StoreLocks'
    BY <1>2, <1>5, IdleOK DEF StoreTypeInv, StoreLocks
<1> QED BY <1>5, <1>6, <1>7, <1>8, <1>9 DEF StoreTypeInv

\* What is acknowledged of an id is a record, or nothing.
LEMMA ReadSyncStateType ==
    ASSUME RecordTypes, NEW id
    PROVE  read_sync_state(id) \in Record \cup {None}
<1> DEFINE k == record_id_key(id)
<1>1. CASE k \in DOMAIN state
    <2>1. read_sync_state(id) = state[k]
        BY <1>1 DEF read_sync_state
    <2>2. state[k] \in Range(state)
        BY <1>1 DEF Range
    <2> QED BY <2>1, <2>2 DEF RecordTypes
<1>2. CASE k \notin DOMAIN state
    BY <1>2 DEF read_sync_state
<1> QED BY <1>1, <1>2

\* Changes that are handed out are pending changes.
LEMMA PendingTypes ==
    ASSUME RecordTypes, ChangeTypes, NEW limit
    PROVE  get_pending_outgoing_changes(limit) \subseteq Pending
<1> SUFFICES ASSUME NEW c \in Oldest(Range(out), limit)
             PROVE  [change |-> c, parent |-> read_sync_state(c.id)] \in Pending
    BY DEF get_pending_outgoing_changes
<1>1. c \in Change
    BY DEF Oldest, ChangeTypes
<1>2. read_sync_state(c.id) \in Record \cup {None}
    BY ReadSyncStateType
<1> QED BY <1>1, <1>2 DEF Pending

\* The sync's steps: the tasks' part of the types.
LEMMA SyncFrame ==
    ASSUME StoreTypeInv,
           \/ StartPush \/ Push \/ RemoveOutgoing \/ WriteSyncState \/ UpdateServerRevision
           \/ PhaseEnds \/ StartPull \/ InsertIncoming \/ StartApply \/ ApplyIncoming
           \/ DeleteIncoming \/ OtherDevice
    PROVE  CallTypes' /\ StoreLocks' /\ (faults' \in 0..MaxFaults => OtherTypes')
<1>1. UNCHANGED <<meta, deposit, swaps, localRevision, revisionLock, depositLock, call>>
    BY SyncLeavesTasks, Zenon
<1> QED BY <1>1 DEF StoreTypeInv, CallTypes, CallOK, StoreLocks, OtherTypes

\* The starts and ends of the sync's phases.
LEMMA PhaseTypes ==
    ASSUME StoreTypeInv, StartPush \/ PhaseEnds \/ StartPull \/ StartApply \/ ApplyIncoming
    PROVE  StoreTypeInv'
<1>1. CallTypes' /\ StoreLocks' /\ (faults' \in 0..MaxFaults => OtherTypes')
    BY SyncFrame, Zenon
<1>2. UNCHANGED <<storeDisk, server, faults>>
    BY DEF StartPush, PhaseEnds, StartPull, StartApply, ApplyIncoming
<1>3. ServerTypes' /\ RecordTypes' /\ ChangeTypes' /\ OtherTypes'
    BY <1>1, <1>2 DEF StoreTypeInv, ServerTypes, RecordTypes, ChangeTypes, OtherTypes, storeDisk
<1>4. SyncTypes'
    <2>1. CASE StartPush
        <3>1. PICK limit \in Limits : sync' = [pc |-> "push", todo |-> get_pending_outgoing_changes(limit)]
            BY <2>1 DEF StartPush
        <3>2. get_pending_outgoing_changes(limit) \subseteq Pending
            BY PendingTypes DEF StoreTypeInv
        <3> QED BY <3>1, <3>2 DEF SyncTypes, Pushing, Pulling
    <2>2. CASE PhaseEnds
        BY <2>2 DEF PhaseEnds, SyncTypes, Pushing, Pulling, Idle
    <2>3. CASE StartPull
        <3> DEFINE new == {[id |-> id, rev |-> server.of[id]] :
                              id \in {i \in RecordIds : server.of[i] > revision}}
        <3>1. sync' = [pc |-> "insert", todo |-> new]
            BY <2>3 DEF StartPull
        <3>2. new \subseteq Record
            BY SparkStoreAssumption DEF Record, StoreTypeInv, ServerTypes, RecordTypes
        <3> HIDE DEF new
        <3> QED BY <3>1, <3>2 DEF SyncTypes, Pushing, Pulling
    <2>4. CASE StartApply
        <3>1. PICK limit \in Limits : sync' = [pc |-> "apply", todo |-> get_incoming_records(limit)]
            BY <2>4 DEF StartApply
        <3>2. get_incoming_records(limit) \subseteq Record
            BY DEF get_incoming_records, Oldest, StoreTypeInv, RecordTypes
        <3> QED BY <3>1, <3>2 DEF SyncTypes, Pushing, Pulling
    <2>5. CASE ApplyIncoming
        <3>1. PICK r \in sync.todo : sync' = [pc |-> "state", record |-> r, next |-> "apply",
                                               todo |-> sync.todo \ {r}]
            BY <2>5 DEF ApplyIncoming
        <3>2. sync.todo \subseteq Record
            BY <2>5 DEF ApplyIncoming, StoreTypeInv, SyncTypes, Pulling
        <3> QED BY <3>1, <3>2 DEF SyncTypes, Pushing, Pulling
    <2> QED BY <2>1, <2>2, <2>3, <2>4, <2>5
<1> QED BY <1>1, <1>3, <1>4 DEF StoreTypeInv

\* The server gives a record the next revision.
LEMMA ServerStep ==
    ASSUME ServerTypes, NEW id \in RecordIds, server.rev < MaxRevision,
           server' = [rev |-> server.rev + 1, of |-> [server.of EXCEPT ![id] = server.rev + 1]]
    PROVE  /\ ServerTypes' /\ server'.rev = server.rev + 1 /\ server'.of[id] = server.rev + 1
           /\ \A i \in RecordIds : server.of[i] <= server'.of[i]
           /\ \A i \in RecordIds : i # id => server'.of[i] = server.of[i]
<1> DEFINE f == [server.of EXCEPT ![id] = server.rev + 1]
<1>1. server'.rev = server.rev + 1 /\ server'.of = f
    OBVIOUS
<1>2. /\ DOMAIN f = RecordIds /\ f[id] = server.rev + 1
      /\ \A i \in RecordIds : i # id => f[i] = server.of[i]
    BY DEF ServerTypes
<1> HIDE DEF f
<1> QED BY <1>1, <1>2, SparkStoreAssumption DEF ServerTypes

\* Steps at the server.
LEMMA ServerStepTypes ==
    ASSUME StoreTypeInv, Push \/ OtherDevice
    PROVE  StoreTypeInv'
<1>1. CallTypes' /\ StoreLocks' /\ (faults' \in 0..MaxFaults => OtherTypes')
    BY SyncFrame, Zenon
<1>2. UNCHANGED <<storeDisk, faults>> /\ ServerTypes
    BY DEF Push, OtherDevice, StoreTypeInv
<1>3. RecordTypes' /\ ChangeTypes' /\ OtherTypes'
    BY <1>1, <1>2 DEF StoreTypeInv, RecordTypes, ChangeTypes, OtherTypes, storeDisk
<1>4. SyncTypes' /\ ServerTypes'
    <2>1. CASE OtherDevice
        <3>1. PICK id \in RecordIds :
                  server' = [rev |-> server.rev + 1, of |-> [server.of EXCEPT ![id] = server.rev + 1]]
            BY <2>1 DEF OtherDevice
        <3>2. ServerTypes'
            BY <1>2, <2>1, <3>1, ServerStep DEF OtherDevice
        <3>3. sync' = sync
            BY <2>1 DEF OtherDevice, memory
        <3> QED BY <3>2, <3>3 DEF StoreTypeInv, SyncTypes, Pushing, Pulling
    <2>2. CASE Push
        <3>1. PICK p \in sync.todo :
              \/ LET c   == p.change
                     rev == server.rev + 1
                 IN  /\ server.rev < MaxRevision
                     /\ server.of[c.id] = RevisionOf(p.parent)
                     /\ server' = [rev |-> rev, of |-> [server.of EXCEPT ![c.id] = rev]]
                     /\ sync' = [pc |-> "remove", change |-> c, todo |-> sync.todo \ {p},
                                 record |-> [id |-> c.id, rev |-> rev]]
                     /\ owed' = owed \ {c}
              \/ sync' = Idle /\ UNCHANGED <<server, owed>>
            BY <2>2 DEF Push
        <3>2. sync.todo \subseteq Pending
            BY <2>2 DEF Push, StoreTypeInv, SyncTypes, Pushing
        <3>3. p.change \in Change /\ p.change.id \in RecordIds
            BY <3>2 DEF Pending, Change
        <3>4. CASE sync' = Idle /\ UNCHANGED <<server, owed>>
            BY <1>2, <3>4 DEF ServerTypes, SyncTypes, Pushing, Pulling, Idle
        <3>5. CASE ~(sync' = Idle /\ UNCHANGED <<server, owed>>)
            <4>1. ServerTypes'
                BY <1>2, <3>1, <3>3, <3>5, ServerStep
            <4>2. [id |-> p.change.id, rev |-> server.rev + 1] \in Record
                BY <1>2, <3>1, <3>3, <3>5, SparkStoreAssumption DEF Record, ServerTypes
            <4>3. sync' = [pc |-> "remove", change |-> p.change, todo |-> sync.todo \ {p},
                           record |-> [id |-> p.change.id, rev |-> server.rev + 1]]
                BY <3>1, <3>5
            <4>4. sync.todo \ {p} \subseteq Pending
                BY <3>2
            <4>5. ASSUME NEW r \in Record, NEW c \in Change, NEW T, T \subseteq Pending,
                         sync' = [pc |-> "remove", change |-> c, todo |-> T, record |-> r]
                  PROVE  SyncTypes'
                BY <4>5 DEF SyncTypes, Pushing, Pulling
            <4> QED BY <3>3, <4>1, <4>2, <4>3, <4>4, <4>5, Zenon
        <3> QED BY <3>1, <3>4, <3>5
    <2> QED BY <2>1, <2>2
<1> QED BY <1>1, <1>3, <1>4 DEF StoreTypeInv

\* The sync's writes: the removal of a change ...
LEMMA RemoveOutgoingTypes ==
    ASSUME StoreTypeInv, RemoveOutgoing
    PROVE  StoreTypeInv'
<1>1. CallTypes' /\ StoreLocks' /\ (faults' \in 0..MaxFaults => OtherTypes')
    BY SyncFrame, Zenon
<1>2. PICK o \in Outcomes : out' = Landed(o, Drop(out, sync.change.rev), out) /\ Fault(o)
    BY DEF RemoveOutgoing
<1>3. /\ sync' = [pc |-> "state", record |-> sync.record, next |-> "push", todo |-> sync.todo]
      /\ UNCHANGED <<in, state, revision, localRevision, server>>
      /\ sync.pc = "remove"
    BY DEF RemoveOutgoing
<1>4. OtherTypes'
    BY <1>1, <1>2, StoreOutcome DEF StoreTypeInv, OtherTypes
<1>5. DOMAIN out' \subseteq DOMAIN out /\ Range(out') \subseteq Range(out)
    BY <1>2, DropLanded, SMT
<1>6. ChangeTypes' /\ ServerTypes' /\ RecordTypes'
    BY <1>3, <1>5 DEF StoreTypeInv, ChangeTypes, ServerTypes, RecordTypes
<1>7. sync.record \in Record /\ sync.todo \subseteq Pending
    BY <1>3 DEF StoreTypeInv, SyncTypes, Pushing
<1>8. SyncTypes'
    BY <1>3, <1>7 DEF SyncTypes, Pushing, Pulling
<1> QED BY <1>1, <1>4, <1>6, <1>8 DEF StoreTypeInv

\* What the sync's todo holds while it writes a record.
LEMMA TodoTypes ==
    ASSUME SyncTypes, sync.pc \in {"state", "server"}
    PROVE  /\ sync.record \in Record /\ sync.next \in {"push", "apply"}
           /\ sync.next = "push" => sync.todo \subseteq Pending
           /\ sync.next = "apply" => sync.todo \subseteq Record
BY DEF SyncTypes, Pushing, Pulling

\* ... the write of the acknowledged record ...
LEMMA WriteSyncStateTypes ==
    ASSUME StoreTypeInv, WriteSyncState
    PROVE  StoreTypeInv'
<1>1. CallTypes' /\ StoreLocks' /\ (faults' \in 0..MaxFaults => OtherTypes')
    BY SyncFrame, Zenon
<1> DEFINE next == [pc |-> "server", record |-> sync.record, next |-> sync.next, todo |-> sync.todo]
<1>2. PICK o \in Outcomes :
          /\ state' = Landed(o, Put(state, record_id_key(sync.record.id), sync.record), state)
          /\ sync' = IF o # "ok" THEN Idle ELSE next
          /\ Fault(o)
    BY DEF WriteSyncState
<1>3. UNCHANGED <<in, out, revision, localRevision, server>> /\ sync.pc = "state"
    BY DEF WriteSyncState
<1>4. OtherTypes'
    BY <1>1, <1>2, StoreOutcome DEF StoreTypeInv, OtherTypes
<1>5. /\ sync.record \in Record /\ sync.next \in {"push", "apply"}
      /\ sync.next = "push" => sync.todo \subseteq Pending
      /\ sync.next = "apply" => sync.todo \subseteq Record
    BY <1>3, TodoTypes DEF StoreTypeInv
<1>6. Range(state') \subseteq Range(state) \cup {sync.record}
    BY <1>2, PutLanded, SMT
<1>7. ChangeTypes' /\ ServerTypes' /\ RecordTypes'
    BY <1>3, <1>5, <1>6 DEF StoreTypeInv, ChangeTypes, ServerTypes, RecordTypes
<1>8. SyncTypes'
    <2>1. CASE sync' = Idle
        BY <2>1 DEF SyncTypes, Pushing, Pulling, Idle
    <2>2. CASE sync' = next
        BY <1>5, <2>2 DEF SyncTypes, Pushing, Pulling
    <2> QED BY <1>2, <2>1, <2>2
<1> QED BY <1>1, <1>4, <1>7, <1>8 DEF StoreTypeInv

\* ... of the server's revision ...
LEMMA UpdateServerRevisionTypes ==
    ASSUME StoreTypeInv, UpdateServerRevision
    PROVE  StoreTypeInv' /\ revision' >= revision
<1>1. CallTypes' /\ StoreLocks' /\ (faults' \in 0..MaxFaults => OtherTypes')
    BY SyncFrame, Zenon
<1>2. PICK o \in Outcomes :
          /\ revision' = Landed(o, NewRevision(sync.record.rev), revision)
          /\ sync' = IF o # "ok" THEN Idle
                     ELSE IF sync.next = "push" THEN [pc |-> "push", todo |-> sync.todo]
                     ELSE [pc |-> "delete", record |-> sync.record, todo |-> sync.todo]
          /\ Fault(o)
    BY DEF UpdateServerRevision
<1>3. UNCHANGED <<in, out, state, localRevision, server>> /\ sync.pc = "server"
    BY DEF UpdateServerRevision
<1>4. OtherTypes'
    BY <1>1, <1>2, StoreOutcome DEF StoreTypeInv, OtherTypes
<1>5. /\ sync.record \in Record /\ sync.next \in {"push", "apply"}
      /\ sync.next = "push" => sync.todo \subseteq Pending
      /\ sync.next = "apply" => sync.todo \subseteq Record
    BY <1>3, TodoTypes DEF StoreTypeInv
<1>6. revision' \in 0..MaxRevision /\ revision' >= revision
    <2>1. revision \in 0..MaxRevision /\ sync.record.rev \in 1..MaxRevision
        BY <1>5 DEF StoreTypeInv, RecordTypes, Record
    <2> QED BY <1>2, <2>1, SparkStoreAssumption DEF Landed, NewRevision
<1>7. ChangeTypes' /\ ServerTypes' /\ RecordTypes'
    BY <1>3, <1>6 DEF StoreTypeInv, ChangeTypes, ServerTypes, RecordTypes
<1>8. SyncTypes'
    <2>1. CASE sync' = Idle
        BY <2>1 DEF SyncTypes, Pushing, Pulling, Idle
    <2>2. CASE sync.next = "push" /\ sync' = [pc |-> "push", todo |-> sync.todo]
        BY <1>5, <2>2 DEF SyncTypes, Pushing, Pulling
    <2>3. CASE sync.next = "apply"
                 /\ sync' = [pc |-> "delete", record |-> sync.record, todo |-> sync.todo]
        BY <1>5, <2>3 DEF SyncTypes, Pushing, Pulling
    <2> QED BY <1>2, <1>5, <2>1, <2>2, <2>3
<1> QED BY <1>1, <1>4, <1>6, <1>7, <1>8 DEF StoreTypeInv

\* ... and of incoming records.
LEMMA IncomingTypes ==
    ASSUME StoreTypeInv, InsertIncoming \/ DeleteIncoming
    PROVE  StoreTypeInv'
<1>1. CallTypes' /\ StoreLocks' /\ (faults' \in 0..MaxFaults => OtherTypes')
    BY SyncFrame, Zenon
<1>2. UNCHANGED <<out, state, revision, localRevision, server>>
    BY DEF InsertIncoming, DeleteIncoming
<1>3. CASE InsertIncoming
    <2>1. PICK r \in sync.todo, o \in Outcomes :
              /\ in' = Landed(o, Put(in, incoming_record_key(r), r), in)
              /\ sync' = IF o = "ok" THEN [pc |-> "insert", todo |-> sync.todo \ {r}] ELSE Idle
              /\ Fault(o)
        BY <1>3 DEF InsertIncoming
    <2>2. sync.todo \subseteq Record
        BY <1>3 DEF InsertIncoming, StoreTypeInv, SyncTypes, Pulling
    <2>3. OtherTypes'
        BY <1>1, <2>1, StoreOutcome DEF StoreTypeInv, OtherTypes
    <2>4. /\ Range(in') \subseteq Range(in) \cup {r}
          /\ DOMAIN in' \subseteq DOMAIN in \cup {incoming_record_key(r)}
        BY <2>1, PutLanded, SMT
    <2>5. IsFiniteSet(DOMAIN in')
        <3>1. IsFiniteSet(DOMAIN in)
            BY DEF StoreTypeInv, RecordTypes
        <3>2. IsFiniteSet(DOMAIN in \cup {incoming_record_key(r)})
            BY <3>1, FS_AddElement
        <3> QED BY <2>4, <3>2, FS_Subset
    <2>6. ChangeTypes' /\ ServerTypes' /\ RecordTypes'
        BY <1>2, <2>2, <2>4, <2>5 DEF StoreTypeInv, ChangeTypes, ServerTypes, RecordTypes
    <2>7. SyncTypes'
        <3>1. CASE sync' = Idle
            BY <3>1 DEF SyncTypes, Pushing, Pulling, Idle
        <3>2. CASE sync' = [pc |-> "insert", todo |-> sync.todo \ {r}]
            BY <2>2, <3>2 DEF SyncTypes, Pushing, Pulling
        <3> QED BY <2>1, <3>1, <3>2
    <2> QED BY <1>1, <2>3, <2>6, <2>7 DEF StoreTypeInv
<1>4. CASE DeleteIncoming
    <2>1. PICK o \in Outcomes :
              in' = Landed(o, Drop(in, incoming_record_key(sync.record)), in) /\ Fault(o)
        BY <1>4 DEF DeleteIncoming
    <2>2. sync.todo \subseteq Record /\ sync' = [pc |-> "apply", todo |-> sync.todo]
        BY <1>4 DEF DeleteIncoming, StoreTypeInv, SyncTypes, Pulling
    <2>3. OtherTypes'
        BY <1>1, <2>1, StoreOutcome DEF StoreTypeInv, OtherTypes
    <2>4. Range(in') \subseteq Range(in) /\ DOMAIN in' \subseteq DOMAIN in
        BY <2>1, DropLanded, SMT
    <2>5. IsFiniteSet(DOMAIN in')
        BY <2>4, FS_Subset DEF StoreTypeInv, RecordTypes
    <2>6. ChangeTypes' /\ ServerTypes' /\ RecordTypes'
        BY <1>2, <2>4, <2>5 DEF StoreTypeInv, ChangeTypes, ServerTypes, RecordTypes
    <2>7. SyncTypes'
        BY <2>2 DEF SyncTypes, Pushing, Pulling
    <2> QED BY <1>1, <2>3, <2>6, <2>7 DEF StoreTypeInv
<1> QED BY <1>3, <1>4

\* A crash.
LEMMA StoreCrashTypes ==
    ASSUME StoreTypeInv, StoreCrash
    PROVE  StoreTypeInv'
<1>1. /\ call' = [t \in Tasks |-> Idle] /\ sync' = Idle
      /\ revisionLock' = None /\ depositLock' = None
      /\ faults < MaxFaults /\ faults' = faults + 1
      /\ UNCHANGED <<storeDisk, server>>
    BY DEF StoreCrash
<1>2. CallTypes' /\ \A t \in Tasks : call'[t].pc = "idle"
    BY <1>1 DEF CallTypes, CallOK, Idle
<1>3. SyncTypes'
    BY <1>1 DEF SyncTypes, Pushing, Pulling, Idle
<1>4. StoreLocks'
    BY <1>1, <1>2, SparkStoreAssumption DEF StoreLocks
<1>5. ServerTypes' /\ RecordTypes' /\ ChangeTypes'
    BY <1>1 DEF StoreTypeInv, ServerTypes, RecordTypes, ChangeTypes, storeDisk
<1>6. OtherTypes'
    BY <1>1, SparkStoreAssumption DEF StoreTypeInv, OtherTypes, storeDisk
<1> QED BY <1>2, <1>3, <1>4, <1>5, <1>6 DEF StoreTypeInv

\* The types hold at first ...
LEMMA StoreTypesInit == StoreInit => StoreTypeInv
<1> SUFFICES ASSUME StoreInit PROVE StoreTypeInv
    OBVIOUS
<1>1. CallTypes /\ StoreLocks
    BY SparkStoreAssumption DEF StoreInit, CallTypes, CallOK, Idle, StoreLocks
<1>2. SyncTypes
    BY DEF StoreInit, SyncTypes, Pushing, Pulling, Idle
<1>3. ServerTypes
    BY SparkStoreAssumption DEF StoreInit, ServerTypes
<1>4. RecordTypes
    <2>1. DOMAIN in = {} /\ Range(in) = {} /\ Range(state) = {} /\ revision = 0
        BY DEF StoreInit, Nothing, Range
    <2> QED BY <2>1, FS_EmptySet, SparkStoreAssumption DEF RecordTypes
<1>5. ChangeTypes
    <2>1. DOMAIN out = {} /\ Range(out) = {} /\ localRevision = 0
        BY DEF StoreInit, Nothing, Range
    <2> QED BY <2>1, SparkStoreAssumption DEF ChangeTypes
<1>6. OtherTypes
    BY SparkStoreAssumption DEF StoreInit, OtherTypes
<1> QED BY <1>1, <1>2, <1>3, <1>4, <1>5, <1>6 DEF StoreTypeInv

\* ... and every step keeps them.
LEMMA StoreTypesStep ==
    ASSUME StoreTypeInv, [StoreNext]_storeVars
    PROVE  StoreTypeInv'
<1>1. CASE StoreNext
    <2>1. ASSUME NEW t \in Tasks, ReadMetadata(t) \/ WriteMetadata(t)
                                  \/ ReadDeposit(t) \/ WriteDeposit(t) \/ DeleteDeposit(t)
                                  \/ SetSwap(t)
                                  \/ ReadLocalRevision(t) \/ WriteLocalRevision(t) \/ WriteChange(t)
          PROVE  StoreTypeInv'
        BY <2>1, ReadMetadataTypes, WriteTypes, ReadDepositTypes, DeleteTypes, ReadRevisionTypes,
           WriteRevisionTypes, WriteChangeTypes, Zenon
    <2>2. ASSUME \/ StartPush \/ Push \/ RemoveOutgoing \/ WriteSyncState \/ UpdateServerRevision
                 \/ PhaseEnds \/ StartPull \/ InsertIncoming \/ StartApply \/ ApplyIncoming
                 \/ DeleteIncoming \/ OtherDevice \/ StoreCrash
          PROVE  StoreTypeInv'
        BY <2>2, PhaseTypes, ServerStepTypes, RemoveOutgoingTypes, WriteSyncStateTypes,
           UpdateServerRevisionTypes, IncomingTypes, StoreCrashTypes, Zenon
    <2> QED BY <1>1, <2>1, <2>2, StoreStepCases, Zenon
<1>2. CASE UNCHANGED storeVars
    BY <1>2 DEF storeVars, storeDisk, memory, StoreTypeInv, CallTypes, CallOK, SyncTypes, Pushing,
                Pulling, ServerTypes, RecordTypes, ChangeTypes, OtherTypes, StoreLocks
<1> QED BY <1>1, <1>2

(***************************************************************************)
(* Keys: whatever is stored under the key of an id belongs to it.          *)
(***************************************************************************)

\* A record, or a swap, lies under the key of its own id.
KeyInv ==
    /\ \A k \in DOMAIN state : state[k].id \in RecordIds /\ k = record_id_key(state[k].id)
    /\ \A k \in DOMAIN swaps : swaps[k].id \in Swaps /\ k = sync_record_key(swaps[k].id)

\* What is acknowledged of an id is a record of that id.
LEMMA StateUnderOwnKey ==
    ASSUME KeyInv, NEW id \in RecordIds, read_sync_state(id) # None
    PROVE  /\ record_id_key(id) \in DOMAIN state
           /\ read_sync_state(id) = state[record_id_key(id)]
           /\ read_sync_state(id).id = id
<1> DEFINE k == record_id_key(id)
<1>1. k \in DOMAIN state /\ read_sync_state(id) = state[k]
    BY DEF read_sync_state
<1>2. state[k].id \in RecordIds /\ sync_record_key(id) = sync_record_key(state[k].id)
    BY <1>1 DEF KeyInv, record_id_key
<1>3. state[k].id = id
    BY <1>2, KeysDiffer
<1> QED BY <1>1, <1>3

\* UnderOwnKey follows, for swaps too.
LEMMA KeyInvSuffices == KeyInv => UnderOwnKey
<1> SUFFICES ASSUME KeyInv PROVE UnderOwnKey
    OBVIOUS
<1>1. ASSUME NEW id \in RecordIds, read_sync_state(id) # None PROVE read_sync_state(id).id = id
    BY <1>1, StateUnderOwnKey
<1>2. ASSUME NEW s \in Swaps, get_cross_chain_swap(s) # None PROVE get_cross_chain_swap(s).id = s
    <2> DEFINE k == sync_record_key(s)
    <2>1. k \in DOMAIN swaps /\ get_cross_chain_swap(s) = swaps[k]
        BY <1>2 DEF get_cross_chain_swap
    <2>2. swaps[k].id \in Swaps /\ k = sync_record_key(swaps[k].id)
        BY <2>1 DEF KeyInv
    <2>3. swaps[k].id = s
        BY <2>2, KeysDiffer
    <2> QED BY <2>1, <2>3
<1>3. ASSUME NEW s \in Swaps, NEW a \in list_active_cross_chain_swaps(s[1])
      PROVE  get_cross_chain_swap(a.id) = a
    <2>1. PICK k \in DOMAIN swaps : a = swaps[k]
        BY DEF list_active_cross_chain_swaps, Range
    <2>2. k = sync_record_key(a.id)
        BY <2>1 DEF KeyInv
    <2> QED BY <2>1, <2>2 DEF get_cross_chain_swap
<1> QED BY <1>1, <1>2, <1>3 DEF UnderOwnKey

\* A write puts records and swaps under their own keys.
LEMMA KeyInvStep ==
    ASSUME StoreTypeInv, KeyInv, [StoreNext]_storeVars
    PROVE  KeyInv'
<1>1. CASE UNCHANGED <<state, swaps>>
    BY <1>1 DEF KeyInv, record_id_key
<1>2. ASSUME NEW t \in Tasks, SetSwap(t) PROVE KeyInv'
    <2>1. PICK s \in Swaps, terminal \in BOOLEAN, o \in Outcomes :
              swaps' = Landed(o, Put(swaps, sync_record_key(s), [id |-> s, terminal |-> terminal]),
                              swaps)
        BY <1>2 DEF SetSwap
    <2> DEFINE k == sync_record_key(s)
               v == [id |-> s, terminal |-> terminal]
    <2>2. swaps' = Landed(o, Put(swaps, k, v), swaps) /\ v.id = s
        BY <2>1
    <2>3. state' = state
        BY <1>2 DEF SetSwap
    <2> HIDE DEF v
    <2>4. /\ DOMAIN swaps' \subseteq DOMAIN swaps \cup {k}
          /\ \A x \in DOMAIN swaps : x # k => swaps'[x] = swaps[x]
          /\ o # "failed" => swaps'[k] = v
          /\ o = "failed" => swaps' = swaps
        BY <2>2, PutLanded, SMT
    <2>5. \A x \in DOMAIN swaps' : swaps'[x].id \in Swaps /\ x = sync_record_key(swaps'[x].id)
        BY <2>2, <2>4 DEF KeyInv
    <2> QED BY <2>3, <2>5 DEF KeyInv, record_id_key
<1>3. CASE WriteSyncState
    <2>1. PICK o \in Outcomes :
              state' = Landed(o, Put(state, record_id_key(sync.record.id), sync.record), state)
        BY <1>3 DEF WriteSyncState
    <2> DEFINE k == record_id_key(sync.record.id)
               v == sync.record
    <2>2. v \in Record /\ v.id \in RecordIds
        BY <1>3, TodoTypes DEF WriteSyncState, StoreTypeInv, Record
    <2>3. swaps' = swaps
        BY <1>3 DEF WriteSyncState
    <2>4. /\ DOMAIN state' \subseteq DOMAIN state \cup {k}
          /\ \A x \in DOMAIN state : x # k => state'[x] = state[x]
          /\ o # "failed" => state'[k] = v
          /\ o = "failed" => state' = state
        BY <2>1, PutLanded, SMT
    <2>5. k = record_id_key(v.id)
        OBVIOUS
    <2> HIDE DEF v, k
    <2>6. \A x \in DOMAIN state' : state'[x].id \in RecordIds /\ x = record_id_key(state'[x].id)
        BY <2>2, <2>4, <2>5 DEF KeyInv
    <2> QED BY <2>3, <2>6 DEF KeyInv, record_id_key
<1>4. UNCHANGED <<state, swaps>> \/ WriteSyncState \/ \E t \in Tasks : SetSwap(t)
    BY DEF StoreNext, Sync, storeVars, storeDisk, memory, ReadMetadata, WriteMetadata, ReadDeposit,
           WriteDeposit, DeleteDeposit, ReadLocalRevision, WriteLocalRevision, WriteChange,
           StartPush, Push, RemoveOutgoing, UpdateServerRevision, PhaseEnds, StartPull,
           InsertIncoming, StartApply, ApplyIncoming, DeleteIncoming, OtherDevice, StoreCrash
<1> QED BY <1>1, <1>2, <1>3, <1>4

\* KeyInv at the start.
LEMMA KeyInvInit == StoreInit => KeyInv
BY DEF StoreInit, KeyInv, Nothing

(***************************************************************************)
(* Deposits.                                                               *)
(***************************************************************************)

\* What a task is going to write keeps the refund that is stored.
DepositInv == \A t \in Tasks : call[t].pc = "deposit" => Keeps(deposit, call[t].new)

\* No step but the removal of a deposit makes it forget its refund.
LEMMA DepositStep ==
    ASSUME StoreTypeInv, DepositInv, [StoreNext]_storeVars
    PROVE  DepositInv' /\ (deposit' = None \/ Keeps(deposit, deposit'))
<1>0. Keeps(deposit, deposit)
    BY DEF Keeps
<1>1. ASSUME NEW t \in Tasks, ReadDeposit(t)
      PROVE  DepositInv' /\ (deposit' = None \/ Keeps(deposit, deposit'))
    <2>1. PICK d \in DepositInfo : Goto(t, [pc |-> "deposit", new |-> d]) /\ Keeps(deposit, d)
        BY <1>1, ReadDepositCall
    <2> DEFINE c == [pc |-> "deposit", new |-> d]
    <2>2. CallOK(c) /\ c.new = d
        BY DEF CallOK
    <2>3. Goto(t, c) /\ CallTypes /\ deposit' = deposit
        BY <1>1, <2>1 DEF StoreTypeInv, ReadDeposit, storeDisk
    <2> HIDE DEF c
    <2>4. call'[t] = c /\ \A u \in Tasks : u # t => call'[u] = call[u]
        BY <2>2, <2>3, CallStep
    <2>5. \A u \in Tasks : call'[u].pc = "deposit" => Keeps(deposit, call'[u].new)
        BY <2>1, <2>2, <2>4 DEF DepositInv
    <2> QED BY <1>0, <2>3, <2>5 DEF DepositInv, Keeps
<1>2. ASSUME NEW t \in Tasks, WriteDeposit(t)
      PROVE  DepositInv' /\ (deposit' = None \/ Keeps(deposit, deposit'))
    <2>1. PICK o \in Outcomes : deposit' = Landed(o, call[t].new, deposit)
        BY <1>2 DEF WriteDeposit
    <2>2. CallTypes /\ Goto(t, Idle) /\ call[t].pc = "deposit"
        BY <1>2 DEF StoreTypeInv, WriteDeposit
    <2>3. call'[t] = Idle /\ \A u \in Tasks : u # t => call'[u] = call[u]
        BY <2>2, IdleOK, CallStep
    <2>4. \A u \in Tasks : u # t => call[u].pc # "deposit"
        BY <2>2 DEF StoreTypeInv, StoreLocks
    <2>5. \A u \in Tasks : call'[u].pc # "deposit"
        BY <2>3, <2>4, IdleOK
    <2>6. Keeps(deposit, deposit')
        BY <1>0, <2>1, <2>2 DEF Landed, DepositInv
    <2> QED BY <2>5, <2>6 DEF DepositInv
<1>3. ASSUME NEW t \in Tasks, DeleteDeposit(t)
      PROVE  DepositInv' /\ (deposit' = None \/ Keeps(deposit, deposit'))
    <2>1. deposit' \in {None, deposit} /\ call' = call /\ depositLock = None
        BY <1>3 DEF DeleteDeposit, Landed, memory
    <2>2. \A u \in Tasks : call[u].pc # "deposit"
        BY <2>1, SparkStoreAssumption DEF StoreTypeInv, StoreLocks
    <2> QED BY <1>0, <2>1, <2>2 DEF DepositInv
<1>4. ASSUME deposit' = deposit,
             \A t \in Tasks : call'[t].pc = "deposit" => call'[t] = call[t]
      PROVE  DepositInv' /\ (deposit' = None \/ Keeps(deposit, deposit'))
    BY <1>0, <1>4 DEF DepositInv, Keeps
<1>6. ASSUME NEW t \in Tasks, ReadMetadata(t)
      PROVE  \A u \in Tasks : call'[u].pc = "deposit" => call'[u] = call[u]
    BY <1>6 DEF ReadMetadata, Goto, StoreTypeInv, CallTypes
<1>7. ASSUME NEW t \in Tasks, WriteMetadata(t) \/ WriteChange(t) \/ SetSwap(t)
      PROVE  \A u \in Tasks : call'[u].pc = "deposit" => call'[u] = call[u]
    BY <1>7 DEF WriteMetadata, WriteChange, SetSwap, Goto, Idle, StoreTypeInv, CallTypes, memory
<1>8. ASSUME NEW t \in Tasks, ReadLocalRevision(t) \/ WriteLocalRevision(t)
      PROVE  \A u \in Tasks : call'[u].pc = "deposit" => call'[u] = call[u]
    BY <1>8 DEF ReadLocalRevision, WriteLocalRevision, Goto, Idle, StoreTypeInv, CallTypes
<1>9. ASSUME NEW t \in Tasks, \/ ReadMetadata(t) \/ WriteMetadata(t) \/ WriteChange(t) \/ SetSwap(t)
                              \/ ReadLocalRevision(t) \/ WriteLocalRevision(t)
      PROVE  deposit' = deposit
    BY <1>9 DEF ReadMetadata, WriteMetadata, WriteChange, SetSwap, ReadLocalRevision,
                WriteLocalRevision, storeDisk
<1>10. CASE UNCHANGED <<deposit, call>>
    BY <1>4, <1>10
<1>11. CASE StoreCrash
    BY <1>4, <1>11 DEF StoreCrash, storeDisk, Idle
<1>12. UNCHANGED storeVars => UNCHANGED <<deposit, call>>
    BY DEF storeVars, storeDisk, memory
<1>13. ASSUME \/ StartPush \/ Push \/ RemoveOutgoing \/ WriteSyncState \/ UpdateServerRevision
              \/ PhaseEnds \/ StartPull \/ InsertIncoming \/ StartApply \/ ApplyIncoming
              \/ DeleteIncoming \/ OtherDevice
       PROVE  UNCHANGED <<deposit, call>>
    BY <1>13, SyncLeavesTasks, Zenon
<1> QED BY <1>1, <1>2, <1>3, <1>4, <1>6, <1>7, <1>8, <1>9, <1>10, <1>11, <1>12, <1>13,
           StoreStepCases, Zenon

\* DepositInv at the start.
LEMMA DepositInvInit == StoreInit => DepositInv
BY DEF StoreInit, DepositInv, Idle

(***************************************************************************)
(* Outgoing changes.                                                       *)
(***************************************************************************)

\* A change lies under its own local revision, and the counter is never behind;
\* the revision a task holds is the next one, or one that nobody else has.
RevisionInv ==
    /\ \A k \in DOMAIN out : out[k].rev = k /\ k <= localRevision
    /\ \A t \in Tasks :
          /\ call[t].pc = "revision" => call[t].rev = localRevision + 1
          /\ call[t].pc = "change" => call[t].rev <= localRevision /\ call[t].rev \notin DOMAIN out
    /\ \A t, u \in Tasks : t # u /\ call[t].pc = "change" /\ call[u].pc = "change" =>
          call[t].rev # call[u].rev

\* The changes the sync is going to push.
Flying == IF Pushing THEN {p.change : p \in sync.todo} ELSE {}

\* The one it is about to remove, which the server has taken.
Taken == IF sync.pc = "remove" THEN {sync.change} ELSE {}

\* Nobody is about to store another change under the revision of one that the
\* sync works on; what the sync is about to remove is owed no longer.
FlyingInv ==
    /\ \A c \in Flying : c.rev \in DOMAIN out => out[c.rev] = c
    /\ \A c \in Flying \cup Taken :
          /\ c.rev <= localRevision
          /\ \A t \in Tasks : call[t].pc = "change" => call[t].rev # c.rev
    /\ \A c \in Taken : \A d \in owed : d.rev # c.rev

OwedInv == \A c \in owed : c.rev \in DOMAIN out /\ out[c.rev] = c

ChangeInv == RevisionInv /\ FlyingInv /\ OwedInv

\* A set of numbers with a bound has a greatest member.
LEMMA GreatestIn ==
    ASSUME NEW n \in Nat, NEW S, S \subseteq 1..n, S # {}
    PROVE  Max(S) \in S /\ \A x \in S : x <= Max(S)
<1> DEFINE T == {i \in Nat : \A x \in S : x <= i}
<1>1. n \in T
    OBVIOUS
<1>2. \E m \in T : \A i \in T : ~(<<i, m>> \in OpToRel(<, Nat))
    BY <1>1, NatLessThanWellFounded, WFMin
<1>3. PICK m \in T : \A i \in T : ~(i < m)
    BY <1>2 DEF OpToRel
<1>4. m \in S
    <2>1. ASSUME m \notin S PROVE FALSE
        <3>1. \A x \in S : x < m
            BY <1>3, <2>1
        <3>2. PICK x \in S : x \in 1..n
            OBVIOUS
        <3>4. m \in Nat /\ m > 0
            BY <1>3, <3>1, <3>2
        <3>3. m - 1 \in T
            BY <1>3, <3>1, <3>4
        <3> QED BY <1>3, <3>4, <3>3
    <2> QED BY <2>1
<1>5. m \in S /\ \A y \in S : m >= y
    BY <1>3, <1>4
<1>6. Max(S) \in S /\ \A y \in S : Max(S) >= y
    BY <1>5 DEF Max
<1> QED BY <1>6

\* NoChangeLost follows.
LEMMA ChangeInvSuffices == StoreTypeInv /\ ChangeInv => NoChangeLost
<1> SUFFICES ASSUME StoreTypeInv, ChangeInv, NEW c \in owed
             PROVE  /\ c.rev \in DOMAIN out /\ out[c.rev] = c
                    /\ get_latest_outgoing_change.change.rev >= c.rev
    BY DEF NoChangeLost
<1>1. c.rev \in DOMAIN out /\ out[c.rev] = c
    BY DEF ChangeInv, OwedInv
<1>2. DOMAIN out \subseteq 1..MaxChanges /\ MaxChanges \in Nat
    BY SparkStoreAssumption DEF StoreTypeInv, ChangeTypes
<1> DEFINE m == Max(DOMAIN out)
<1>3. m \in DOMAIN out /\ c.rev <= m
    BY <1>1, <1>2, GreatestIn
<1>4. get_latest_outgoing_change.change = out[m]
    BY <1>1 DEF get_latest_outgoing_change
<1>5. out[m].rev = m
    BY <1>3 DEF ChangeInv, RevisionInv
<1>6. m \in Nat /\ c.rev \in Nat
    BY <1>1, <1>2, <1>3
<1> HIDE DEF m
<1> QED BY <1>1, <1>3, <1>4, <1>5, <1>6

\* Steps that only advance other tasks, or the sync, leave the changes alone.
LEMMA ChangeFrame ==
    ASSUME StoreTypeInv, ChangeInv, UNCHANGED <<out, localRevision, owed>>,
           \A t \in Tasks : call'[t].pc \in {"revision", "change"} => call'[t] = call[t],
           Flying' \subseteq Flying, Taken' \subseteq Taken
    PROVE  ChangeInv'
<1>1. RevisionInv'
    BY DEF ChangeInv, RevisionInv
<1>2. FlyingInv'
    BY DEF ChangeInv, FlyingInv
<1>3. OwedInv'
    BY DEF ChangeInv, OwedInv
<1> QED BY <1>1, <1>2, <1>3 DEF ChangeInv

\* Reading the counter: the lock is free, so nobody else holds the next revision.
LEMMA ReadRevisionChange ==
    ASSUME StoreTypeInv, ChangeInv, NEW t \in Tasks, ReadLocalRevision(t)
    PROVE  ChangeInv'
<1>1. PICK id \in RecordIds : Goto(t, [pc |-> "revision", id |-> id, rev |-> localRevision + 1])
    BY DEF ReadLocalRevision
<1> DEFINE c == [pc |-> "revision", id |-> id, rev |-> localRevision + 1]
<1>2. CallOK(c) /\ c.pc = "revision" /\ c.rev = localRevision + 1
    BY SparkStoreAssumption DEF CallOK, ReadLocalRevision, StoreTypeInv, ChangeTypes
<1>3. Goto(t, c) /\ CallTypes
    BY <1>1 DEF StoreTypeInv
<1>4. UNCHANGED <<out, localRevision, owed, sync>>
    BY DEF ReadLocalRevision, storeDisk
<1> HIDE DEF c
<1>5. call'[t] = c /\ \A u \in Tasks : u # t => call'[u] = call[u]
    BY <1>2, <1>3, CallStep
<1>6. Flying' = Flying /\ Taken' = Taken
    BY <1>4 DEF Flying, Pushing, Taken
<1>7. RevisionInv'
    BY <1>2, <1>4, <1>5 DEF ChangeInv, RevisionInv
<1>8. FlyingInv'
    BY <1>2, <1>4, <1>5, <1>6 DEF ChangeInv, FlyingInv
<1>9. OwedInv'
    BY <1>4 DEF ChangeInv, OwedInv
<1> QED BY <1>7, <1>8, <1>9 DEF ChangeInv

\* Writing it: the revision the task holds is above all that are in use.
LEMMA WriteRevisionChange ==
    ASSUME StoreTypeInv, ChangeInv, NEW t \in Tasks, WriteLocalRevision(t)
    PROVE  ChangeInv'
<1> DEFINE d == [pc |-> "change", id |-> call[t].id, rev |-> call[t].rev]
<1>1. PICK o \in Outcomes : /\ localRevision' = Landed(o, call[t].rev, localRevision)
                            /\ Goto(t, IF o = "ok" THEN d ELSE Idle)
    BY DEF WriteLocalRevision
<1>2. call[t].pc = "revision" /\ UNCHANGED <<out, sync, owed>>
    BY DEF WriteLocalRevision
<1>3. CallTypes /\ CallOK(call[t])
    BY DEF StoreTypeInv, CallTypes
<1>4. call[t].id \in RecordIds /\ call[t].rev \in 1..MaxChanges
    BY <1>2, <1>3 DEF CallOK
<1>5. CallOK(d) /\ d.pc = "change" /\ d.rev = call[t].rev
    BY <1>4 DEF CallOK
<1> HIDE DEF d
<1>6. /\ call[t].rev = localRevision + 1 /\ localRevision \in Nat
      /\ \A u \in Tasks : u # t => call[u].pc # "revision"
    BY <1>2 DEF ChangeInv, RevisionInv, StoreTypeInv, ChangeTypes, StoreLocks
<1>7. PICK c : /\ CallOK(c) /\ Goto(t, c)
               /\ \/ c.pc = "idle" /\ localRevision' \in {localRevision, localRevision + 1}
                  \/ c.pc = "change" /\ c.rev = localRevision + 1 /\ localRevision' = localRevision + 1
    BY <1>1, <1>5, <1>6, IdleOK DEF Landed
<1>8. call'[t] = c /\ \A u \in Tasks : u # t => call'[u] = call[u]
    BY <1>3, <1>7, CallStep
<1>9. Flying' = Flying /\ Taken' = Taken
    BY <1>2 DEF Flying, Pushing, Taken
<1>10. localRevision' \in Nat /\ localRevision <= localRevision'
    BY <1>6, <1>7
<1>11. DOMAIN out \subseteq Nat /\ \A u \in Tasks : call[u].pc = "change" => call[u].rev \in Nat
    BY DEF StoreTypeInv, ChangeTypes, CallTypes, CallOK
<1>12. RevisionInv'
    <2>1. \A k \in DOMAIN out' : out'[k].rev = k /\ k <= localRevision'
        BY <1>2, <1>6, <1>10, <1>11 DEF ChangeInv, RevisionInv
    <2>2. ASSUME NEW u \in Tasks, call'[u].pc = "revision" PROVE call'[u].rev = localRevision' + 1
        BY <1>6, <1>7, <1>8, <2>2
    <2>3. ASSUME NEW u \in Tasks, call'[u].pc = "change"
          PROVE  call'[u].rev <= localRevision' /\ call'[u].rev \notin DOMAIN out'
        <3>1. CASE u = t
            BY <1>2, <1>6, <1>7, <1>8, <1>11, <2>3, <3>1 DEF ChangeInv, RevisionInv
        <3>2. CASE u # t
            BY <1>2, <1>6, <1>8, <1>10, <1>11, <2>3, <3>2 DEF ChangeInv, RevisionInv
        <3> QED BY <3>1, <3>2
    <2>4. ASSUME NEW u \in Tasks, NEW w \in Tasks, u # w, call'[u].pc = "change", call'[w].pc = "change"
          PROVE  call'[u].rev # call'[w].rev
        <3>1. CASE u # t /\ w # t
            BY <1>8, <2>4, <3>1 DEF ChangeInv, RevisionInv
        <3>2. ASSUME NEW x \in Tasks, NEW y \in Tasks, x = t, y # t, call'[x].pc = "change",
                     call'[y].pc = "change"
              PROVE  call'[x].rev # call'[y].rev
            <4>1. call'[x].rev = localRevision + 1
                BY <1>7, <1>8, <3>2
            <4>2. call'[y].rev <= localRevision /\ call'[y].rev \in Nat
                BY <1>8, <1>11, <3>2 DEF ChangeInv, RevisionInv
            <4> QED BY <1>6, <4>1, <4>2
        <3> QED BY <2>4, <3>1, <3>2
    <2> QED BY <2>1, <2>2, <2>3, <2>4 DEF RevisionInv
<1>13. FlyingInv'
    <2>1. \A c1 \in Flying' : c1.rev \in DOMAIN out' => out'[c1.rev] = c1
        BY <1>2, <1>9 DEF ChangeInv, FlyingInv
    <2>2. \A c1 \in Flying \cup Taken : c1.rev \in Nat /\ c1.rev <= localRevision
        BY DEF ChangeInv, FlyingInv, Flying, Taken, StoreTypeInv, SyncTypes, Pending, Change
    <2>3. ASSUME NEW c1 \in Flying \cup Taken
          PROVE  /\ c1.rev <= localRevision'
                 /\ \A u \in Tasks : call'[u].pc = "change" => call'[u].rev # c1.rev
        BY <1>6, <1>7, <1>8, <1>10, <2>2 DEF ChangeInv, FlyingInv
    <2>4. \A c1 \in Taken' : \A d1 \in owed' : d1.rev # c1.rev
        BY <1>2, <1>9 DEF ChangeInv, FlyingInv
    <2> QED BY <1>9, <2>1, <2>3, <2>4 DEF FlyingInv
<1>14. OwedInv'
    BY <1>2 DEF ChangeInv, OwedInv
<1> QED BY <1>12, <1>13, <1>14 DEF ChangeInv

\* Storing the change: its revision is free.
LEMMA WriteChangeChange ==
    ASSUME StoreTypeInv, ChangeInv, NEW t \in Tasks, WriteChange(t)
    PROVE  ChangeInv'
<1> DEFINE c == [id |-> call[t].id, rev |-> call[t].rev]
<1>1. PICK o \in Outcomes : /\ out' = Landed(o, Put(out, c.rev, c), out)
                            /\ owed' = IF o = "ok" THEN owed \cup {c} ELSE owed
    BY DEF WriteChange
<1>2. /\ call[t].pc = "change" /\ Goto(t, Idle) /\ UNCHANGED <<localRevision, sync>>
    BY DEF WriteChange
<1>3. CallTypes /\ CallOK(call[t])
    BY DEF StoreTypeInv, CallTypes
<1>4. c.rev = call[t].rev
    OBVIOUS
<1> HIDE DEF c
<1>5. call'[t] = Idle /\ \A u \in Tasks : u # t => call'[u] = call[u]
    BY <1>2, <1>3, IdleOK, CallStep
<1>6. /\ DOMAIN out \subseteq DOMAIN out' /\ DOMAIN out' \subseteq DOMAIN out \cup {c.rev}
      /\ \A x \in DOMAIN out : x # c.rev => out'[x] = out[x]
      /\ o # "failed" => c.rev \in DOMAIN out' /\ out'[c.rev] = c
      /\ o = "failed" => out' = out
    BY <1>1, PutLanded, SMT
<1>7. c.rev \notin DOMAIN out /\ c.rev <= localRevision
    BY <1>2, <1>4 DEF ChangeInv, RevisionInv
<1>8. Flying' = Flying /\ Taken' = Taken
    BY <1>2 DEF Flying, Pushing, Taken
<1>9. RevisionInv'
    <2>1. \A k \in DOMAIN out' : out'[k].rev = k /\ k <= localRevision'
        BY <1>2, <1>6, <1>7 DEF ChangeInv, RevisionInv
    <2>2. ASSUME NEW u \in Tasks
          PROVE  /\ call'[u].pc = "revision" => call'[u].rev = localRevision' + 1
                 /\ call'[u].pc = "change" =>
                       call'[u].rev <= localRevision' /\ call'[u].rev \notin DOMAIN out'
        BY <1>2, <1>4, <1>5, <1>6, IdleOK DEF ChangeInv, RevisionInv
    <2>3. \A u, w \in Tasks : u # w /\ call'[u].pc = "change" /\ call'[w].pc = "change" =>
              call'[u].rev # call'[w].rev
        BY <1>5, IdleOK DEF ChangeInv, RevisionInv
    <2> QED BY <2>1, <2>2, <2>3 DEF RevisionInv
<1>10. FlyingInv'
    <2>1. \A f \in Flying \cup Taken : f.rev # c.rev
        BY <1>2, <1>4 DEF ChangeInv, FlyingInv
    <2>2. \A f \in Flying' : f.rev \in DOMAIN out' => out'[f.rev] = f
        BY <1>6, <1>8, <2>1 DEF ChangeInv, FlyingInv
    <2>3. \A f \in Flying' \cup Taken' :
              /\ f.rev <= localRevision'
              /\ \A u \in Tasks : call'[u].pc = "change" => call'[u].rev # f.rev
        BY <1>2, <1>5, <1>8, IdleOK DEF ChangeInv, FlyingInv
    <2>4. \A f \in Taken' : \A d \in owed' : d.rev # f.rev
        BY <1>1, <1>8, <2>1 DEF ChangeInv, FlyingInv
    <2> QED BY <2>2, <2>3, <2>4 DEF FlyingInv
<1>11. OwedInv'
    BY <1>1, <1>6, <1>7 DEF ChangeInv, OwedInv
<1> QED BY <1>9, <1>10, <1>11 DEF ChangeInv

\* The sync takes up changes that are stored.
LEMMA StartPushChange ==
    ASSUME StoreTypeInv, ChangeInv, StartPush
    PROVE  ChangeInv'
<1>1. PICK limit \in Limits : sync' = [pc |-> "push", todo |-> get_pending_outgoing_changes(limit)]
    BY DEF StartPush
<1>2. UNCHANGED <<out, localRevision, owed, call>>
    BY DEF StartPush, storeDisk
<1>3. Flying' \subseteq Range(out) /\ Taken' = {}
    <2>1. Flying' = {p.change : p \in get_pending_outgoing_changes(limit)} /\ Taken' = {}
        BY <1>1 DEF Flying, Pushing, Taken
    <2>2. ASSUME NEW p \in get_pending_outgoing_changes(limit) PROVE p.change \in Range(out)
        <3>1. PICK c \in Oldest(Range(out), limit) : p = [change |-> c, parent |-> read_sync_state(c.id)]
            BY DEF get_pending_outgoing_changes
        <3> QED BY <3>1 DEF Oldest
    <2> QED BY <2>1, <2>2
<1>4. \A c \in Flying' : /\ c.rev \in DOMAIN out /\ out[c.rev] = c /\ c.rev <= localRevision
                         /\ \A t \in Tasks : call[t].pc = "change" => call[t].rev # c.rev
    BY <1>3 DEF Range, ChangeInv, RevisionInv
<1>5. RevisionInv'
    BY <1>2 DEF ChangeInv, RevisionInv
<1>6. FlyingInv'
    BY <1>2, <1>3, <1>4 DEF FlyingInv
<1>7. OwedInv'
    BY <1>2 DEF ChangeInv, OwedInv
<1> QED BY <1>5, <1>6, <1>7 DEF ChangeInv

\* The server takes a change: no other change that is owed has its revision.
LEMMA PushChange ==
    ASSUME StoreTypeInv, ChangeInv, Push
    PROVE  ChangeInv'
<1>1. PICK p \in sync.todo :
          \/ \E r : /\ sync' = [pc |-> "remove", change |-> p.change, todo |-> sync.todo \ {p},
                                record |-> r]
                    /\ owed' = owed \ {p.change}
          \/ sync' = Idle /\ owed' = owed
    BY DEF Push
<1>2. UNCHANGED <<out, localRevision, call>> /\ sync.pc = "push"
    BY DEF Push, storeDisk
<1>3. Flying = {q.change : q \in sync.todo}
    BY <1>2 DEF Flying, Pushing
<1>4. RevisionInv'
    BY <1>2 DEF ChangeInv, RevisionInv
<1>5. OwedInv'
    BY <1>1, <1>2 DEF ChangeInv, OwedInv
<1>6. FlyingInv'
    <2>1. CASE sync' = Idle /\ owed' = owed
        <3>1. Flying' = {} /\ Taken' = {}
            BY <2>1 DEF Flying, Pushing, Taken, Idle
        <3> QED BY <3>1 DEF FlyingInv
    <2>2. CASE \E r : /\ sync' = [pc |-> "remove", change |-> p.change, todo |-> sync.todo \ {p},
                                  record |-> r]
                      /\ owed' = owed \ {p.change}
        <3>1. Flying' = {q.change : q \in sync.todo \ {p}} /\ Taken' = {p.change}
            BY <2>2 DEF Flying, Pushing, Taken
        <3>2. Flying' \subseteq Flying /\ p.change \in Flying /\ Taken' \subseteq Flying
            BY <1>3, <3>1
        <3>3. \A d \in owed' : d.rev # p.change.rev
            BY <2>2, <3>2 DEF ChangeInv, FlyingInv, OwedInv
        <3> QED BY <1>2, <3>1, <3>2, <3>3 DEF ChangeInv, FlyingInv
    <2> QED BY <1>1, <2>1, <2>2
<1> QED BY <1>4, <1>5, <1>6 DEF ChangeInv

\* Only what the server has taken is removed.
LEMMA RemoveOutgoingChange ==
    ASSUME StoreTypeInv, ChangeInv, RemoveOutgoing
    PROVE  ChangeInv'
<1>1. PICK o \in Outcomes : out' = Landed(o, Drop(out, sync.change.rev), out)
    BY DEF RemoveOutgoing
<1>2. /\ sync.pc = "remove" /\ UNCHANGED <<localRevision, call, owed>>
      /\ sync' = [pc |-> "state", record |-> sync.record, next |-> "push", todo |-> sync.todo]
    BY DEF RemoveOutgoing
<1>3. /\ DOMAIN out' \subseteq DOMAIN out
      /\ \A x \in DOMAIN out : x # sync.change.rev => x \in DOMAIN out'
      /\ \A x \in DOMAIN out' : out'[x] = out[x]
    BY <1>1, DropLanded, SMT
<1>4. Flying' = Flying /\ Taken' = {} /\ Taken = {sync.change}
    BY <1>2 DEF Flying, Pushing, Taken
<1>5. RevisionInv'
    BY <1>2, <1>3 DEF ChangeInv, RevisionInv
<1>6. FlyingInv'
    BY <1>2, <1>3, <1>4 DEF ChangeInv, FlyingInv
<1>7. OwedInv'
    BY <1>2, <1>3, <1>4 DEF ChangeInv, FlyingInv, OwedInv
<1> QED BY <1>5, <1>6, <1>7 DEF ChangeInv

\* Every step keeps ChangeInv.
LEMMA ChangeInvStep ==
    ASSUME StoreTypeInv, ChangeInv, [StoreNext]_storeVars
    PROVE  ChangeInv'
<1>1. ASSUME NEW t \in Tasks,
             \/ ReadMetadata(t) \/ WriteMetadata(t) \/ ReadDeposit(t) \/ WriteDeposit(t)
             \/ DeleteDeposit(t) \/ SetSwap(t)
      PROVE  ChangeInv'
    <2>1. UNCHANGED <<out, localRevision, owed, sync>>
        BY <1>1 DEF ReadMetadata, WriteMetadata, ReadDeposit, WriteDeposit, DeleteDeposit, SetSwap,
                    storeDisk, memory
    <2>2. CallTypes
        BY DEF StoreTypeInv
    <2>3. call' = call \/ \E c : /\ call' = [call EXCEPT ![t] = c]
                                 /\ c.pc \notin {"revision", "change"}
        <3>1. CASE WriteMetadata(t) \/ WriteDeposit(t)
            BY <3>1 DEF WriteMetadata, WriteDeposit, Goto, Idle
        <3>2. CASE ReadMetadata(t)
            <4>1. PICK fields, existing :
                      Goto(t, [pc |-> "metadata", read |-> existing, new |-> Coalesce(fields, existing)])
                BY <3>2 DEF ReadMetadata
            <4> DEFINE c == [pc |-> "metadata", read |-> existing, new |-> Coalesce(fields, existing)]
            <4>2. call' = [call EXCEPT ![t] = c] /\ c.pc = "metadata"
                BY <4>1 DEF Goto
            <4> HIDE DEF c
            <4> QED BY <4>2
        <3>3. CASE ReadDeposit(t)
            <4>1. PICK d : Goto(t, [pc |-> "deposit", new |-> d])
                BY <3>3 DEF ReadDeposit
            <4> DEFINE c == [pc |-> "deposit", new |-> d]
            <4>2. call' = [call EXCEPT ![t] = c] /\ c.pc = "deposit"
                BY <4>1 DEF Goto
            <4> HIDE DEF c
            <4> QED BY <4>2
        <3>4. CASE DeleteDeposit(t) \/ SetSwap(t)
            BY <3>4 DEF DeleteDeposit, SetSwap, memory
        <3> QED BY <1>1, <3>1, <3>2, <3>3, <3>4
    <2>4. \A u \in Tasks : call'[u].pc \in {"revision", "change"} => call'[u] = call[u]
        BY <2>2, <2>3 DEF CallTypes
    <2>5. Flying' = Flying /\ Taken' = Taken
        BY <2>1 DEF Flying, Pushing, Taken
    <2> QED BY <2>1, <2>4, <2>5, ChangeFrame
<1>2. ASSUME \/ WriteSyncState \/ UpdateServerRevision \/ PhaseEnds \/ StartPull \/ InsertIncoming
             \/ StartApply \/ ApplyIncoming \/ DeleteIncoming \/ OtherDevice
      PROVE  ChangeInv'
    <2>1. UNCHANGED <<out, localRevision, owed, call>>
        BY <1>2 DEF WriteSyncState, UpdateServerRevision, PhaseEnds, StartPull, InsertIncoming,
                    StartApply, ApplyIncoming, DeleteIncoming, OtherDevice, storeDisk, memory
    <2>2. Flying' \subseteq Flying /\ Taken' \subseteq Taken
        <3>1. CASE WriteSyncState
            <4>1. sync' = Idle \/ sync' = [pc |-> "server", record |-> sync.record,
                                           next |-> sync.next, todo |-> sync.todo]
                BY <3>1 DEF WriteSyncState
            <4> QED BY <3>1, <4>1 DEF WriteSyncState, Flying, Pushing, Taken, Idle
        <3>2. CASE UpdateServerRevision
            <4>1. \/ sync' = Idle
                  \/ sync.next = "push" /\ sync' = [pc |-> "push", todo |-> sync.todo]
                  \/ sync' = [pc |-> "delete", record |-> sync.record, todo |-> sync.todo]
                BY <3>2 DEF UpdateServerRevision
            <4> QED BY <3>2, <4>1 DEF UpdateServerRevision, Flying, Pushing, Taken, Idle
        <3>3. CASE PhaseEnds \/ StartPull \/ InsertIncoming \/ StartApply \/ ApplyIncoming
                   \/ DeleteIncoming
            <4>1. sync'.pc \notin {"push", "remove", "server"} /\ (sync'.pc = "state" => sync'.next = "apply")
                BY <3>3 DEF PhaseEnds, StartPull, InsertIncoming, StartApply, ApplyIncoming,
                            DeleteIncoming, Idle
            <4> QED BY <4>1 DEF Flying, Pushing, Taken
        <3>4. CASE OtherDevice
            BY <3>4 DEF OtherDevice, memory, Flying, Pushing, Taken
        <3> QED BY <1>2, <3>1, <3>2, <3>3, <3>4
    <2> QED BY <2>1, <2>2, ChangeFrame
<1>3. CASE StoreCrash
    <2>1. /\ UNCHANGED <<out, localRevision, owed>>
          /\ \A t \in Tasks : call'[t].pc = "idle"
          /\ sync' = Idle
        BY <1>3 DEF StoreCrash, storeDisk, Idle
    <2>2. Flying' = {} /\ Taken' = {}
        BY <2>1 DEF Flying, Pushing, Taken, Idle
    <2>3. \A t \in Tasks : call'[t].pc \in {"revision", "change"} => call'[t] = call[t]
        BY <2>1
    <2> QED BY <2>1, <2>2, <2>3, ChangeFrame
<1>4. CASE UNCHANGED storeVars
    <2>1. UNCHANGED <<out, localRevision, owed, call, sync>>
        BY <1>4 DEF storeVars, storeDisk, memory
    <2>2. Flying' = Flying /\ Taken' = Taken
        BY <2>1 DEF Flying, Pushing, Taken
    <2> QED BY <2>1, <2>2, ChangeFrame
<1>5. CASE StoreNext
    BY <1>1, <1>2, <1>3, <1>5, StoreStepCases, ReadRevisionChange, WriteRevisionChange,
       WriteChangeChange, StartPushChange, PushChange, RemoveOutgoingChange, Zenon
<1> QED BY <1>4, <1>5

\* ChangeInv at the start.
LEMMA ChangeInvInit == StoreInit => ChangeInv
<1> SUFFICES ASSUME StoreInit PROVE ChangeInv
    OBVIOUS
<1>1. owed = {} /\ DOMAIN out = {} /\ \A t \in Tasks : call[t].pc = "idle"
    BY DEF StoreInit, Nothing, Idle
<1>2. Flying = {} /\ Taken = {}
    BY DEF StoreInit, Flying, Pushing, Taken, Idle
<1> QED BY <1>1, <1>2 DEF ChangeInv, RevisionInv, FlyingInv, OwedInv

(***************************************************************************)
(* Records: what is acknowledged of an id, and what is on its way.         *)
(***************************************************************************)

\* The revision acknowledged last of an id.
KnownRevision(id) == RevisionOf(read_sync_state(id))

\* The records that were pulled and are not yet applied and deleted.
Coming == Range(in) \cup IF Pulling THEN sync.todo ELSE {}

\* The record the sync is about to write to "sync_state".
Writing == IF sync.pc = "state" THEN {sync.record} ELSE {}
Acknowledged == IF sync.pc = "remove" THEN {sync.record} ELSE {}

\* Every record comes from the server.
KnownInv ==
    /\ Range(state) \subseteq applied
    /\ \A r \in Coming \cup Range(state) \cup Writing \cup Acknowledged :
          r.rev <= server.of[r.id]

\* What is on its way and was never applied is newer than what is acknowledged.
NewerInv == \A r \in Coming \cup Writing : r \in applied \/ KnownRevision(r.id) < r.rev

\* A change is pushed on top of a record that is still the latest acknowledged
\* one; when the server takes it, no record of its id that is on its way is new.
ParentInv == Pushing => \A p \in sync.todo : RevisionOf(p.parent) <= KnownRevision(p.change.id)

TakenInv ==
    Pushing => \A a \in Writing \cup Acknowledged :
                  /\ KnownRevision(a.id) < a.rev
                  /\ \A r \in Range(in) : r.id = a.id => r \in applied

\* Records are applied in the order of their revisions: what is not yet in the
\* sync's hands is newer than what is, and what it writes is the oldest.
OrderInv ==
    Pulling /\ sync.pc # "insert" =>
       \A r \in Range(in) \ applied :
          r \in sync.todo \cup Writing \/ \A q \in sync.todo : q.rev <= r.rev

OldestInv == Pulling => \A a \in Writing : \A r \in Coming \ applied : a.rev <= r.rev

RecordInv == KnownInv /\ NewerInv /\ ParentInv /\ TakenInv /\ OrderInv /\ OldestInv

\* What is acknowledged of an id is one of the acknowledged records.
LEMMA KnownFacts ==
    ASSUME StoreTypeInv, KeyInv, NEW id \in RecordIds
    PROVE  /\ KnownRevision(id) \in 0..MaxRevision
           /\ KnownRevision(id) # 0 => [id |-> id, rev |-> KnownRevision(id)] \in Range(state)
<1>1. CASE read_sync_state(id) = None
    BY <1>1, SparkStoreAssumption DEF KnownRevision, RevisionOf
<1>2. CASE read_sync_state(id) # None
    <2> DEFINE r == read_sync_state(id)
    <2>1. r \in Record
        BY <1>2, ReadSyncStateType DEF StoreTypeInv
    <2>2. r.id = id /\ r \in Range(state)
        BY <1>2, StateUnderOwnKey DEF Range
    <2>3. KnownRevision(id) = r.rev
        BY <1>2 DEF KnownRevision, RevisionOf
    <2> HIDE DEF r
    <2>4. r = [id |-> id, rev |-> KnownRevision(id)] /\ r.rev \in 1..MaxRevision
        BY <2>1, <2>2, <2>3 DEF Record
    <2> QED BY <2>2, <2>3, <2>4, SparkStoreAssumption
<1> QED BY <1>1, <1>2

\* What is acknowledged changes only when "sync_state" does.
LEMMA KnownSame ==
    ASSUME state' = state, NEW id
    PROVE  KnownRevision(id)' = KnownRevision(id) /\ read_sync_state(id)' = read_sync_state(id)
BY DEF KnownRevision, read_sync_state, record_id_key

\* ... and then only of the id that is written.
LEMMA KnownStep ==
    ASSUME StoreTypeInv, NEW o,
           state' = Landed(o, Put(state, record_id_key(sync.record.id), sync.record), state),
           sync.record \in Record
    PROVE  /\ \A id \in RecordIds :
                 KnownRevision(id)' = IF o # "failed" /\ id = sync.record.id THEN sync.record.rev
                                      ELSE KnownRevision(id)
           /\ o = "failed" => state' = state
<1> DEFINE k == record_id_key(sync.record.id)
           v == sync.record
<1>1. /\ DOMAIN state \subseteq DOMAIN state' /\ DOMAIN state' \subseteq DOMAIN state \cup {k}
      /\ \A x \in DOMAIN state : x # k => state'[x] = state[x]
      /\ o # "failed" => k \in DOMAIN state' /\ state'[k] = v
      /\ o = "failed" => state' = state
    BY PutLanded, SMT
<1>2. ASSUME NEW id \in RecordIds, id # sync.record.id
      PROVE  KnownRevision(id)' = KnownRevision(id)
    <2>1. v.id \in RecordIds /\ v.id # id
        BY <1>2 DEF Record
    <2>2. record_id_key(id) # k
        BY <2>1, KeysDiffer DEF record_id_key
    <2>3. read_sync_state(id)' = read_sync_state(id)
        <3> DEFINE m == record_id_key(id)
        <3>1. /\ read_sync_state(id) = IF m \in DOMAIN state THEN state[m] ELSE None
              /\ read_sync_state(id)' = IF m \in DOMAIN state' THEN state'[m] ELSE None
            BY DEF read_sync_state, record_id_key
        <3> HIDE DEF m, k
        <3>2. m # k
            BY <2>2 DEF m
        <3> QED BY <1>1, <3>1, <3>2
    <2> QED BY <2>3 DEF KnownRevision
<1>3. ASSUME o # "failed", NEW id \in RecordIds, id = sync.record.id
      PROVE  KnownRevision(id)' = sync.record.rev
    <2>1. v # None
        BY SparkStoreAssumption
    <2>2. read_sync_state(id)' = v
        BY <1>1, <1>3 DEF read_sync_state, record_id_key
    <2> QED BY <2>1, <2>2 DEF KnownRevision, RevisionOf
<1>4. o = "failed" => \A id \in RecordIds : KnownRevision(id)' = KnownRevision(id)
    BY <1>1, KnownSame
<1> QED BY <1>1, <1>2, <1>3, <1>4

\* The types of what is on its way.
LEMMA ComingTypes ==
    ASSUME StoreTypeInv
    PROVE  /\ Coming \cup Range(state) \cup Writing \cup Acknowledged \subseteq Record
           /\ \A r \in Record : r.id \in RecordIds /\ r.rev \in 1..MaxRevision
<1>1. Range(in) \cup Range(state) \subseteq Record
    BY DEF StoreTypeInv, RecordTypes
<1>2. SyncTypes
    BY DEF StoreTypeInv
<1>3. Coming \subseteq Record
    BY <1>1, <1>2 DEF Coming, SyncTypes
<1>4. Writing \cup Acknowledged \subseteq Record
    BY <1>2 DEF Writing, Acknowledged, SyncTypes
<1> QED BY <1>1, <1>3, <1>4 DEF Record

\* Steps that write no record to "sync_state" and bring none in: what is about to
\* be written was on its way, or the server has just taken it.
LEMMA QuietFrame ==
    ASSUME StoreTypeInv, RecordInv, UNCHANGED <<state, applied>>,
           \A id \in RecordIds : server.of[id] <= server'.of[id] /\ server'.of[id] \in Nat,
           Coming' \subseteq Coming, Writing' \subseteq Coming \cup Writing \cup Acknowledged,
           Acknowledged' \subseteq Acknowledged
    PROVE  KnownInv' /\ NewerInv'
<1>1. KnownInv'
    <2>1. Range(state)' \subseteq applied'
        BY DEF RecordInv, KnownInv
    <2>2. ASSUME NEW r \in (Coming \cup Range(state) \cup Writing \cup Acknowledged)'
          PROVE  r.rev <= server'.of[r.id]
        <3>1. r \in Coming \cup Range(state) \cup Writing \cup Acknowledged
            OBVIOUS
        <3>2. r.id \in RecordIds /\ r.rev \in Nat /\ r.rev <= server.of[r.id]
            BY <3>1, ComingTypes DEF RecordInv, KnownInv
        <3>3. server.of[r.id] \in Nat
            BY <3>2 DEF StoreTypeInv, ServerTypes
        <3> QED BY <3>2, <3>3
    <2> QED BY <2>1, <2>2 DEF KnownInv
<1>2. NewerInv'
    <2>1. ASSUME NEW r \in (Coming \cup Writing)'
          PROVE  (r \in applied \/ KnownRevision(r.id) < r.rev)'
        <3>1. r \in applied \/ KnownRevision(r.id) < r.rev
            <4>1. CASE r \in Coming \cup Writing
                BY <4>1 DEF RecordInv, NewerInv
            <4>2. CASE r \in Acknowledged
                BY <4>2 DEF RecordInv, TakenInv, Acknowledged, Pushing
            <4> QED BY <4>1, <4>2
        <3> QED BY <3>1, KnownSame
    <2> QED BY <2>1 DEF NewerInv
<1> QED BY <1>1, <1>2

\* Steps of the tasks and of other devices.
LEMMA RecordSame ==
    ASSUME StoreTypeInv, RecordInv, UNCHANGED <<in, state, sync, applied>>,
           \A id \in RecordIds : server.of[id] <= server'.of[id] /\ server'.of[id] \in Nat
    PROVE  RecordInv'
<1>1. /\ Coming' = Coming /\ Writing' = Writing /\ Acknowledged' = Acknowledged
      /\ Pushing' = Pushing /\ Pulling' = Pulling
    BY DEF Coming, Writing, Acknowledged, Pushing, Pulling
<1>2. KnownInv' /\ NewerInv'
    BY <1>1, QuietFrame
<1>3. ParentInv' /\ TakenInv'
    BY <1>1, KnownSame DEF RecordInv, ParentInv, TakenInv
<1>4. OrderInv' /\ OldestInv'
    BY <1>1 DEF RecordInv, OrderInv, OldestInv
<1> QED BY <1>2, <1>3, <1>4 DEF RecordInv

\* The sync's call ends, or the process dies.
LEMMA RecordIdle ==
    ASSUME StoreTypeInv, RecordInv, UNCHANGED <<state, applied, server>>, sync' = Idle,
           Range(in') \subseteq Coming
    PROVE  RecordInv'
<1>1. ~Pushing' /\ ~Pulling' /\ Writing' = {} /\ Acknowledged' = {}
    BY DEF Pushing, Pulling, Writing, Acknowledged, Idle
<1>2. Coming' = Range(in')
    BY <1>1 DEF Coming
<1>3. \A id \in RecordIds : server.of[id] <= server'.of[id] /\ server'.of[id] \in Nat
    BY DEF StoreTypeInv, ServerTypes
<1>4. KnownInv' /\ NewerInv'
    BY <1>1, <1>2, <1>3, QuietFrame
<1> QED BY <1>1, <1>4 DEF RecordInv, ParentInv, TakenInv, OrderInv, OldestInv

\* The oldest records come before all others.
LEMMA OldestFirst ==
    ASSUME NEW S \in SUBSET Record, IsFiniteSet(S), NEW limit \in Nat,
           NEW q \in Oldest(S, limit), NEW r \in S, r \notin Oldest(S, limit)
    PROVE  q.rev <= r.rev
<1>1. \A x \in S : x.rev \in Nat
    BY DEF Record
<1> DEFINE Below(x) == {y \in S : y.rev < x.rev}
<1>2. ASSUME r.rev < q.rev PROVE FALSE
    <2>1. q \in S
        BY DEF Oldest
    <2>2. Below(r) \subseteq Below(q) /\ Below(q) \subseteq S
        BY <1>1, <1>2, <2>1
    <2>3. IsFiniteSet(Below(q))
        BY <2>2, FS_Subset
    <2> HIDE DEF Below
    <2>4. /\ Cardinality(Below(r)) <= Cardinality(Below(q)) /\ IsFiniteSet(Below(r))
        BY <2>2, <2>3, FS_Subset
    <2>5. Cardinality(Below(r)) \in Nat /\ Cardinality(Below(q)) \in Nat
        BY <2>3, <2>4, FS_CardinalityType
    <2>6. Cardinality(Below(q)) < limit /\ ~(Cardinality(Below(r)) < limit)
        BY DEF Oldest, Below
    <2> QED BY <2>4, <2>5, <2>6
<1> QED BY <1>1, <1>2 DEF Oldest

\* A namespace with finitely many keys holds finitely many records.
LEMMA FiniteRange ==
    ASSUME NEW f, IsFiniteSet(DOMAIN f)
    PROVE  IsFiniteSet(Range(f))
<1> DEFINE g == [x \in DOMAIN f |-> f[x]]
<1>1. g \in [DOMAIN f -> Range(f)] /\ \A y \in Range(f) : \E x \in DOMAIN f : g[x] = y
    BY DEF Range
<1> HIDE DEF g
<1>2. g \in Surjection(DOMAIN f, Range(f))
    BY <1>1, Zenon DEF Surjection
<1> QED BY <1>2, FS_Surjection

\* A phase begins, with changes and the records they are made on top of ...
LEMMA StartPushRecord ==
    ASSUME StoreTypeInv, RecordInv, StartPush
    PROVE  RecordInv'
<1>1. PICK limit \in Limits : sync' = [pc |-> "push", todo |-> get_pending_outgoing_changes(limit)]
    BY DEF StartPush
<1>2. UNCHANGED <<in, state, applied, server>>
    BY DEF StartPush, storeDisk
<1>3. ~Pulling' /\ Writing' = {} /\ Acknowledged' = {}
    BY <1>1 DEF Pushing, Pulling, Writing, Acknowledged
<1>4. Coming' \subseteq Coming
    BY <1>2, <1>3 DEF Coming
<1>5. \A id \in RecordIds : server.of[id] <= server'.of[id] /\ server'.of[id] \in Nat
    BY <1>2 DEF StoreTypeInv, ServerTypes
<1>6. KnownInv' /\ NewerInv'
    BY <1>2, <1>3, <1>4, <1>5, QuietFrame
<1>7. ParentInv'
    <2>1. ASSUME NEW p \in get_pending_outgoing_changes(limit)
          PROVE  RevisionOf(p.parent) = KnownRevision(p.change.id) /\ p.change.id \in RecordIds
        <3>1. PICK c \in Oldest(Range(out), limit) : p = [change |-> c, parent |-> read_sync_state(c.id)]
            BY DEF get_pending_outgoing_changes
        <3>2. c \in Change
            BY DEF Oldest, StoreTypeInv, ChangeTypes
        <3> QED BY <3>1, <3>2 DEF KnownRevision, Change
    <2>2. ASSUME NEW p \in sync'.todo PROVE RevisionOf(p.parent) <= KnownRevision(p.change.id)'
        <3>1. p \in get_pending_outgoing_changes(limit)
            BY <1>1
        <3>2. \A id \in RecordIds : KnownRevision(id) \in Nat
            BY ReadSyncStateType, SparkStoreAssumption
               DEF StoreTypeInv, KnownRevision, RevisionOf, Record
        <3> QED BY <1>2, <2>1, <3>1, <3>2, KnownSame
    <2> QED BY <2>2 DEF ParentInv
<1>8. TakenInv' /\ OrderInv' /\ OldestInv'
    BY <1>3 DEF TakenInv, OrderInv, OldestInv
<1> QED BY <1>6, <1>7, <1>8 DEF RecordInv

\* ... or with the oldest incoming records.
LEMMA StartApplyRecord ==
    ASSUME StoreTypeInv, RecordInv, StartApply
    PROVE  RecordInv'
<1>1. PICK limit \in Limits : sync' = [pc |-> "apply", todo |-> get_incoming_records(limit)]
    BY DEF StartApply
<1>2. UNCHANGED <<in, state, applied, server>>
    BY DEF StartApply, storeDisk
<1>3. ~Pushing' /\ Writing' = {} /\ Acknowledged' = {} /\ Pulling'
    BY <1>1 DEF Pushing, Pulling, Writing, Acknowledged
<1>4. sync'.todo = Oldest(Range(in), limit) /\ sync'.todo \subseteq Range(in)
    BY <1>1 DEF get_incoming_records, Oldest
<1>5. Coming' \subseteq Coming
    BY <1>2, <1>4 DEF Coming
<1>6. \A id \in RecordIds : server.of[id] <= server'.of[id] /\ server'.of[id] \in Nat
    BY <1>2 DEF StoreTypeInv, ServerTypes
<1>7. KnownInv' /\ NewerInv'
    BY <1>2, <1>3, <1>5, <1>6, QuietFrame
<1>8. OrderInv'
    <2>1. Range(in) \in SUBSET Record /\ IsFiniteSet(Range(in)) /\ limit \in Nat
        BY FiniteRange, SparkStoreAssumption DEF StoreTypeInv, RecordTypes
    <2>2. \A q \in Oldest(Range(in), limit), r \in Range(in) :
              r \notin Oldest(Range(in), limit) => q.rev <= r.rev
        BY <2>1, OldestFirst
    <2> QED BY <1>2, <1>4, <2>2 DEF OrderInv
<1>9. ParentInv' /\ TakenInv' /\ OldestInv'
    BY <1>3 DEF ParentInv, TakenInv, OldestInv
<1> QED BY <1>7, <1>8, <1>9 DEF RecordInv

\* The oldest of them is taken up.
LEMMA ApplyIncomingRecord ==
    ASSUME StoreTypeInv, RecordInv, ApplyIncoming
    PROVE  RecordInv'
<1>1. PICK a \in sync.todo :
          /\ \A q \in sync.todo : a.rev <= q.rev
          /\ sync' = [pc |-> "state", record |-> a, next |-> "apply", todo |-> sync.todo \ {a}]
    BY DEF ApplyIncoming
<1>2. UNCHANGED <<in, state, applied, server>> /\ sync.pc = "apply"
    BY DEF ApplyIncoming, storeDisk
<1>3. ~Pushing' /\ Writing' = {a} /\ Acknowledged' = {} /\ Pulling' /\ sync'.todo = sync.todo \ {a}
    BY <1>1 DEF Pushing, Pulling, Writing, Acknowledged
<1>4. Pulling /\ Writing = {} /\ Coming = Range(in) \cup sync.todo
    BY <1>2 DEF Pulling, Writing, Coming
<1>5. Coming' \subseteq Coming /\ a \in Coming
    BY <1>2, <1>3, <1>4 DEF Coming
<1>6. \A id \in RecordIds : server.of[id] <= server'.of[id] /\ server'.of[id] \in Nat
    BY <1>2 DEF StoreTypeInv, ServerTypes
<1>7. KnownInv' /\ NewerInv'
    BY <1>2, <1>3, <1>5, <1>6, QuietFrame
<1>8. \A r \in Range(in) \ applied : r \in sync.todo \/ \A q \in sync.todo : q.rev <= r.rev
    BY <1>2, <1>4 DEF RecordInv, OrderInv
<1>9. OrderInv'
    BY <1>2, <1>3, <1>8 DEF OrderInv
<1>10. OldestInv'
    BY <1>1, <1>2, <1>3, <1>4, <1>5, <1>8 DEF OldestInv
<1>11. ParentInv' /\ TakenInv'
    BY <1>3 DEF ParentInv, TakenInv
<1> QED BY <1>7, <1>9, <1>10, <1>11 DEF RecordInv

\* The change the server has taken is removed; its record is written next.
LEMMA RemoveOutgoingRecord ==
    ASSUME StoreTypeInv, RecordInv, RemoveOutgoing
    PROVE  RecordInv'
<1>1. /\ UNCHANGED <<in, state, applied, server>> /\ sync.pc = "remove"
      /\ sync' = [pc |-> "state", record |-> sync.record, next |-> "push", todo |-> sync.todo]
    BY DEF RemoveOutgoing
<1>2. /\ Pushing' /\ ~Pulling' /\ Writing' = {sync.record} /\ Acknowledged' = {}
      /\ Pushing /\ ~Pulling /\ Acknowledged = {sync.record} /\ sync'.todo = sync.todo
    BY <1>1 DEF Pushing, Pulling, Writing, Acknowledged
<1>3. Coming' = Coming
    BY <1>1, <1>2 DEF Coming
<1>4. \A id \in RecordIds : server.of[id] <= server'.of[id] /\ server'.of[id] \in Nat
    BY <1>1 DEF StoreTypeInv, ServerTypes
<1>5. KnownInv' /\ NewerInv'
    BY <1>1, <1>2, <1>3, <1>4, QuietFrame
<1>6. ParentInv' /\ TakenInv'
    BY <1>1, <1>2, KnownSame DEF RecordInv, ParentInv, TakenInv
<1>7. OrderInv' /\ OldestInv'
    BY <1>2 DEF OrderInv, OldestInv
<1> QED BY <1>5, <1>6, <1>7 DEF RecordInv

\* The server's revision is written: the sync goes on with what it holds.
LEMMA UpdateServerRevisionRecord ==
    ASSUME StoreTypeInv, RecordInv, UpdateServerRevision
    PROVE  RecordInv'
<1>1. /\ UNCHANGED <<in, state, applied, server>> /\ sync.pc = "server"
      /\ \/ sync' = Idle
         \/ sync.next = "push" /\ sync' = [pc |-> "push", todo |-> sync.todo]
         \/ sync.next # "push" /\ sync' = [pc |-> "delete", record |-> sync.record, todo |-> sync.todo]
    BY DEF UpdateServerRevision
<1>2. \A id \in RecordIds : server.of[id] <= server'.of[id] /\ server'.of[id] \in Nat
    BY <1>1 DEF StoreTypeInv, ServerTypes
<1>3. CASE sync' = Idle
    <2>1. Range(in') \subseteq Coming
        BY <1>1 DEF Coming
    <2> QED BY <1>1, <1>3, <2>1, RecordIdle
<1>4. CASE sync.next = "push" /\ sync' = [pc |-> "push", todo |-> sync.todo]
    <2>1. /\ Pushing' /\ ~Pulling' /\ Writing' = {} /\ Acknowledged' = {}
          /\ Pushing /\ sync'.todo = sync.todo
        BY <1>1, <1>4 DEF Pushing, Pulling, Writing, Acknowledged
    <2>2. Coming' \subseteq Coming
        BY <1>1, <2>1 DEF Coming
    <2>3. KnownInv' /\ NewerInv'
        BY <1>1, <1>2, <2>1, <2>2, QuietFrame
    <2>4. ParentInv'
        BY <1>1, <2>1, KnownSame DEF RecordInv, ParentInv
    <2>5. TakenInv' /\ OrderInv' /\ OldestInv'
        BY <2>1 DEF TakenInv, OrderInv, OldestInv
    <2> QED BY <2>3, <2>4, <2>5 DEF RecordInv
<1>5. CASE sync.next # "push"
             /\ sync' = [pc |-> "delete", record |-> sync.record, todo |-> sync.todo]
    <2>1. sync.next = "apply"
        BY <1>1, <1>5, TodoTypes DEF StoreTypeInv
    <2>2. /\ ~Pushing' /\ Pulling' /\ Writing' = {} /\ Acknowledged' = {}
          /\ Pulling /\ Writing = {} /\ sync'.todo = sync.todo
        BY <1>1, <1>5, <2>1 DEF Pushing, Pulling, Writing, Acknowledged
    <2>3. Coming' = Coming
        BY <1>1, <2>2 DEF Coming
    <2>4. KnownInv' /\ NewerInv'
        BY <1>1, <1>2, <2>2, <2>3, QuietFrame
    <2>5. OrderInv'
        BY <1>1, <2>2 DEF RecordInv, OrderInv
    <2>6. ParentInv' /\ TakenInv' /\ OldestInv'
        BY <2>2 DEF ParentInv, TakenInv, OldestInv
    <2> QED BY <2>4, <2>5, <2>6 DEF RecordInv
<1> QED BY <1>1, <1>3, <1>4, <1>5

\* Incoming records are stored ...
LEMMA InsertIncomingRecord ==
    ASSUME StoreTypeInv, RecordInv, InsertIncoming
    PROVE  RecordInv'
<1>1. PICK r \in sync.todo, o \in Outcomes :
          /\ in' = Landed(o, Put(in, incoming_record_key(r), r), in)
          /\ sync' = IF o = "ok" THEN [pc |-> "insert", todo |-> sync.todo \ {r}] ELSE Idle
    BY DEF InsertIncoming
<1>2. UNCHANGED <<state, applied, server>> /\ sync.pc = "insert"
    BY DEF InsertIncoming
<1>3. Range(in') \subseteq Range(in) \cup {r}
    BY <1>1, PutLanded, SMT
<1>4. Coming = Range(in) \cup sync.todo
    BY <1>2 DEF Coming, Pulling
<1>5. CASE sync' = Idle
    BY <1>2, <1>3, <1>4, <1>5, RecordIdle
<1>6. CASE sync' = [pc |-> "insert", todo |-> sync.todo \ {r}]
    <2>1. /\ ~Pushing' /\ Pulling' /\ Writing' = {} /\ Acknowledged' = {} /\ sync'.pc = "insert"
          /\ sync'.todo \subseteq sync.todo
        BY <1>6 DEF Pushing, Pulling, Writing, Acknowledged
    <2>2. Coming' \subseteq Coming
        BY <1>3, <1>4, <2>1 DEF Coming
    <2>3. \A id \in RecordIds : server.of[id] <= server'.of[id] /\ server'.of[id] \in Nat
        BY <1>2 DEF StoreTypeInv, ServerTypes
    <2>4. KnownInv' /\ NewerInv'
        BY <1>2, <2>1, <2>2, <2>3, QuietFrame
    <2> QED BY <2>1, <2>4 DEF RecordInv, ParentInv, TakenInv, OrderInv, OldestInv
<1> QED BY <1>1, <1>5, <1>6

\* ... and deleted.
LEMMA DeleteIncomingRecord ==
    ASSUME StoreTypeInv, RecordInv, DeleteIncoming
    PROVE  RecordInv'
<1>1. PICK o \in Outcomes : in' = Landed(o, Drop(in, incoming_record_key(sync.record)), in)
    BY DEF DeleteIncoming
<1>2. /\ UNCHANGED <<state, applied, server>> /\ sync.pc = "delete"
      /\ sync' = [pc |-> "apply", todo |-> sync.todo]
    BY DEF DeleteIncoming
<1>3. Range(in') \subseteq Range(in)
    BY <1>1, DropLanded, SMT
<1>4. /\ ~Pushing' /\ Pulling' /\ Writing' = {} /\ Acknowledged' = {} /\ sync'.todo = sync.todo
      /\ Pulling /\ Writing = {}
    BY <1>2 DEF Pushing, Pulling, Writing, Acknowledged
<1>5. Coming' \subseteq Coming
    BY <1>3, <1>4 DEF Coming
<1>6. \A id \in RecordIds : server.of[id] <= server'.of[id] /\ server'.of[id] \in Nat
    BY <1>2 DEF StoreTypeInv, ServerTypes
<1>7. KnownInv' /\ NewerInv'
    BY <1>2, <1>4, <1>5, <1>6, QuietFrame
<1>8. OrderInv'
    BY <1>2, <1>3, <1>4 DEF RecordInv, OrderInv
<1> QED BY <1>4, <1>7, <1>8 DEF RecordInv, ParentInv, TakenInv, OldestInv

\* A pull: what it brings is what the server has now.
LEMMA StartPullRecord ==
    ASSUME StoreTypeInv, KeyInv, RecordInv, StartPull
    PROVE  RecordInv'
<1> DEFINE new == {[id |-> id, rev |-> server.of[id]] :
                      id \in {i \in RecordIds : server.of[i] > revision}}
<1>1. sync' = [pc |-> "insert", todo |-> new] /\ UNCHANGED <<in, state, applied, server>>
    BY DEF StartPull, storeDisk
<1>2. \A r \in new : r.id \in RecordIds /\ r.rev = server.of[r.id] /\ r = [id |-> r.id, rev |-> r.rev]
    OBVIOUS
<1> HIDE DEF new
<1>3. /\ ~Pushing' /\ Pulling' /\ Writing' = {} /\ Acknowledged' = {} /\ sync'.pc = "insert"
      /\ Coming' = Range(in) \cup new
    BY <1>1 DEF Pushing, Pulling, Writing, Acknowledged, Coming
<1>4. \A id \in RecordIds : server.of[id] \in Nat
    BY DEF StoreTypeInv, ServerTypes
<1>5. KnownInv'
    BY <1>1, <1>2, <1>3, <1>4 DEF RecordInv, KnownInv, Coming
<1>6. NewerInv'
    <2>1. ASSUME NEW r \in Range(in) PROVE (r \in applied \/ KnownRevision(r.id) < r.rev)'
        BY <1>1, KnownSame DEF RecordInv, NewerInv, Coming
    <2>2. ASSUME NEW r \in new PROVE (r \in applied \/ KnownRevision(r.id) < r.rev)'
        <3> DEFINE s == [id |-> r.id, rev |-> KnownRevision(r.id)]
        <3>1. /\ KnownRevision(r.id) \in 0..MaxRevision
              /\ KnownRevision(r.id) # 0 => s \in Range(state)
            BY <1>2, KnownFacts
        <3>2. s.id = r.id /\ s.rev = KnownRevision(r.id)
            OBVIOUS
        <3>3. s \in Range(state) => s.rev <= server.of[s.id] /\ s \in applied
            BY DEF RecordInv, KnownInv
        <3>4. s.rev = r.rev => s = r
            BY <1>2
        <3> HIDE DEF s
        <3>5. r \in applied \/ KnownRevision(r.id) < r.rev
            <4>1. CASE KnownRevision(r.id) = 0
                <5>1. server.of[r.id] > revision /\ revision \in Nat
                    BY DEF new, StoreTypeInv, RecordTypes
                <5> QED BY <1>2, <1>4, <4>1, <5>1
            <4>2. CASE KnownRevision(r.id) # 0
                BY <1>2, <1>4, <3>1, <3>2, <3>3, <3>4, <4>2, SparkStoreAssumption
            <4> QED BY <4>1, <4>2
        <3> QED BY <1>1, <3>5, KnownSame
    <2> QED BY <1>3, <2>1, <2>2 DEF NewerInv
<1> QED BY <1>3, <1>5, <1>6 DEF RecordInv, ParentInv, TakenInv, OrderInv, OldestInv

\* The server takes a change made on top of its latest record: that record is
\* the one acknowledged here, so nothing newer of its id is on its way.
LEMMA PushRecord ==
    ASSUME StoreTypeInv, KeyInv, RecordInv, Push
    PROVE  RecordInv'
<1>1. PICK p \in sync.todo :
          \/ LET c   == p.change
                 rev == server.rev + 1
             IN  /\ server.rev < MaxRevision
                 /\ server.of[c.id] = RevisionOf(p.parent)
                 /\ server' = [rev |-> rev, of |-> [server.of EXCEPT ![c.id] = rev]]
                 /\ sync' = [pc |-> "remove", change |-> c, todo |-> sync.todo \ {p},
                             record |-> [id |-> c.id, rev |-> rev]]
          \/ sync' = Idle /\ server' = server
    BY DEF Push
<1>2. UNCHANGED <<in, state, applied>> /\ sync.pc = "push"
    BY DEF Push, storeDisk
<1>3. Pushing /\ ~Pulling /\ Writing = {} /\ Acknowledged = {} /\ Coming = Range(in)
    BY <1>2 DEF Pushing, Pulling, Writing, Acknowledged, Coming
<1>4. CASE sync' = Idle /\ server' = server
    BY <1>2, <1>3, <1>4, RecordIdle
<1>5. CASE ~(sync' = Idle /\ server' = server)
    <2> DEFINE id == p.change.id
               a == [id |-> id, rev |-> server.rev + 1]
    <2>1. id \in RecordIds
        BY <1>3 DEF StoreTypeInv, SyncTypes, Pending, Change
    <2>2. /\ server.rev < MaxRevision /\ server.of[id] = RevisionOf(p.parent)
          /\ server' = [rev |-> server.rev + 1, of |-> [server.of EXCEPT ![id] = server.rev + 1]]
          /\ sync' = [pc |-> "remove", change |-> p.change, todo |-> sync.todo \ {p}, record |-> a]
        BY <1>1, <1>5
    <2>3. a.id = id /\ a.rev = server.rev + 1
        OBVIOUS
    <2> HIDE DEF id, a
    <2>4. /\ Pushing' /\ ~Pulling' /\ Writing' = {} /\ Acknowledged' = {a}
          /\ sync'.todo \subseteq sync.todo
        BY <2>2 DEF Pushing, Pulling, Writing, Acknowledged
    <2>5. Coming' = Coming
        BY <1>2, <1>3, <2>4 DEF Coming
    <2>6. /\ ServerTypes' /\ server'.of[id] = server.rev + 1
          /\ \A i \in RecordIds : server.of[i] <= server'.of[i]
        BY <2>1, <2>2, ServerStep DEF StoreTypeInv
    <2>7. /\ \A i \in RecordIds : server.of[i] \in Nat /\ server'.of[i] \in Nat
          /\ server.rev \in Nat /\ server.of[id] <= server.rev
        BY <2>1, <2>6 DEF StoreTypeInv, ServerTypes
    <2>8. KnownRevision(id) \in Nat /\ KnownRevision(id) <= server.of[id]
        <3> DEFINE s == [id |-> id, rev |-> KnownRevision(id)]
        <3>1. /\ KnownRevision(id) \in 0..MaxRevision
              /\ KnownRevision(id) # 0 => s \in Range(state)
            BY <2>1, KnownFacts
        <3>2. s.id = id /\ s.rev = KnownRevision(id)
            OBVIOUS
        <3> HIDE DEF s
        <3>3. s \in Range(state) => s.rev <= server.of[s.id]
            BY DEF RecordInv, KnownInv
        <3> QED BY <2>1, <2>7, <3>1, <3>2, <3>3, SparkStoreAssumption
    <2>9. KnownRevision(id) = server.of[id]
        <3>1. RevisionOf(p.parent) <= KnownRevision(id)
            BY <1>3 DEF RecordInv, ParentInv, id
        <3> QED BY <2>1, <2>2, <2>7, <2>8, <3>1
    <2>10. KnownInv'
        <3>1. ASSUME NEW r \in Coming \cup Range(state) PROVE r.rev <= server'.of[r.id]
            <4>1. r.id \in RecordIds /\ r.rev \in Nat /\ r.rev <= server.of[r.id]
                BY ComingTypes DEF RecordInv, KnownInv
            <4> QED BY <2>6, <2>7, <4>1
        <3>2. a.rev <= server'.of[a.id]
            BY <2>3, <2>6, <2>7
        <3> QED BY <1>2, <2>4, <2>5, <3>1, <3>2 DEF RecordInv, KnownInv
    <2>11. NewerInv'
        BY <1>2, <1>3, <2>4, <2>5, KnownSame DEF RecordInv, NewerInv
    <2>12. ParentInv'
        BY <1>2, <1>3, <2>4, KnownSame DEF RecordInv, ParentInv
    <2>13. TakenInv'
        <3>1. KnownRevision(a.id) < a.rev
            BY <2>3, <2>7, <2>8, <2>9
        <3>2. ASSUME NEW r \in Range(in), r.id = a.id PROVE r \in applied
            <4>1. r \in Coming
                BY DEF Coming
            <4>2. r.rev \in Nat /\ r.rev <= server.of[id]
                BY <2>3, <3>2, <4>1, ComingTypes DEF RecordInv, KnownInv
            <4>3. r \in applied \/ KnownRevision(id) < r.rev
                BY <2>3, <3>2, <4>1 DEF RecordInv, NewerInv
            <4> QED BY <2>1, <2>7, <2>9, <4>2, <4>3
        <3> QED BY <1>2, <2>4, <3>1, <3>2, KnownSame DEF TakenInv
    <2> QED BY <2>4, <2>10, <2>11, <2>12, <2>13 DEF RecordInv, OrderInv, OldestInv
<1> QED BY <1>4, <1>5

\* A record is acknowledged: it is newer than the one it replaces, unless it was
\* acknowledged before; nothing older of its id is left that was not.
LEMMA WriteSyncStateRecord ==
    ASSUME StoreTypeInv, KeyInv, RecordInv, WriteSyncState
    PROVE  RecordInv'
<1> DEFINE a == sync.record
           next == [pc |-> "server", record |-> sync.record, next |-> sync.next, todo |-> sync.todo]
<1>1. PICK o \in Outcomes :
          /\ state' = Landed(o, Put(state, record_id_key(a.id), a), state)
          /\ applied' = Landed(o, applied \cup {a}, applied)
          /\ sync' = IF o # "ok" THEN Idle ELSE next
    BY DEF WriteSyncState
<1>2. UNCHANGED <<in, server>> /\ sync.pc = "state"
    BY DEF WriteSyncState
<1>3. a \in Record /\ a.id \in RecordIds /\ a.rev \in 1..MaxRevision
      /\ sync.next \in {"push", "apply"}
    BY <1>2, TodoTypes DEF StoreTypeInv, Record
<1>4. CASE o = "failed"
    <2>1. UNCHANGED <<state, applied, server>> /\ sync' = Idle
        BY <1>1, <1>2, <1>4 DEF Landed
    <2>2. Range(in') \subseteq Coming
        BY <1>2 DEF Coming
    <2> QED BY <2>1, <2>2, RecordIdle
<1>5. CASE o # "failed"
    <2>1. \A id \in RecordIds :
              KnownRevision(id)' = IF id = a.id THEN a.rev ELSE KnownRevision(id)
        BY <1>1, <1>3, <1>5, KnownStep, SMT
    <2>2. applied' = applied \cup {a}
        BY <1>1, <1>5 DEF Landed
    <2>3. Range(state') \subseteq Range(state) \cup {a}
        BY <1>1, PutLanded, SMT
    <2>4. /\ Writing' = {} /\ Acknowledged' = {} /\ Writing = {a}
          /\ Pushing' => Pushing /\ sync'.todo = sync.todo
          /\ Pulling' => Pulling /\ sync'.todo = sync.todo
        <3>1. CASE sync' = Idle
            BY <1>2, <3>1 DEF Pushing, Pulling, Writing, Acknowledged, Idle
        <3>2. CASE sync' = next
            BY <1>2, <3>2 DEF Pushing, Pulling, Writing, Acknowledged
        <3> QED BY <1>1, <3>1, <3>2
    <2>5. Coming' \subseteq Coming /\ (Pushing => Coming = Range(in))
        BY <1>2, <2>4 DEF Coming, Pushing, Pulling
    <2>6. Pushing \/ Pulling
        BY <1>2, <1>3 DEF Pushing, Pulling
    <2> HIDE DEF a, next
    <2>7. KnownInv'
        <3>1. Range(state') \subseteq applied'
            BY <2>2, <2>3 DEF RecordInv, KnownInv
        <3>2. \A r \in Coming \cup Range(state) \cup {a} : r.rev <= server.of[r.id]
            BY <2>4 DEF RecordInv, KnownInv
        <3> QED BY <1>2, <2>3, <2>4, <2>5, <3>1, <3>2 DEF KnownInv
    <2>8. NewerInv'
        <3>1. ASSUME NEW r \in Coming PROVE (r \in applied \/ KnownRevision(r.id) < r.rev)'
            <4>1. r \in Record /\ r.id \in RecordIds /\ r.rev \in 1..MaxRevision
                BY ComingTypes
            <4>2. CASE r \in applied
                BY <2>2, <4>2
            <4>3. CASE r \notin applied /\ r.id # a.id
                BY <2>1, <4>1, <4>3 DEF RecordInv, NewerInv
            <4>4. CASE r \notin applied /\ r.id = a.id
                <5>1. ~Pushing
                    BY <2>4, <2>5, <4>4 DEF RecordInv, TakenInv
                <5>2. a.rev <= r.rev
                    BY <2>4, <2>6, <4>4, <5>1 DEF RecordInv, OldestInv
                <5>3. r.rev = a.rev => r = a
                    BY <1>3, <4>1, <4>4 DEF Record
                <5> QED BY <1>3, <2>1, <2>2, <4>1, <4>4, <5>2, <5>3
            <4> QED BY <4>2, <4>3, <4>4
        <3> QED BY <2>4, <2>5, <3>1 DEF NewerInv
    <2>9. ParentInv'
        <3> SUFFICES ASSUME Pushing', NEW p \in sync'.todo
                     PROVE  RevisionOf(p.parent) <= KnownRevision(p.change.id)'
            BY DEF ParentInv
        <3>1. Pushing /\ p \in sync.todo
            BY <2>4
        <3>2. p \in Pending /\ p.change.id \in RecordIds
            BY <3>1 DEF StoreTypeInv, SyncTypes, Pending, Change
        <3>3. RevisionOf(p.parent) <= KnownRevision(p.change.id)
            BY <3>1 DEF RecordInv, ParentInv
        <3>4. KnownRevision(a.id) < a.rev
            BY <2>4, <3>1 DEF RecordInv, TakenInv
        <3>5. RevisionOf(p.parent) \in Nat
            BY <3>2 DEF Pending, RevisionOf, Record
        <3>6. ASSUME NEW id \in RecordIds PROVE KnownRevision(id) \in Nat
            <4>1. KnownRevision(id) \in 0..MaxRevision
                BY KnownFacts
            <4> QED BY <4>1, SparkStoreAssumption
        <3> QED BY <1>3, <2>1, <3>2, <3>3, <3>4, <3>5, <3>6
    <2>10. OrderInv'
        <3>1. ASSUME Pulling', NEW r \in Range(in) \ applied'
              PROVE  r \in sync'.todo \/ \A q \in sync'.todo : q.rev <= r.rev
            <4>1. Pulling /\ sync'.todo = sync.todo /\ r \in Range(in) \ applied /\ r # a
                BY <2>2, <2>4, <3>1
            <4> QED BY <1>2, <2>4, <4>1 DEF RecordInv, OrderInv
        <3> QED BY <1>2, <3>1 DEF OrderInv
    <2> QED BY <2>4, <2>7, <2>8, <2>9, <2>10 DEF RecordInv, TakenInv, OldestInv
<1> QED BY <1>4, <1>5

\* Every step keeps RecordInv.
LEMMA RecordInvStep ==
    ASSUME StoreTypeInv, KeyInv, RecordInv, [StoreNext]_storeVars
    PROVE  RecordInv'
<1>0. \A id \in RecordIds : server.of[id] \in Nat
    BY DEF StoreTypeInv, ServerTypes
<1>1. ASSUME UNCHANGED <<in, state, sync, server, applied>> PROVE RecordInv'
    BY <1>0, <1>1, RecordSame
<1>2. CASE OtherDevice
    <2>1. PICK id \in RecordIds :
              server' = [rev |-> server.rev + 1, of |-> [server.of EXCEPT ![id] = server.rev + 1]]
        BY <1>2 DEF OtherDevice
    <2>2. server.rev < MaxRevision /\ UNCHANGED <<in, state, sync, applied>>
        BY <1>2 DEF OtherDevice, storeDisk, memory
    <2>3. ServerTypes' /\ \A i \in RecordIds : server.of[i] <= server'.of[i]
        BY <2>1, <2>2, ServerStep DEF StoreTypeInv
    <2>4. \A i \in RecordIds : server'.of[i] \in Nat
        BY <2>3 DEF ServerTypes
    <2> QED BY <2>2, <2>3, <2>4, RecordSame
<1>3. CASE StoreCrash \/ PhaseEnds
    <2>1. UNCHANGED <<in, state, applied, server>> /\ sync' = Idle
        BY <1>3 DEF StoreCrash, PhaseEnds, storeDisk
    <2>2. Range(in') \subseteq Coming
        BY <2>1 DEF Coming
    <2> QED BY <2>1, <2>2, RecordIdle
<1>4. ASSUME NEW t \in Tasks,
             \/ ReadMetadata(t) \/ WriteMetadata(t) \/ ReadDeposit(t) \/ WriteDeposit(t)
             \/ DeleteDeposit(t) \/ SetSwap(t) \/ ReadLocalRevision(t) \/ WriteLocalRevision(t)
             \/ WriteChange(t)
      PROVE  RecordInv'
    <2>1. UNCHANGED <<in, state, revision, sync, server, applied>>
        BY <1>4, TaskLeavesSync, Zenon
    <2> QED BY <1>1, <2>1
<1>5. CASE UNCHANGED storeVars
    BY <1>1, <1>5 DEF storeVars, storeDisk, memory
<1>6. CASE StoreNext
    BY <1>2, <1>3, <1>4, <1>6, StoreStepCases, StartPushRecord, PushRecord, RemoveOutgoingRecord,
       WriteSyncStateRecord, UpdateServerRevisionRecord, StartPullRecord, InsertIncomingRecord,
       StartApplyRecord, ApplyIncomingRecord, DeleteIncomingRecord, Zenon
<1> QED BY <1>5, <1>6

\* RecordInv at the start.
LEMMA RecordInvInit == StoreInit => RecordInv
<1> SUFFICES ASSUME StoreInit PROVE RecordInv
    OBVIOUS
<1>1. Range(in) = {} /\ Range(state) = {}
    BY DEF StoreInit, Nothing, Range
<1>2. ~Pushing /\ ~Pulling /\ Writing = {} /\ Acknowledged = {} /\ Coming = {}
    BY <1>1 DEF StoreInit, Pushing, Pulling, Writing, Acknowledged, Coming, Idle
<1> QED BY <1>1, <1>2 DEF RecordInv, KnownInv, NewerInv, ParentInv, TakenInv, OrderInv, OldestInv

(***************************************************************************)
(* The theorems about the Spark store.                                     *)
(***************************************************************************)

\* The inductive invariant.
StoreInv == StoreTypeInv /\ KeyInv /\ DepositInv /\ ChangeInv /\ RecordInv

\* It holds in every state the store reaches.
THEOREM StoreInvariant == StoreSpec => []StoreInv
<1>1. StoreInit => StoreInv
    BY StoreTypesInit, KeyInvInit, DepositInvInit, ChangeInvInit, RecordInvInit DEF StoreInv
<1>2. StoreInv /\ [StoreNext]_storeVars => StoreInv'
    BY StoreTypesStep, KeyInvStep, DepositStep, ChangeInvStep, RecordInvStep, Zenon DEF StoreInv
<1> QED BY <1>1, <1>2, PTL DEF StoreSpec

\* StoreTypeOK, whatever the tasks, the sync, failures and crashes do: the locks
\* of the deposits and of next_local_revision are held by the task inside.
THEOREM StoreTypesHold == StoreSpec => []StoreTypeOK
<1>1. StoreInv => StoreTypeOK
    BY DEF StoreInv, StoreTypeInv, StoreTypeOK, OtherTypes, RecordTypes, ChangeTypes, StoreLocks
<1> QED BY <1>1, StoreInvariant, PTL

\* NoChangeLost: a change that add_outgoing_change accepted stays in the outgoing
\* queue until the server has it.
THEOREM NoChangeLostHolds == StoreSpec => []NoChangeLost
<1>1. StoreInv => NoChangeLost
    BY ChangeInvSuffices DEF StoreInv
<1> QED BY <1>1, StoreInvariant, PTL

\* UnderOwnKey: two ids never share a key of sync_record_key.
THEOREM UnderOwnKeyHolds == StoreSpec => []UnderOwnKey
<1>1. StoreInv => UnderOwnKey
    BY KeyInvSuffices DEF StoreInv
<1> QED BY <1>1, StoreInvariant, PTL

\* RefundsKept: no task's report of a deposit undoes another's (add_deposit,
\* update_deposit under deposit_update_lock).
THEOREM RefundsKeptHolds == StoreSpec => RefundsKept
<1>1. StoreInv /\ [StoreNext]_storeVars =>
          [deposit # None /\ deposit' # None =>
             /\ deposit.refund # None => deposit'.refund # None
             /\ deposit.instant => deposit'.instant]_storeVars
    <2> SUFFICES ASSUME StoreInv, [StoreNext]_storeVars, deposit # None, deposit' # None
                 PROVE  /\ deposit.refund # None => deposit'.refund # None
                        /\ deposit.instant => deposit'.instant
        OBVIOUS
    <2>1. deposit' = None \/ Keeps(deposit, deposit')
        BY DepositStep DEF StoreInv
    <2> QED BY <2>1 DEF Keeps
<1> QED BY <1>1, StoreInvariant, PTL DEF StoreSpec, RefundsKept

\* A step takes what is acknowledged of an id back only if the record it writes
\* was written before.
LEMMA GoesForward ==
    ASSUME StoreInv, [StoreNext]_storeVars
    PROVE  /\ revision' >= revision
           /\ \A id \in RecordIds :
                 \/ RevisionOf(read_sync_state(id)') >= RevisionOf(read_sync_state(id))
                 \/ sync.record \in applied
<1>0. StoreTypeInv /\ KeyInv /\ RecordInv
    BY DEF StoreInv
<1>1. revision' >= revision
    <2>1. revision \in Nat
        BY <1>0 DEF StoreTypeInv, RecordTypes
    <2>2. revision' = revision \/ UpdateServerRevision
        BY DEF StoreNext, Sync, storeVars, storeDisk, memory, ReadMetadata, WriteMetadata,
               ReadDeposit, WriteDeposit, DeleteDeposit, SetSwap, ReadLocalRevision,
               WriteLocalRevision, WriteChange, StartPush, Push, RemoveOutgoing, WriteSyncState,
               PhaseEnds, StartPull, InsertIncoming, StartApply, ApplyIncoming, DeleteIncoming,
               OtherDevice, StoreCrash
    <2> QED BY <1>0, <2>1, <2>2, UpdateServerRevisionTypes
<1>2. ASSUME NEW id \in RecordIds PROVE KnownRevision(id) \in Nat
    <2>1. KnownRevision(id) \in 0..MaxRevision
        BY <1>0, KnownFacts
    <2> QED BY <2>1, SparkStoreAssumption
<1>3. ASSUME NEW id \in RecordIds
      PROVE  KnownRevision(id)' >= KnownRevision(id) \/ sync.record \in applied
    <2>1. CASE state' = state
        BY <1>2, <2>1, KnownSame
    <2>2. CASE WriteSyncState
        <3>1. PICK o \in Outcomes :
                  state' = Landed(o, Put(state, record_id_key(sync.record.id), sync.record), state)
            BY <2>2 DEF WriteSyncState
        <3>2. sync.record \in Record /\ sync.record.rev \in Nat /\ sync.record \in Writing
            BY <1>0, <2>2, TodoTypes DEF WriteSyncState, StoreTypeInv, Record, Writing
        <3>3. KnownRevision(id)' = IF o # "failed" /\ id = sync.record.id THEN sync.record.rev
                                   ELSE KnownRevision(id)
            BY <1>0, <3>1, <3>2, KnownStep
        <3>4. sync.record \in applied \/ KnownRevision(sync.record.id) < sync.record.rev
            BY <1>0, <3>2 DEF RecordInv, NewerInv
        <3> QED BY <1>2, <3>2, <3>3, <3>4
    <2>3. state' = state \/ WriteSyncState
        BY DEF StoreNext, Sync, storeVars, storeDisk, memory, ReadMetadata, WriteMetadata,
               ReadDeposit, WriteDeposit, DeleteDeposit, SetSwap, ReadLocalRevision,
               WriteLocalRevision, WriteChange, StartPush, Push, RemoveOutgoing,
               UpdateServerRevision, PhaseEnds, StartPull, InsertIncoming, StartApply,
               ApplyIncoming, DeleteIncoming, OtherDevice, StoreCrash
    <2> QED BY <2>1, <2>2, <2>3
<1> QED BY <1>1, <1>3 DEF KnownRevision, RevisionOf

\* SyncNeverGoesBack: pushes, pulls and get_incoming_records never take an
\* acknowledged record back to an older one, except by applying one again.
THEOREM SyncNeverGoesBackHolds == StoreSpec => SyncNeverGoesBack
<1>1. StoreInv /\ [StoreNext]_storeVars =>
          [/\ revision' >= revision
           /\ \A id \in RecordIds :
                 \/ RevisionOf(read_sync_state(id)') >= RevisionOf(read_sync_state(id))
                 \/ sync.record \in applied]_storeVars
    BY GoesForward
<1> QED BY <1>1, StoreInvariant, PTL DEF StoreSpec, SyncNeverGoesBack
=============================================================================
