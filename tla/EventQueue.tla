------------------------------ MODULE EventQueue ------------------------------
(***************************************************************************)
(* The event queue between the wallet's tasks and the application:         *)
(* `EventQueue::{add_event, push_event, next_event, next_event_async,      *)
(* event_handled, persist_queue}`, the future behind `next_event_async`,   *)
(* the LDK event handler that feeds it (an event stays with LDK until the  *)
(* handler acknowledges it) and a task that reports and forgets (the melt  *)
(* of a trusted payment, Spark's listener, the rebalancer).  What add_event*)
(* does with the terminal event of a split payment's leg is in MppPayment; *)
(* here it counts only whether the call queues something.                  *)
(***************************************************************************)
EXTENDS Naturals, Sequences, SequencesExt

CONSTANTS
    LdkEvents,    \* the events LDK will deliver, in order
    TaskEvents,   \* the events the other task will add, in order
    Received,     \* LDK events (PaymentReceived) whose push error is only logged
    LegEvents,    \* terminal events of the legs of split payments
    Apps,         \* the kinds of application that are considered
    MaxFaults,    \* bound: failing writes of the queue, failing acknowledgements
    MaxRestarts   \* bound: restarts of the process

Events    == ToSet(LdkEvents) \cup ToSet(TaskEvents)
Producers == {"ldk", "task"}
Threads   == Producers \cup {"app"}
Open      == "free"
None      == "none"

ASSUME QueueAssumption ==
    /\ LdkEvents \in Seq(Events) /\ TaskEvents \in Seq(Events)
    /\ Received \subseteq ToSet(LdkEvents) /\ LegEvents \subseteq Events
    /\ Apps \subseteq [polling : BOOLEAN, retry : BOOLEAN]
    /\ MaxFaults \in Nat /\ MaxRestarts \in Nat

VARIABLES
    queue,      \* EventQueue::queue
    onDisk,     \* what the KV store holds under "orange_events"
    qlock,      \* holder of the queue's mutex
    waker,      \* whether EventQueue::waker holds the application's waker
    wlock,      \* holder of the waker's mutex
    pc,         \* control state of every thread
    todo,       \* events each producer still has to add
    got,        \* the event the application last retrieved
    seen,       \* events the application retrieved, in order
    pushed,     \* events added since the process started, in order
    kept,       \* legs' events that add_event recorded or buffered instead
    acked,      \* LDK events the handler has acknowledged
    durable,    \* events some successful write of the queue contained
    lastOk,     \* whether the last write of the queue succeeded
    faults, restarts,
    app         \* polls next_event or awaits next_event_async; whether it
                \* calls event_handled again after an error

queueVars == <<queue, onDisk, qlock, waker, wlock, pc, todo, got, seen, pushed,
               kept, acked, durable, lastOk, faults, restarts, app>>

\* Where a thread can be: between two calls, or inside one of them.
Labels == {"idle", "persist", "wake", "take", "ok", "err",
           "poll", "register", "asleep", "have"}

\* Every variable has its type, and a mutex is held by exactly the thread that
\* is between its lock() and the end of the guard's scope (push_event,
\* event_handled, persist_queue).
QueueTypes ==
    /\ queue \in Seq(Events) /\ onDisk \in Seq(Events)
    /\ qlock \in Threads \cup {Open} /\ wlock \in Threads \cup {Open}
    /\ waker \in BOOLEAN
    /\ pc \in [Threads -> Labels]
    /\ todo \in [Producers -> Seq(Events)]
    /\ got \in Events \cup {None}
    /\ seen \in Seq(Events) /\ pushed \in Seq(Events)
    /\ kept \subseteq LegEvents
    /\ acked \subseteq Events /\ durable \subseteq Events
    /\ lastOk \in BOOLEAN
    /\ faults \in 0..MaxFaults /\ restarts \in 0..MaxRestarts
    /\ app \in Apps
    /\ \A t \in Threads : /\ qlock = t <=> pc[t] = "persist"
                          /\ wlock = t <=> pc[t] = "take"
    /\ \A p \in Producers : pc[p] # "idle" => todo[p] # <<>>

QueueInit ==
    /\ queue = <<>> /\ onDisk = <<>>
    /\ qlock = Open /\ wlock = Open /\ waker = FALSE
    /\ pc = [t \in Threads |-> IF t = "app" THEN "poll" ELSE "idle"]
    /\ todo = [p \in Producers |-> IF p = "ldk" THEN LdkEvents ELSE TaskEvents]
    /\ got = None
    /\ seen = <<>> /\ pushed = <<>> /\ kept = {}
    /\ acked = {} /\ durable = {} /\ lastOk = TRUE
    /\ faults = 0 /\ restarts = 0
    /\ app \in Apps

Goto(t, l) == pc' = [pc EXCEPT ![t] = l]

-----------------------------------------------------------------------------
(***************************************************************************)
(* add_event.  The terminal event of a leg that is registered is recorded, *)
(* one whose payment is being set up is buffered: either way the call      *)
(* returns Ok and nothing is queued.  (A leg that completes its payment    *)
(* pushes the combined event in its place.)                                *)
(***************************************************************************)
KeepLeg(p) ==
    /\ pc[p] = "idle" /\ todo[p] # <<>> /\ Head(todo[p]) \in LegEvents
    /\ kept' = kept \cup {Head(todo[p])}
    /\ Goto(p, "ok")
    /\ UNCHANGED <<queue, onDisk, qlock, waker, wlock, todo, got, seen, pushed,
                   acked, durable, lastOk, faults, restarts, app>>

(***************************************************************************)
(* Every other event is pushed.  push_event and event_handled change the   *)
(* queue under its lock and keep the lock until the queue is written; only *)
(* a successful write is followed by a wake-up.                            *)
(***************************************************************************)
\* Mutant: the guard is dropped before the queue is written.
PushUnlocked(p) ==
    /\ pc[p] = "idle" /\ todo[p] # <<>> /\ qlock = Open
    /\ queue' = Append(queue, Head(todo[p]))
    /\ pushed' = Append(pushed, Head(todo[p]))
    /\ Goto(p, "persist")
    /\ UNCHANGED <<onDisk, qlock, waker, wlock, todo, got, seen, kept, acked,
                   durable, lastOk, faults, restarts, app>>

\* Mutant: the event goes to the front of the queue.
PushFront(p) ==
    /\ pc[p] = "idle" /\ todo[p] # <<>> /\ qlock = Open
    /\ qlock' = p
    /\ queue' = <<Head(todo[p])>> \o queue
    /\ pushed' = Append(pushed, Head(todo[p]))
    /\ Goto(p, "persist")
    /\ UNCHANGED <<onDisk, waker, wlock, todo, got, seen, kept, acked, durable,
                   lastOk, faults, restarts, app>>

push_event(p) ==
    /\ pc[p] = "idle" /\ todo[p] # <<>> /\ qlock = Open
    /\ qlock' = p
    /\ queue' = Append(queue, Head(todo[p]))
    /\ pushed' = Append(pushed, Head(todo[p]))
    /\ Goto(p, "persist")
    /\ UNCHANGED <<onDisk, waker, wlock, todo, got, seen, kept, acked, durable,
                   lastOk, faults, restarts, app>>

\* event_handled pops whatever is in front (nothing, from an empty queue).
event_handled ==
    /\ pc["app"] = "have" /\ qlock = Open
    /\ qlock' = "app"
    /\ queue' = IF queue = <<>> THEN <<>> ELSE Tail(queue)
    /\ Goto("app", "persist")
    /\ UNCHANGED <<onDisk, waker, wlock, todo, got, seen, pushed, kept, acked,
                   durable, lastOk, faults, restarts, app>>

\* persist_queue, then the lock is dropped.  A write that reports an error
\* may or may not have reached the disk.
persist_queue(t) ==
    /\ pc[t] = "persist"
    /\ qlock' = Open
    /\ \/ /\ onDisk' = queue
          /\ durable' = durable \cup ToSet(queue)
          /\ lastOk' = TRUE
          /\ Goto(t, "wake")
          /\ UNCHANGED faults
       \/ /\ faults < MaxFaults /\ faults' = faults + 1
          /\ onDisk' \in {onDisk, queue}
          /\ lastOk' = FALSE
          /\ Goto(t, "err")
          /\ UNCHANGED durable
    /\ UNCHANGED <<queue, waker, wlock, todo, got, seen, pushed, kept, acked,
                   restarts, app>>

LockWaker(t) ==
    /\ pc[t] = "wake" /\ wlock = Open
    /\ wlock' = t
    /\ Goto(t, "take")
    /\ UNCHANGED <<queue, onDisk, qlock, waker, todo, got, seen, pushed, kept,
                   acked, durable, lastOk, faults, restarts, app>>

WakeConsumer(t) ==
    /\ pc[t] = "take"
    /\ wlock' = Open /\ waker' = FALSE
    /\ pc' = [u \in Threads |->
                CASE u = t -> "ok"
                  [] u = "app" /\ waker /\ pc[u] = "asleep" -> "poll"
                  [] OTHER -> pc[u]]
    /\ UNCHANGED <<queue, onDisk, qlock, todo, got, seen, pushed, kept, acked,
                   durable, lastOk, faults, restarts, app>>

\* Mutant: the handler acknowledges whether or not add_event failed.
AlwaysAcknowledges(p) == TRUE

\* The handler returns early when add_event failed, except for a received
\* payment, whose error it only logs.
Acknowledges(p) == pc[p] = "ok" \/ Head(todo[p]) \in Received

\* The caller of add_event sees the result.  The LDK handler acknowledges the
\* event; if it does not, or cannot, LDK delivers the event again.  The other
\* task goes on regardless.
AddReturns(p) ==
    /\ pc[p] \in {"ok", "err"}
    /\ Goto(p, "idle")
    /\ \/ /\ p = "task" \/ Acknowledges(p)
          /\ todo' = [todo EXCEPT ![p] = Tail(todo[p])]
          /\ acked' = IF p = "ldk" THEN acked \cup {Head(todo[p])} ELSE acked
          /\ UNCHANGED faults
       \/ /\ p = "ldk" /\ ~Acknowledges(p)
          /\ UNCHANGED <<todo, acked, faults>>
       \/ /\ p = "ldk" /\ Acknowledges(p)
          /\ faults < MaxFaults /\ faults' = faults + 1
          /\ UNCHANGED <<todo, acked>>
    /\ UNCHANGED <<queue, onDisk, qlock, waker, wlock, got, seen, pushed, kept,
                   durable, lastOk, restarts, app>>

-----------------------------------------------------------------------------
(***************************************************************************)
(* The application: retrieve the front event, handle it, confirm it.       *)
(***************************************************************************)
Retrieve ==
    /\ got' = Head(queue) /\ seen' = Append(seen, Head(queue))
    /\ Goto("app", "have")
    /\ UNCHANGED <<queue, onDisk, qlock, waker, wlock, todo, pushed, kept,
                   acked, durable, lastOk, faults, restarts, app>>

\* next_event waits for the lock and returns the front, if there is one.
next_event ==
    /\ app.polling /\ pc["app"] = "poll" /\ qlock = Open /\ queue # <<>>
    /\ Retrieve

\* EventFuture::poll only tries the lock: a held lock looks like an empty queue.
PollFuture ==
    /\ ~app.polling /\ pc["app"] = "poll"
    /\ \/ qlock = Open /\ queue # <<>> /\ Retrieve
       \/ /\ qlock # Open \/ queue = <<>>
          /\ Goto("app", "register")
          /\ UNCHANGED <<queue, onDisk, qlock, waker, wlock, todo, got, seen, pushed,
                         kept, acked, durable, lastOk, faults, restarts, app>>

\* ... and only tries the waker's lock before it returns Pending.
RegisterWaker ==
    /\ pc["app"] = "register"
    /\ waker' = (waker \/ wlock = Open)
    /\ Goto("app", "asleep")
    /\ UNCHANGED <<queue, onDisk, qlock, wlock, todo, got, seen, pushed, kept,
                   acked, durable, lastOk, faults, restarts, app>>

\* After an error the application confirms the event again, or goes on.
HandledReturns ==
    /\ pc["app"] \in {"ok", "err"}
    /\ Goto("app", IF pc["app"] = "err" /\ app.retry THEN "have" ELSE "poll")
    /\ UNCHANGED <<queue, onDisk, qlock, waker, wlock, todo, got, seen, pushed,
                   kept, acked, durable, lastOk, faults, restarts, app>>

-----------------------------------------------------------------------------
(***************************************************************************)
(* The process restarts: EventQueue::new starts from an empty queue and    *)
(* does not read what was persisted; LDK redelivers what it still holds.   *)
(***************************************************************************)
Restart ==
    /\ restarts < MaxRestarts
    /\ restarts' = restarts + 1
    /\ queue' = <<>> /\ pushed' = <<>>
    /\ qlock' = Open /\ wlock' = Open /\ waker' = FALSE
    /\ pc' = [t \in Threads |-> IF t = "app" THEN "poll" ELSE "idle"]
    /\ todo' = [todo EXCEPT !["task"] = <<>>]
    /\ got' = None /\ seen' = <<>>
    /\ UNCHANGED <<onDisk, kept, acked, durable, lastOk, faults, app>>

AppStep ==
    \/ next_event \/ PollFuture \/ RegisterWaker \/ event_handled \/ HandledReturns

ThreadStep(t) == persist_queue(t) \/ LockWaker(t) \/ WakeConsumer(t)

QueueNext ==
    \/ AppStep
    \/ \E p \in Producers : KeepLeg(p) \/ push_event(p) \/ AddReturns(p)
    \/ \E t \in Threads : ThreadStep(t)
    \/ Restart

QueueSpec == QueueInit /\ [][QueueNext]_queueVars

\* Every task that can run is polled again, and tokio's mutex is FIFO, so a
\* task that keeps asking for a lock that is released again gets it.
QueueFairness ==
    /\ SF_queueVars(AppStep)
    /\ \A p \in Producers : SF_queueVars(push_event(p)) /\ WF_queueVars(AddReturns(p))
    /\ \A t \in Threads : SF_queueVars(ThreadStep(t))

FairQueueSpec == QueueSpec /\ QueueFairness

-----------------------------------------------------------------------------
\* What the application has not retrieved yet.
Unseen == IF pc["app"] = "have" THEN Tail(queue) ELSE queue

\* The application retrieves every event of this process, in the order of the
\* pushes and without a gap, also when writes fail (push_event, event_handled).
\* Exception: an application that calls event_handled again after an error.  The
\* first call has popped the event although its write failed, the second pops
\* one that nobody has seen.
FifoWithoutLoss == app.retry \/ seen \o Unseen = pushed

\* However many tasks push and confirm at once, between two operations the
\* persisted queue is the queue in memory, in its order, unless the last write
\* failed (push_event and event_handled write under the queue's lock).
DiskTracksQueue == restarts = 0 /\ qlock = Open /\ lastOk => onDisk = queue

\* Once LDK's event is acknowledged, LDK forgets it.  By then the wallet's own
\* event was in a successful write of the queue (handle_ldk_node_event), unless
\* it is a received payment, whose push error is only logged, or a leg's event
\* that add_event recorded or buffered.  In the process that acknowledged it, no
\* event is gone without having been queued, recorded or buffered.
AckedIsDurable ==
    /\ acked \ (Received \cup kept) \subseteq durable
    /\ restarts = 0 => acked \subseteq ToSet(pushed) \cup kept

\* A producer in the middle of add_event works on the event it still has to
\* report; a pushed event stays in the queue until it is written (push_event).
ReportsInFlight ==
    \A p \in Producers :
        /\ pc[p] \in {"idle", "persist", "wake", "take", "ok", "err"}
        /\ pc[p] # "idle" => Head(todo[p]) \in ToSet(pushed) \cup kept
        /\ pc[p] = "persist" => Head(todo[p]) \in ToSet(queue)
        /\ pc[p] \in {"wake", "take", "ok"} => Head(todo[p]) \in durable \cup kept

\* What an application that confirms once has in hand is in front of the queue.
InHand == pc["app"] = "have" => app.retry \/ queue # <<>>

\* The inductive invariant of the proofs: push_event, event_handled and the
\* acknowledgement to LDK together keep order, durability and the disk.
QueueInv ==
    /\ QueueTypes
    /\ InHand
    /\ FifoWithoutLoss
    /\ DiskTracksQueue
    /\ ReportsInFlight
    /\ AckedIsDurable

\* A queued event is eventually retrieved by the waiting application.
QueuedIsRetrieved ==
    \A e \in Events : (e \in ToSet(queue)) ~> (got = e)
=============================================================================
