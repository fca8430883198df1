--------------------------- MODULE EventQueueProofs ---------------------------
(***************************************************************************)
(* TLAPS proofs about EventQueue, for all sequences of events, any number  *)
(* of failing writes and any number of restarts.                           *)
(***************************************************************************)
EXTENDS EventQueue, TLAPS

\* The events of a queue are those of its old content and the appended one.
LEMMA AppendSet ==
  ASSUME NEW s \in Seq(Events), NEW e \in Events
  PROVE  ToSet(Append(s, e)) = ToSet(s) \cup {e}
  <1> DEFINE n == Len(s)
             a == Append(s, e)
  <1>1. n \in Nat /\ DOMAIN s = 1..n /\ DOMAIN a = 1..(n + 1)
    OBVIOUS
  <1>2. a[n + 1] = e /\ \A i \in 1..n : a[i] = s[i]
    OBVIOUS
  <1>3. \A i \in 1..(n + 1) : i = n + 1 \/ i \in 1..n
    BY <1>1
  <1>4. \A i \in 1..n : i \in 1..(n + 1)
    BY <1>1
  <1>5. n + 1 \in 1..(n + 1)
    BY <1>1
  <1> HIDE DEF n, a
  <1>6. {a[i] : i \in 1..(n + 1)} = {s[i] : i \in 1..n} \cup {e}
    BY <1>2, <1>3, <1>4, <1>5
  <1> QED
    BY <1>1, <1>6 DEF ToSet, a

\* A queue with a front: its parts, and what the front belongs to.
LEMMA HeadTail ==
  ASSUME NEW s \in Seq(Events), s # <<>>
  PROVE  /\ Head(s) \in Events /\ Tail(s) \in Seq(Events)
         /\ s = <<Head(s)>> \o Tail(s)
  OBVIOUS

\* Pushing keeps "retrieved, then still queued, is what was pushed".
LEMMA PushKeepsFifo ==
  ASSUME NEW h \in Seq(Events), NEW q \in Seq(Events), NEW e \in Events
  PROVE  h \o Append(q, e) = Append(h \o q, e)
  OBVIOUS

\* So does moving the front of the queue to the retrieved events.
LEMMA PopKeepsFifo ==
  ASSUME NEW h \in Seq(Events), NEW q \in Seq(Events), q # <<>>
  PROVE  Append(h, Head(q)) \o Tail(q) = h \o q
  OBVIOUS

\* An event pushed behind a front leaves that front.
LEMMA PushBehind ==
  ASSUME NEW q \in Seq(Events), q # <<>>, NEW e \in Events
  PROVE  /\ Tail(q) \in Seq(Events) /\ Append(q, e) # <<>>
         /\ Tail(Append(q, e)) = Append(Tail(q), e)
  OBVIOUS

-----------------------------------------------------------------------------
\* A started wallet is well typed.
LEMMA InitTypes == QueueInit => QueueTypes
  <1> SUFFICES ASSUME QueueInit PROVE QueueTypes
    OBVIOUS
  <1> USE DEF QueueInit, Threads, Producers, Open, None
  <1>1. todo \in [Producers -> Seq(Events)]
    BY QueueAssumption
  <1>2. pc \in [Threads -> {"idle", "poll"}] /\ \A p \in Producers : pc[p] = "idle"
    OBVIOUS
  <1>3. faults \in 0..MaxFaults /\ restarts \in 0..MaxRestarts
    BY QueueAssumption
  <1>4. /\ queue \in Seq(Events) /\ onDisk \in Seq(Events)
        /\ seen \in Seq(Events) /\ pushed \in Seq(Events)
    OBVIOUS
  <1>5. \A t \in Threads : qlock # t /\ wlock # t /\ pc[t] \notin {"persist", "take"}
    OBVIOUS
  <1> QED
    BY <1>1, <1>2, <1>3, <1>4, <1>5 DEF QueueTypes, Labels

\* Every step keeps the types and the ownership of the two mutexes.
LEMMA NextTypes ==
  ASSUME QueueTypes, [QueueNext]_queueVars
  PROVE  QueueTypes'
  <1> USE DEF QueueTypes, Labels, Threads, Producers, Open
  <1>1. CASE next_event
    BY <1>1 DEF next_event, Retrieve, Goto
  <1>2. CASE PollFuture
    <2>1. CASE Retrieve /\ queue # <<>> /\ pc["app"] = "poll"
      BY <2>1 DEF Retrieve, Goto
    <2>2. CASE /\ Goto("app", "register") /\ pc["app"] = "poll"
               /\ UNCHANGED <<queue, onDisk, qlock, waker, wlock, todo, got, seen, pushed,
                              kept, acked, durable, lastOk, faults, restarts, app>>
      BY <2>2 DEF Goto
    <2> QED
      BY <1>2, <2>1, <2>2 DEF PollFuture
  <1>2a. ASSUME NEW p \in Producers, KeepLeg(p) PROVE QueueTypes'
    BY <1>2a DEF KeepLeg, Goto
  <1>3. CASE RegisterWaker
    BY <1>3 DEF RegisterWaker, Goto
  <1>4. CASE event_handled
    <2>1. queue' \in Seq(Events)
      <3>1. queue' = queue \/ (queue # <<>> /\ queue' = Tail(queue))
        BY <1>4 DEF event_handled
      <3>2. queue \in Seq(Events) /\ (queue # <<>> => Tail(queue) \in Seq(Events))
        OBVIOUS
      <3> QED
        BY ONLY <3>1, <3>2
    <2>2. /\ pc' = [pc EXCEPT !["app"] = "persist"] /\ pc["app"] = "have"
          /\ qlock = Open /\ qlock' = "app"
      BY <1>4 DEF event_handled, Goto
    <2>3. UNCHANGED <<onDisk, waker, wlock, todo, got, seen, pushed, kept, acked,
                      durable, lastOk, faults, restarts, app>>
      BY <1>4 DEF event_handled
    <2> QED
      BY <2>1, <2>2, <2>3
  <1>5. CASE HandledReturns
    BY <1>5 DEF HandledReturns, Goto
  <1>6. ASSUME NEW p \in Producers, push_event(p) PROVE QueueTypes'
    <2>1. Head(todo[p]) \in Events /\ todo[p] # <<>>
      BY <1>6 DEF push_event
    <2>2. queue' \in Seq(Events) /\ pushed' \in Seq(Events)
      BY <1>6, <2>1 DEF push_event
    <2>3. /\ pc' = [pc EXCEPT ![p] = "persist"] /\ pc[p] = "idle"
          /\ qlock = Open /\ qlock' = p
          /\ UNCHANGED <<onDisk, waker, wlock, todo, got, seen, kept, acked, durable,
                         lastOk, faults, restarts, app>>
      BY <1>6 DEF push_event, Goto
    <2> QED
      BY <2>1, <2>2, <2>3
  <1>7. ASSUME NEW p \in Producers, AddReturns(p) PROVE QueueTypes'
    <2>1. todo[p] \in Seq(Events) /\ todo[p] # <<>> /\ pc[p] \in {"ok", "err"}
      BY <1>7 DEF AddReturns
    <2>2. /\ todo' \in [Producers -> Seq(Events)] /\ acked' \subseteq Events
          /\ \A q \in Producers \ {p} : todo'[q] = todo[q]
      <3>1. Head(todo[p]) \in Events /\ Tail(todo[p]) \in Seq(Events)
        BY <2>1
      <3>2. \/ UNCHANGED <<todo, acked>>
            \/ /\ todo' = [todo EXCEPT ![p] = Tail(todo[p])]
               /\ acked' = acked \/ acked' = acked \cup {Head(todo[p])}
        BY <1>7 DEF AddReturns
      <3>3. todo \in [Producers -> Seq(Events)] /\ acked \subseteq Events
        OBVIOUS
      <3> QED
        BY <3>1, <3>2, <3>3
    <2>3. /\ pc' = [pc EXCEPT ![p] = "idle"]
          /\ UNCHANGED <<queue, onDisk, qlock, waker, wlock, got, seen, pushed,
                         kept, durable, lastOk, restarts, app>>
      BY <1>7 DEF AddReturns, Goto
    <2>4. faults' \in 0..MaxFaults
      <3>1. faults' = faults \/ (faults < MaxFaults /\ faults' = faults + 1)
        BY <1>7 DEF AddReturns
      <3> QED
        BY <3>1, QueueAssumption
    <2> QED
      BY <2>1, <2>2, <2>3, <2>4
  <1>8. ASSUME NEW t \in Threads, persist_queue(t) PROVE QueueTypes'
    <2>1. ToSet(queue) \subseteq Events
      BY DEF ToSet
    <2>2. /\ onDisk' \in Seq(Events) /\ durable' \subseteq Events
          /\ lastOk' \in BOOLEAN /\ faults' \in 0..MaxFaults
      <3>1. faults' = faults \/ (faults < MaxFaults /\ faults' = faults + 1)
        BY <1>8 DEF persist_queue
      <3>2. faults' \in 0..MaxFaults
        BY <3>1, QueueAssumption
      <3>3. onDisk' \in {onDisk, queue} /\ lastOk' \in BOOLEAN
        BY <1>8 DEF persist_queue
      <3>4. durable' = durable \/ durable' = durable \cup ToSet(queue)
        BY <1>8 DEF persist_queue
      <3> QED
        BY <2>1, <3>2, <3>3, <3>4
    <2>3. PICK l \in {"wake", "err"} : pc' = [pc EXCEPT ![t] = l]
      BY <1>8 DEF persist_queue, Goto
    <2>4. /\ pc[t] = "persist" /\ qlock' = Open
          /\ UNCHANGED <<queue, waker, wlock, todo, got, seen, pushed, kept, acked,
                         restarts, app>>
      BY <1>8 DEF persist_queue
    <2> QED
      BY <2>2, <2>3, <2>4
  <1>9. ASSUME NEW t \in Threads, LockWaker(t) PROVE QueueTypes'
    BY <1>9 DEF LockWaker, Goto
  <1>10. ASSUME NEW t \in Threads, WakeConsumer(t) PROVE QueueTypes'
    BY <1>10 DEF WakeConsumer
  <1>11. CASE Restart
    <2>1. /\ pc' \in [Threads -> {"idle", "poll"}]
          /\ \A p \in Producers : pc'[p] = "idle"
      BY <1>11 DEF Restart
    <2>2. todo' \in [Producers -> Seq(Events)]
      BY <1>11 DEF Restart
    <2>3. restarts' \in 0..MaxRestarts
      BY <1>11, QueueAssumption DEF Restart
    <2>4. /\ queue' = <<>> /\ pushed' = <<>> /\ seen' = <<>> /\ got' = None
          /\ qlock' = Open /\ wlock' = Open /\ waker' = FALSE
          /\ UNCHANGED <<onDisk, kept, acked, durable, lastOk, faults, app>>
      BY <1>11 DEF Restart
    <2>5. \A t \in Threads : pc'[t] \notin {"persist", "take"} /\ qlock' # t /\ wlock' # t
      BY <2>1, <2>4
    <2>6. /\ queue' \in Seq(Events) /\ onDisk' \in Seq(Events)
          /\ seen' \in Seq(Events) /\ pushed' \in Seq(Events)
      BY <2>4
    <2>7. /\ kept' \subseteq LegEvents /\ acked' \subseteq Events /\ durable' \subseteq Events /\ lastOk' \in BOOLEAN
          /\ faults' \in 0..MaxFaults /\ waker' \in BOOLEAN /\ app' \in Apps
      BY <2>4
    <2>8. got' \in Events \cup {None}
      BY <2>4
    <2>9. qlock' \in Threads \cup {Open} /\ wlock' \in Threads \cup {Open}
      BY <2>4
    <2> QED
      BY <2>1, <2>2, <2>3, <2>5, <2>6, <2>7, <2>8, <2>9
  <1>12. CASE UNCHANGED queueVars
    BY <1>12 DEF queueVars
  <1> QED
    BY <1>1, <1>2, <1>2a, <1>3, <1>4, <1>5, <1>6, <1>7, <1>8, <1>9, <1>10, <1>11, <1>12
       DEF QueueNext, AppStep, ThreadStep

\* Every reachable state is well typed and the mutexes of the queue and of the
\* waker are held by the thread in their critical section, and by no other.
THEOREM QueueTyping == QueueSpec => []QueueTypes
  BY InitTypes, NextTypes, PTL DEF QueueSpec

-----------------------------------------------------------------------------
(***************************************************************************)
(* The invariant: one lemma per part.                                      *)
(***************************************************************************)

\* An event in the application's hands stays in front of the queue.
LEMMA InHandStep ==
  ASSUME QueueTypes, InHand, [QueueNext]_queueVars
  PROVE  InHand'
  <1> USE DEF InHand
  <1>1. ASSUME NEW p \in Producers, push_event(p) PROVE InHand'
    <2>1. Append(queue, Head(todo[p])) # <<>>
      BY <1>1 DEF push_event, QueueTypes
    <2> QED
      BY <1>1, <2>1 DEF push_event
  <1>2. CASE event_handled
    BY <1>2 DEF event_handled, Goto, QueueTypes, Threads
  <1>3. CASE next_event \/ PollFuture
    BY <1>3 DEF next_event, PollFuture, Retrieve, Goto, QueueTypes, Threads
  <1>4. CASE HandledReturns
    BY <1>4 DEF HandledReturns, Goto, QueueTypes, Threads
  <1>5. CASE Restart
    BY <1>5 DEF Restart, Threads
  <1>6. CASE RegisterWaker
    BY <1>6 DEF RegisterWaker, Goto, QueueTypes, Threads
  <1>7. ASSUME NEW t \in Threads, ThreadStep(t) PROVE InHand'
    BY <1>7 DEF ThreadStep, persist_queue, LockWaker, WakeConsumer, Goto, QueueTypes, Threads
  <1>8. ASSUME NEW p \in Producers, KeepLeg(p) \/ AddReturns(p) PROVE InHand'
    BY <1>8 DEF KeepLeg, AddReturns, Goto, QueueTypes, Threads, Producers
  <1>9. CASE UNCHANGED queueVars
    BY <1>9 DEF queueVars
  <1> QED
    BY <1>1, <1>2, <1>3, <1>4, <1>5, <1>6, <1>7, <1>8, <1>9 DEF QueueNext, AppStep

\* What was retrieved and what is not yet stays what was pushed.
LEMMA FifoStep ==
  ASSUME QueueTypes, InHand, FifoWithoutLoss, [QueueNext]_queueVars
  PROVE  FifoWithoutLoss'
  <1>1. app' = app
    BY DEF QueueNext, AppStep, ThreadStep, next_event, PollFuture, Retrieve, RegisterWaker,
           event_handled, HandledReturns, KeepLeg, push_event, AddReturns, persist_queue,
           LockWaker, WakeConsumer, Restart, queueVars
  <1> SUFFICES ASSUME ~app.retry PROVE (seen \o Unseen = pushed)'
    BY <1>1 DEF FifoWithoutLoss
  <1>2. seen \o Unseen = pushed
    BY DEF FifoWithoutLoss
  <1>3. /\ queue \in Seq(Events) /\ seen \in Seq(Events)
        /\ pc \in [Threads -> Labels]
    BY DEF QueueTypes
  <1>4. ASSUME UNCHANGED <<seen, queue, pushed>>,
               pc'["app"] = "have" <=> pc["app"] = "have"
        PROVE  (seen \o Unseen = pushed)'
    BY <1>2, <1>4 DEF Unseen
  <1>5. CASE event_handled
    <2>1. pc["app"] = "have" /\ pc'["app"] = "persist" /\ UNCHANGED <<seen, pushed>>
      BY <1>3, <1>5 DEF event_handled, Goto, Threads
    <2>2. queue' = Tail(queue)
      BY <1>5, <2>1 DEF event_handled, InHand
    <2> QED
      BY <1>2, <2>1, <2>2 DEF Unseen
  <1>6. ASSUME NEW p \in Producers, push_event(p) PROVE (seen \o Unseen = pushed)'
    <2> DEFINE e == Head(todo[p])
    <2>1. e \in Events
      BY <1>6 DEF push_event, QueueTypes
    <2>2. /\ queue' = Append(queue, e) /\ seen' = seen /\ pushed' = Append(pushed, e)
          /\ pc'["app"] = pc["app"]
      BY <1>3, <1>6 DEF push_event, Goto, Producers, Threads
    <2> HIDE DEF e
    <2>3. Unseen \in Seq(Events) /\ Unseen' = Append(Unseen, e)
      BY <1>3, <2>1, <2>2, PushBehind DEF Unseen, InHand
    <2>4. seen \o Append(Unseen, e) = Append(seen \o Unseen, e)
      BY <1>3, <2>1, <2>3, PushKeepsFifo
    <2> QED
      BY <1>2, <2>2, <2>3, <2>4
  <1>7. ASSUME Retrieve, pc["app"] = "poll", queue # <<>>
        PROVE  (seen \o Unseen = pushed)'
    <2>1. /\ seen' = Append(seen, Head(queue)) /\ UNCHANGED <<queue, pushed>>
          /\ pc'["app"] = "have"
      BY <1>3, <1>7 DEF Retrieve, Goto, Threads
    <2>2. Append(seen, Head(queue)) \o Tail(queue) = seen \o queue
      BY <1>3, <1>7, PopKeepsFifo
    <2> QED
      BY <1>2, <1>7, <2>1, <2>2 DEF Unseen
  <1>8. CASE next_event \/ PollFuture
    BY <1>3, <1>4, <1>7, <1>8 DEF next_event, PollFuture, Goto, Threads
  <1>9. CASE HandledReturns
    BY <1>3, <1>4, <1>9 DEF HandledReturns, Goto, Threads
  <1>10. CASE RegisterWaker
    BY <1>3, <1>4, <1>10 DEF RegisterWaker, Goto, Threads
  <1>11. ASSUME NEW t \in Threads, ThreadStep(t) PROVE (seen \o Unseen = pushed)'
    BY <1>3, <1>4, <1>11 DEF ThreadStep, persist_queue, LockWaker, WakeConsumer, Goto, Threads
  <1>12. ASSUME NEW p \in Producers, KeepLeg(p) \/ AddReturns(p)
         PROVE  (seen \o Unseen = pushed)'
    BY <1>3, <1>4, <1>12 DEF KeepLeg, AddReturns, Goto, Threads, Producers
  <1>13. CASE Restart
    BY <1>13 DEF Restart, Unseen, Threads
  <1>14. CASE UNCHANGED queueVars
    BY <1>4, <1>14 DEF queueVars
  <1> QED
    BY <1>5, <1>6, <1>8, <1>9, <1>10, <1>11, <1>12, <1>13, <1>14 DEF QueueNext, AppStep

\* The persisted queue follows the queue in memory.
LEMMA DiskStep ==
  ASSUME QueueTypes, DiskTracksQueue, [QueueNext]_queueVars
  PROVE  DiskTracksQueue'
  <1>1. CASE event_handled
    BY <1>1 DEF event_handled, DiskTracksQueue, Open
  <1>2. ASSUME NEW p \in Producers, push_event(p) PROVE DiskTracksQueue'
    BY <1>2 DEF push_event, DiskTracksQueue, Open, Producers
  <1>3. CASE Restart
    BY <1>3 DEF Restart, DiskTracksQueue, QueueTypes
  <1>4. ASSUME NEW t \in Threads, persist_queue(t) PROVE DiskTracksQueue'
    BY <1>4 DEF persist_queue, DiskTracksQueue
  <1>5. CASE UNCHANGED <<onDisk, queue, qlock, lastOk, restarts>>
    BY <1>5 DEF DiskTracksQueue
  <1> QED
    BY <1>1, <1>2, <1>3, <1>4, <1>5
       DEF QueueNext, AppStep, ThreadStep, next_event, PollFuture, Retrieve, RegisterWaker,
           HandledReturns, KeepLeg, AddReturns, LockWaker, WakeConsumer, queueVars

\* A producer keeps working on an event that is in the queue until written.
LEMMA ReportsStep ==
  ASSUME QueueTypes, ReportsInFlight, [QueueNext]_queueVars
  PROVE  ReportsInFlight'
  <1> USE DEF ReportsInFlight
  <1>1. CASE event_handled
    BY <1>1 DEF event_handled, Goto, QueueTypes, Producers, Threads, Open
  <1>2. ASSUME NEW p \in Producers, push_event(p) PROVE ReportsInFlight'
    <2>1. Head(todo[p]) \in Events /\ pc \in [Threads -> Labels] /\ qlock = Open
      BY <1>2 DEF push_event, QueueTypes
    <2>2. /\ ToSet(queue') = ToSet(queue) \cup {Head(todo[p])}
          /\ ToSet(pushed') = ToSet(pushed) \cup {Head(todo[p])}
      BY <1>2, <2>1, AppendSet DEF push_event, QueueTypes
    <2>3. pc' = [pc EXCEPT ![p] = "persist"] /\ UNCHANGED <<todo, durable, kept>>
      BY <1>2 DEF push_event, Goto
    <2> QED
      BY <2>1, <2>2, <2>3 DEF Producers, Threads
  <1>3. CASE Restart
    BY <1>3 DEF Restart, Producers, Threads
  <1>4. ASSUME NEW t \in Threads, persist_queue(t) PROVE ReportsInFlight'
    <2>1. /\ pc[t] = "persist" /\ pc \in [Threads -> Labels]
          /\ UNCHANGED <<queue, todo, pushed, kept>>
      BY <1>4 DEF persist_queue, QueueTypes
    <2>2. CASE pc' = [pc EXCEPT ![t] = "wake"] /\ durable' = durable \cup ToSet(queue)
      BY <2>1, <2>2 DEF Producers, Threads
    <2>3. CASE pc' = [pc EXCEPT ![t] = "err"] /\ durable' = durable
      BY <2>1, <2>3 DEF Producers, Threads
    <2> QED
      BY <1>4, <2>2, <2>3 DEF persist_queue, Goto
  <1>5. ASSUME NEW p \in Producers, AddReturns(p) PROVE ReportsInFlight'
    <2>1. /\ pc' = [pc EXCEPT ![p] = "idle"] /\ pc \in [Threads -> Labels]
          /\ UNCHANGED <<queue, pushed, kept, durable>>
      BY <1>5 DEF AddReturns, Goto, QueueTypes
    <2>2. \A q \in Producers \ {p} : todo'[q] = todo[q]
      BY <1>5 DEF AddReturns, QueueTypes
    <2> QED
      BY <2>1, <2>2 DEF Producers, Threads
  <1>6. ASSUME NEW t \in Threads, LockWaker(t) PROVE ReportsInFlight'
    BY <1>6 DEF LockWaker, Goto, QueueTypes, Producers, Threads
  <1>7. ASSUME NEW t \in Threads, WakeConsumer(t) PROVE ReportsInFlight'
    BY <1>7 DEF WakeConsumer, QueueTypes, Producers, Threads
  <1>8. ASSUME NEW l, Goto("app", l), UNCHANGED <<queue, todo, pushed, kept, durable>>
        PROVE  ReportsInFlight'
    BY <1>8 DEF Goto, QueueTypes, Producers, Threads
  <1>9. CASE UNCHANGED queueVars
    BY <1>9 DEF queueVars
  <1>11. ASSUME NEW p \in Producers, KeepLeg(p) PROVE ReportsInFlight'
    BY <1>11 DEF KeepLeg, Goto, QueueTypes, Producers, Threads
  <1>10. CASE next_event \/ PollFuture \/ RegisterWaker \/ HandledReturns
    BY <1>8, <1>10 DEF next_event, PollFuture, Retrieve, RegisterWaker, HandledReturns
  <1> QED
    BY <1>1, <1>2, <1>3, <1>4, <1>5, <1>6, <1>7, <1>9, <1>10, <1>11 DEF QueueNext, AppStep, ThreadStep

\* LDK's events are acknowledged only after they are safe.
LEMMA AckedStep ==
  ASSUME QueueTypes, ReportsInFlight, AckedIsDurable, [QueueNext]_queueVars
  PROVE  AckedIsDurable'
  <1> USE DEF AckedIsDurable
  <1>1. ASSUME NEW p \in Producers, AddReturns(p) PROVE AckedIsDurable'
    <2>1. /\ Head(todo[p]) \in ToSet(pushed) \cup kept
          /\ pc[p] = "ok" => Head(todo[p]) \in durable \cup kept
      BY <1>1 DEF AddReturns, ReportsInFlight
    <2>2. \/ acked' = acked
          \/ /\ acked' = acked \cup {Head(todo[p])}
             /\ pc[p] = "ok" \/ Head(todo[p]) \in Received
      BY <1>1 DEF AddReturns, Acknowledges, Producers
    <2>3. UNCHANGED <<durable, pushed, kept, restarts>>
      BY <1>1 DEF AddReturns
    <2> QED
      BY <2>1, <2>2, <2>3
  <1>2. ASSUME NEW p \in Producers, push_event(p) PROVE AckedIsDurable'
    <2>1. Head(todo[p]) \in Events
      BY <1>2 DEF push_event, QueueTypes
    <2>2. ToSet(pushed') = ToSet(pushed) \cup {Head(todo[p])}
      BY <1>2, <2>1, AppendSet DEF push_event, QueueTypes
    <2> QED
      BY <1>2, <2>2 DEF push_event
  <1>3. CASE Restart
    BY <1>3 DEF Restart, QueueTypes
  <1>4. ASSUME NEW t \in Threads, persist_queue(t) PROVE AckedIsDurable'
    BY <1>4 DEF persist_queue
  <1>5. CASE UNCHANGED <<acked, durable, pushed, restarts>> /\ kept \subseteq kept'
    BY <1>5
  <1> QED
    BY <1>1, <1>2, <1>3, <1>4, <1>5
       DEF QueueNext, AppStep, ThreadStep, next_event, PollFuture, Retrieve, RegisterWaker,
           HandledReturns, KeepLeg, event_handled, LockWaker, WakeConsumer, queueVars

\* The queue's invariant holds in every reachable state of the event queue.
THEOREM QueueInvariant == QueueSpec => []QueueInv
  <1>1. QueueInit => QueueInv
    <2> SUFFICES ASSUME QueueInit PROVE QueueInv
      OBVIOUS
    <2>1. QueueTypes
      BY InitTypes
    <2>2. InHand /\ FifoWithoutLoss /\ DiskTracksQueue
      BY DEF QueueInit, InHand, FifoWithoutLoss, Unseen, DiskTracksQueue, Threads
    <2>3. ReportsInFlight /\ AckedIsDurable
      BY DEF QueueInit, ReportsInFlight, AckedIsDurable, Producers, Threads
    <2> QED
      BY <2>1, <2>2, <2>3 DEF QueueInv
  <1>2. QueueInv /\ [QueueNext]_queueVars => QueueInv'
    BY NextTypes, InHandStep, FifoStep, DiskStep, ReportsStep, AckedStep DEF QueueInv
  <1> QED
    BY <1>1, <1>2, PTL DEF QueueSpec

\* push_event and event_handled lose, reorder and invent nothing: for every
\* schedule of producers, failing writes and restarts, an application that
\* confirms each event once has retrieved a prefix of what was pushed, and the
\* rest is queued.
THEOREM QueueIsFifo == QueueSpec => []FifoWithoutLoss
  BY QueueInvariant, PTL DEF QueueInv

\* Whenever the queue's lock is free and the last write succeeded, the disk
\* holds the queue (push_event and event_handled persist under the lock).
THEOREM QueueOnDisk == QueueSpec => []DiskTracksQueue
  BY QueueInvariant, PTL DEF QueueInv

\* LDK's event is acknowledged only once the wallet's own event has been
\* written, except for PaymentReceived, whose error is only logged, and for a
\* leg's event that add_event recorded or buffered and did not queue.
THEOREM AckAfterPersist == QueueSpec => []AckedIsDurable
  BY QueueInvariant, PTL DEF QueueInv
=============================================================================
