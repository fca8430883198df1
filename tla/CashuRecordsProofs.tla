-------------------------- MODULE CashuRecordsProofs --------------------------
(***************************************************************************)
(* TLAPS proofs about CashuRecords, for any tasks, transactions and keys   *)
(* and any bounds.  A behaviour stays in the workload it started with, so  *)
(* each workload but the mints' has an inductive invariant of its own,     *)
(* which the steps of the others cannot disturb because they cannot be     *)
(* taken.  KeysetsKept is left to TLC.                                     *)
(***************************************************************************)
EXTENDS CashuRecords, TLAPS, FiniteSetTheorems

(***************************************************************************)
(* The workload.                                                           *)
(***************************************************************************)

QuoteStep == \E t \in Tasks :
    \/ GetQuote(t) \/ AddQuote(t) \/ RefuseQuote(t) \/ WriteQuote(t) \/ ReserveQuote(t)
    \/ ReleaseQuote(t) \/ WriteReservation(t) \/ RemoveQuote(t)

SagaStep == \E t \in Tasks :
    AddSaga(t) \/ GetSaga(t) \/ UpdateSaga(t) \/ WriteSaga(t) \/ DeleteSaga(t)

CounterStep == \E t \in Tasks : ReadCounter(t) \/ WriteCounter(t)

HistoryStep ==
    \/ \E t \in Tasks : add_transaction(t) \/ remove_transaction(t)
    \/ ListKeys \/ MarkMigrated
    \/ \E k \in DOMAIN txs : SkipKey(k) \/ CopyRecord(k) \/ RemoveOld(k) \/ Conflict(k)

MintsStep == \E t \in Tasks : MintCall(t) \/ MintStep(t)

ReadsStep == \E t \in Tasks : StartReads(t) \/ JoinRead(t)

\* A task is in a call of the workload, and only the history has a migration.
WorkInv ==
    /\ work \in Workloads
    /\ call = [t \in Tasks |-> call[t]]
    /\ \A t \in Tasks :
          /\ call[t].pc \in {"quote", "mark"} => work = "quotes"
          /\ call[t].pc = "saga" => work = "sagas"
          /\ call[t].pc = "count" => work = "counters"
          /\ call[t].pc = "mint" => work = "mints"
          /\ call[t].pc = "reads" => work = "reads"
          /\ "pc" \in DOMAIN call[t]
    /\ work # "history" => boot = Running

\* A step belongs to the workload, which it does not change, or is a crash.
Belongs ==
    /\ work' = work
    /\ \/ work = "quotes" /\ QuoteStep
       \/ work = "sagas" /\ SagaStep
       \/ work = "counters" /\ CounterStep
       \/ work = "history" /\ HistoryStep
       \/ work = "mints" /\ MintsStep
       \/ work = "reads" /\ ReadsStep
       \/ Crash

\* Each action is enabled in its own workload only.
LEMMA StepBelongs == WorkInv /\ Next => Belongs
  <1> SUFFICES ASSUME WorkInv, Next PROVE Belongs
    OBVIOUS
  <1>0. boot.pc # "running" => work = "history"
    BY DEF WorkInv, Running
  <1>1. ASSUME NEW t \in Tasks, GetQuote(t) \/ AddQuote(t) \/ RefuseQuote(t) \/ WriteQuote(t) \/ ReserveQuote(t)
                 \/ ReleaseQuote(t) \/ WriteReservation(t) \/ RemoveQuote(t)
        PROVE  Belongs
    <2>1. work = "quotes" /\ work' = work
      BY <1>1 DEF WorkInv, Ready, GetQuote, AddQuote, RefuseQuote, WriteQuote, ReserveQuote,
                  ReleaseQuote, WriteReservation, RemoveQuote
    <2> QED
      BY <1>1, <2>1 DEF Belongs, QuoteStep
  <1>2. ASSUME NEW t \in Tasks, AddSaga(t) \/ GetSaga(t) \/ UpdateSaga(t) \/ WriteSaga(t) \/ DeleteSaga(t)
        PROVE  Belongs
    <2>1. work = "sagas" /\ work' = work
      BY <1>2 DEF WorkInv, Ready, AddSaga, GetSaga, UpdateSaga, WriteSaga, DeleteSaga
    <2> QED
      BY <1>2, <2>1 DEF Belongs, SagaStep
  <1>3. ASSUME NEW t \in Tasks, ReadCounter(t) \/ WriteCounter(t)
        PROVE  Belongs
    <2>1. work = "counters" /\ work' = work
      BY <1>3 DEF WorkInv, Ready, ReadCounter, WriteCounter
    <2> QED
      BY <1>3, <2>1 DEF Belongs, CounterStep
  <1>4. ASSUME NEW t \in Tasks, add_transaction(t) \/ remove_transaction(t)
        PROVE  Belongs
    <2>1. work = "history" /\ work' = work
      BY <1>4 DEF WorkInv, Ready, add_transaction, remove_transaction
    <2> QED
      BY <1>4, <2>1 DEF Belongs, HistoryStep
  <1>5. ASSUME NEW t \in Tasks, MintCall(t) \/ MintStep(t)
        PROVE  Belongs
    <2>1. work = "mints" /\ work' = work
      BY <1>5 DEF WorkInv, Ready, MintCall, StartMint, MintStep
    <2> QED
      BY <1>5, <2>1 DEF Belongs, MintsStep
  <1>6. ASSUME NEW t \in Tasks, StartReads(t) \/ JoinRead(t)
        PROVE  Belongs
    <2>1. work = "reads" /\ work' = work
      BY <1>6 DEF WorkInv, Ready, StartReads, JoinRead
    <2> QED
      BY <1>6, <2>1 DEF Belongs, ReadsStep
  <1>7. CASE ListKeys \/ MarkMigrated
    <2>1. work = "history" /\ work' = work
      BY <1>0, <1>7 DEF ListKeys, MarkMigrated
    <2> QED
      BY <1>7, <2>1 DEF Belongs, HistoryStep
  <1>8. ASSUME NEW k \in DOMAIN txs, SkipKey(k) \/ CopyRecord(k) \/ RemoveOld(k) \/ Conflict(k)
        PROVE  Belongs
    <2>1. work = "history" /\ work' = work
      BY <1>0, <1>8 DEF SkipKey, CopyRecord, RemoveOld, Conflict, Pending
    <2> QED
      BY <1>8, <2>1 DEF Belongs, HistoryStep
  <1>9. CASE Crash
    BY <1>9 DEF Belongs, Crash
  <1> QED
    BY <1>1, <1>2, <1>3, <1>4, <1>5, <1>6, <1>7, <1>8, <1>9 DEF Next

\* A task that goes on does not touch the other tasks' calls.
LEMMA GotoCall ==
  ASSUME NEW t \in Tasks, NEW c, call = [u \in Tasks |-> call[u]], Goto(t, c)
  PROVE  /\ call'[t] = c
         /\ \A u \in Tasks : u # t => call'[u] = call[u]
         /\ call' = [u \in Tasks |-> call'[u]]
  BY DEF Goto

\* A database that was just opened has no call under way.
LEMMA InitWork == Init => WorkInv
  BY DEF Init, WorkInv, Idle, Running

\* Every step keeps the workload and its calls.
LEMMA NextWork == WorkInv /\ [Next]_vars => WorkInv'
  <1> SUFFICES ASSUME WorkInv, [Next]_vars PROVE WorkInv'
    OBVIOUS
  <1>1. CASE UNCHANGED vars
    BY <1>1 DEF WorkInv, vars, memory
  <1>2. CASE Crash
    BY <1>2 DEF WorkInv, Crash, Idle, Running
  <1>3. CASE work = "quotes" /\ QuoteStep /\ work' = work
    <2>1. PICK t \in Tasks :
              \/ GetQuote(t) \/ AddQuote(t) \/ RefuseQuote(t) \/ WriteQuote(t) \/ ReserveQuote(t)
              \/ ReleaseQuote(t) \/ WriteReservation(t) \/ RemoveQuote(t)
      BY <1>3 DEF QuoteStep
    <2>2. CASE call' = call /\ boot' = boot
      BY <1>3, <2>2 DEF WorkInv
    <2>3. CASE AddQuote(t)
      BY <1>3, <2>3 DEF AddQuote, WorkInv, Goto
    <2>4. CASE WriteQuote(t) \/ WriteReservation(t)
      BY <1>3, <2>4 DEF WriteQuote, WriteReservation, WorkInv, Goto, Idle
    <2>5. CASE ReserveQuote(t) \/ ReleaseQuote(t)
      BY <1>3, <2>5 DEF ReserveQuote, ReleaseQuote, WorkInv, Goto
    <2> QED
      BY <2>1, <2>2, <2>3, <2>4, <2>5 DEF GetQuote, RefuseQuote, RemoveQuote
  <1>4. CASE work = "sagas" /\ SagaStep /\ work' = work
    BY <1>4 DEF SagaStep, AddSaga, GetSaga, UpdateSaga, WriteSaga, DeleteSaga, WorkInv, Goto, Idle
  <1>5. CASE work = "counters" /\ CounterStep /\ work' = work
    BY <1>5 DEF CounterStep, ReadCounter, WriteCounter, WorkInv, Goto, Idle
  <1>6. CASE work = "history" /\ HistoryStep /\ work' = work
    <2>1. call' = call
      BY <1>6 DEF HistoryStep, add_transaction, remove_transaction, ListKeys, MarkMigrated,
                  SkipKey, CopyRecord, RemoveOld, Conflict
    <2> QED
      BY <1>6, <2>1 DEF WorkInv
  <1>7. CASE work = "mints" /\ MintsStep /\ work' = work
    <2>1. PICK t \in Tasks : MintCall(t) \/ MintStep(t)
      BY <1>7 DEF MintsStep
    <2>2. CASE MintCall(t)
      <3>1. PICK urls, steps, grant, lost : StartMint(t, urls, steps, grant, lost)
        BY <2>2 DEF MintCall
      <3> DEFINE c == [pc |-> "mint", urls |-> urls, todo |-> steps, read |-> {}, grant |-> grant]
      <3>2. c.pc = "mint" /\ "pc" \in DOMAIN c
        OBVIOUS
      <3>3. boot' = boot /\ Goto(t, c)
        BY <3>1 DEF StartMint
      <3> HIDE DEF c
      <3> QED
        BY <1>7, <3>2, <3>3 DEF WorkInv, Goto
    <2>3. CASE MintStep(t)
      <3> DEFINE s == Head(call[t].todo)
                 c == [call[t] EXCEPT !.todo = Rest(s, call[t].todo),
                                      !.read = IF s.do = "gather" THEN mints[s.url].keysets ELSE @]
      <3>1. boot' = boot /\ (Goto(t, Idle) \/ Goto(t, c))
        BY <2>3 DEF MintStep
      <3>2. c.pc = call[t].pc /\ "pc" \in DOMAIN c
        BY DEF WorkInv
      <3> HIDE DEF c
      <3> QED
        BY <1>7, <3>1, <3>2 DEF WorkInv, Goto, Idle
    <2> QED
      BY <2>1, <2>2, <2>3
  <1>8. CASE work = "reads" /\ ReadsStep /\ work' = work
    <2>1. PICK t \in Tasks : StartReads(t) \/ JoinRead(t)
      BY <1>8 DEF ReadsStep
    <2>2. CASE StartReads(t)
      BY <1>8, <2>2 DEF StartReads, WorkInv, Goto
    <2>3. CASE JoinRead(t)
      <3> DEFINE c(i) == [call[t] EXCEPT !.flying = TakeNext(call[t], i),
                                         !.results = [call[t].results EXCEPT ![PlaceOf(call[t].results, i)] = i]]
      <3>1. boot' = boot /\ (Goto(t, Idle) \/ \E i : Goto(t, c(i)))
        BY <2>3 DEF JoinRead, Goto
      <3>2. \A i : c(i).pc = call[t].pc /\ "pc" \in DOMAIN c(i)
        BY DEF WorkInv
      <3> HIDE DEF c
      <3> QED
        BY <1>8, <3>1, <3>2 DEF WorkInv, Goto, Idle
    <2> QED
      BY <2>1, <2>2, <2>3
  <1> QED
    BY <1>1, <1>2, <1>3, <1>4, <1>5, <1>6, <1>7, <1>8, StepBelongs DEF Belongs

\* The workload of a behaviour never changes, and its tasks are in its calls.
THEOREM WorkAlways == Spec => []WorkInv
  <1> QED
    BY InitWork, NextWork, PTL DEF Spec

(***************************************************************************)
(* Counters.                                                               *)
(***************************************************************************)

\* No index above the counter was handed out, and the task that holds the lock
\* has read the counter as it is.
CounterInv == work = "counters" =>
    /\ counter \in Nat
    /\ handed \in Seq(SUBSET Nat)
    /\ \A i \in DOMAIN handed : \A n \in handed[i] : n <= counter
    /\ \A i, j \in DOMAIN handed : i # j => handed[i] \cap handed[j] = {}
    /\ \A t \in Tasks : call[t].pc = "count" =>
          counterLock = t /\ call[t].old = counter /\ call[t].new \in Nat /\ counter <= call[t].new

\* Nothing is handed out at the start.
LEMMA InitCounter == Init => CounterInv
  BY DEF Init, CounterInv, Idle

\* Every step keeps the counters' invariant.
LEMMA NextCounter == WorkInv /\ CounterInv /\ [Next]_vars => CounterInv'
  <1> SUFFICES ASSUME WorkInv, CounterInv, [Next]_vars, work' = work, work = "counters"
               PROVE  CounterInv'
    BY StepBelongs DEF CounterInv, Belongs, vars
  <1>0. None \notin Tasks
    BY RecordsAssumption
  <1>1. CASE UNCHANGED vars
    BY <1>1 DEF CounterInv, vars, disk, locks, memory, history
  <1>2. CASE Crash
    BY <1>2 DEF CounterInv, Crash, disk, Idle
  <1>3. ASSUME NEW t \in Tasks, ReadCounter(t)
        PROVE  CounterInv'
    <2>1. counter' = counter /\ handed' = handed /\ counterLock' = t /\ counterLock = None
      BY <1>3 DEF ReadCounter, disk, history
    <2>2. PICK count \in 1..2 : Goto(t, [pc |-> "count", old |-> counter, new |-> counter + count])
      BY <1>3 DEF ReadCounter
    <2>3. \A u \in Tasks : call[u].pc # "count"
      BY <1>0, <2>1 DEF CounterInv
    <2> QED
      BY <2>1, <2>2, <2>3, GotoCall DEF CounterInv, WorkInv
  <1>4. ASSUME NEW t \in Tasks, WriteCounter(t)
        PROVE  CounterInv'
    <2>1. \A u \in Tasks : call'[u].pc # "count"
      <3>1. Goto(t, Idle) /\ counterLock = t
        BY <1>4 DEF WriteCounter, CounterInv
      <3> QED
        BY <3>1, GotoCall DEF CounterInv, WorkInv, Idle
    <2>2. /\ counter \in Nat /\ call[t].old = counter /\ call[t].new \in Nat /\ counter <= call[t].new
          /\ handed \in Seq(SUBSET Nat)
      BY <1>4 DEF WriteCounter, CounterInv
    <2>3. CASE handed' = handed /\ counter' \in {counter, call[t].new}
      BY <2>1, <2>2, <2>3 DEF CounterInv
    <2>4. CASE handed' = Append(handed, counter + 1 .. call[t].new) /\ counter' = call[t].new
      <3>1. /\ handed' \in Seq(SUBSET Nat)
            /\ DOMAIN handed' = DOMAIN handed \cup {Len(handed) + 1}
            /\ Len(handed) + 1 \notin DOMAIN handed
            /\ \A i \in DOMAIN handed : handed'[i] = handed[i]
            /\ handed'[Len(handed) + 1] = counter + 1 .. call[t].new
        BY <2>2, <2>4
      <3>2. \A i \in DOMAIN handed : \A n \in handed[i] : n \in Nat /\ n <= counter
        BY <2>2 DEF CounterInv
      <3>3. \A i \in DOMAIN handed' : \A n \in handed'[i] : n <= counter'
        BY <2>2, <2>4, <3>1, <3>2
      <3>4. \A i, j \in DOMAIN handed' : i # j => handed'[i] \cap handed'[j] = {}
        <4>1. \A i \in DOMAIN handed : handed[i] \cap (counter + 1 .. call[t].new) = {}
          BY <2>2, <3>2
        <4> QED
          BY <3>1, <4>1 DEF CounterInv
      <3> QED
        BY <2>1, <2>2, <2>4, <3>1, <3>3, <3>4 DEF CounterInv
    <2> QED
      BY <1>4, <2>2, <2>3, <2>4 DEF WriteCounter, Landed, Outcomes
  <1> QED
    BY <1>1, <1>2, <1>3, <1>4, StepBelongs DEF Belongs, CounterStep

\* No index of a counter is ever handed out twice, whatever fails.
THEOREM CounterSafe == Spec => []CountersNotReused
  <1>1. CounterInv => CountersNotReused
    BY DEF CounterInv, CountersNotReused
  <1> QED
    BY <1>1, InitWork, NextWork, InitCounter, NextCounter, PTL DEF Spec

(***************************************************************************)
(* Sagas.                                                                  *)
(***************************************************************************)

\* No version above the saga's was granted, and the task that holds the lock
\* takes the saga as it is to the next version.
SagaInv == work = "sagas" =>
    /\ saga \in [version : Nat] \cup {None}
    /\ granted \subseteq Tasks \X Nat
    /\ \A g, h \in granted : g[2] = h[2] => g = h
    /\ saga # None => \A g \in granted : g[2] <= saga.version
    /\ \A t \in Tasks : call[t].pc = "saga" =>
          recordsLock = t /\ saga # None /\ call[t].new = [version |-> saga.version + 1]

\* There is no saga at the start.
LEMMA InitSaga == Init => SagaInv
  BY DEF Init, SagaInv, Idle

\* Every step keeps the sagas' invariant.
LEMMA NextSaga == WorkInv /\ SagaInv /\ [Next]_vars => SagaInv'
  <1> SUFFICES ASSUME WorkInv, SagaInv, [Next]_vars, work' = work, work = "sagas"
               PROVE  SagaInv'
    BY StepBelongs DEF SagaInv, Belongs, vars
  <1>0. None \notin Tasks
    BY RecordsAssumption
  <1>1. CASE UNCHANGED vars
    BY <1>1 DEF SagaInv, vars, disk, locks, memory, history
  <1>2. CASE Crash
    BY <1>2 DEF SagaInv, Crash, disk, Idle
  <1>3. ASSUME NEW t \in Tasks, AddSaga(t)
        PROVE  SagaInv'
    <2>1. /\ granted = {} /\ granted' = {} /\ call' = call /\ recordsLock = None
          /\ saga' \in {saga, [version |-> 0]}
      BY <1>3 DEF AddSaga, history, Landed
    <2>2. \A u \in Tasks : call[u].pc # "saga"
      BY <1>0, <2>1 DEF SagaInv
    <2> QED
      BY <2>1, <2>2 DEF SagaInv
  <1>4. ASSUME NEW t \in Tasks, GetSaga(t)
        PROVE  SagaInv'
    BY <1>4 DEF GetSaga, SagaInv, disk, locks, history
  <1>5. ASSUME NEW t \in Tasks, UpdateSaga(t)
        PROVE  SagaInv'
    <2>1. /\ saga' = saga /\ granted' = granted /\ recordsLock = None /\ recordsLock' = t /\ saga # None
          /\ Goto(t, [pc |-> "saga", new |-> [version |-> saga.version + 1]])
      BY <1>5 DEF UpdateSaga, disk, history
    <2>2. \A u \in Tasks : call[u].pc # "saga"
      BY <1>0, <2>1 DEF SagaInv
    <2> QED
      BY <2>1, <2>2, GotoCall DEF SagaInv, WorkInv
  <1>6. ASSUME NEW t \in Tasks, WriteSaga(t)
        PROVE  SagaInv'
    <2>1. /\ recordsLock = t /\ saga # None /\ saga \in [version : Nat]
          /\ call[t].new = [version |-> saga.version + 1]
      BY <1>6 DEF WriteSaga, SagaInv
    <2>2. \A u \in Tasks : call'[u].pc # "saga"
      <3>1. Goto(t, Idle)
        BY <1>6 DEF WriteSaga
      <3> QED
        BY <2>1, <3>1, GotoCall DEF SagaInv, WorkInv, Idle
    <2>3. CASE granted' = granted /\ saga' = saga
      BY <2>2, <2>3 DEF SagaInv
    <2>4. CASE granted' = granted /\ saga' = [version |-> saga.version + 1]
      BY <2>1, <2>2, <2>4 DEF SagaInv
    <2>5. CASE granted' = granted \cup {<<t, saga.version + 1>>} /\ saga' = [version |-> saga.version + 1]
      <3>1. \A g \in granted : g[2] \in Nat /\ g[2] <= saga.version
        BY <2>1 DEF SagaInv
      <3>2. \A g, h \in granted' : g[2] = h[2] => g = h
        BY <2>1, <2>5, <3>1 DEF SagaInv
      <3>3. granted' \subseteq Tasks \X Nat /\ \A g \in granted' : g[2] <= saga'.version
        BY <2>1, <2>5, <3>1 DEF SagaInv
      <3> QED
        BY <2>1, <2>2, <2>5, <3>2, <3>3 DEF SagaInv
    <2> QED
      BY <1>6, <2>1, <2>3, <2>4, <2>5 DEF WriteSaga, Landed, Outcomes
  <1>7. ASSUME NEW t \in Tasks, DeleteSaga(t)
        PROVE  SagaInv'
    <2>1. granted' = granted /\ call' = call /\ recordsLock = None /\ saga' \in {saga, None}
      BY <1>7 DEF DeleteSaga, history, Landed
    <2>2. \A u \in Tasks : call[u].pc # "saga"
      BY <1>0, <2>1 DEF SagaInv
    <2> QED
      BY <2>1, <2>2 DEF SagaInv
  <1> QED
    BY <1>1, <1>2, <1>3, <1>4, <1>5, <1>6, <1>7, StepBelongs DEF Belongs, SagaStep

\* Of the tasks that try to take a saga to its next version, one is told that
\* it did.
THEOREM SagaSafe == Spec => []SagaStepOnce
  <1>1. SagaInv => SagaStepOnce
    BY DEF SagaInv, SagaStepOnce
  <1> QED
    BY <1>1, InitWork, NextWork, InitSaga, NextSaga, PTL DEF Spec

(***************************************************************************)
(* Quotes.                                                                 *)
(***************************************************************************)

\* Quotes are well formed, and a task that is about to write one holds the lock.
QuoteTypes ==
    /\ quote \in Quote \cup {None}
    /\ snap \in [Tasks -> Quote \cup {None}]
    /\ \A t \in Tasks : call[t].pc \in {"quote", "mark"} => recordsLock = t /\ call[t].new \in Quote
    /\ \A t \in Tasks : call[t].pc = "mark" => quote # None

\* The operation that was told the quote is its own is the one in the quote,
\* and while a reservation is written or taken back there is none.
ReservationInv == excuses = {} =>
    /\ granted \subseteq Tasks
    /\ \A g \in granted : quote # None /\ quote.by = g
    /\ \A t \in Tasks : call[t].pc = "mark" =>
          granted = {} /\ (call[t].grant => call[t].new.by = t)

\* What a quote has recorded.
Recorded(q) == q.marks \cup (IF q.proof THEN {"proof"} ELSE {})

\* A snapshot of the stored version has the marks of the stored quote, and what
\* is about to be written has everything the stored quote has recorded.
UpdateInv == "removed" \notin excuses =>
    /\ quote = None => kept = {}
    /\ quote # None => kept \subseteq Recorded(quote)
    /\ \A t \in Tasks : snap[t] # None =>
          /\ quote # None /\ snap[t].version <= quote.version
          /\ snap[t].version = quote.version => snap[t].marks = quote.marks
    /\ \A t \in Tasks : call[t].pc = "quote" /\ quote # None =>
          /\ call[t].new.version = quote.version + 1
          /\ Recorded(quote) \subseteq Recorded(call[t].new)
    /\ \A t \in Tasks : call[t].pc = "mark" =>
          /\ call[t].new.version = quote.version
          /\ call[t].new.marks = quote.marks
          /\ Recorded(call[t].new) = Recorded(quote)

QuoteInv ==
    /\ work # "quotes" => quote = None
    /\ work = "quotes" => QuoteTypes /\ ReservationInv /\ UpdateInv

\* There is no quote at the start.
LEMMA InitQuote == Init => QuoteInv
  BY DEF Init, QuoteInv, QuoteTypes, ReservationInv, UpdateInv, Idle

\* A task takes the lock, or lets it go, and then nobody else has it.
LEMMA LockedAlone ==
  ASSUME QuoteTypes, NEW t \in Tasks, recordsLock \in {None, t}
  PROVE  \A u \in Tasks : u # t => call[u].pc \notin {"quote", "mark"}
  <1>1. None \notin Tasks
    BY RecordsAssumption
  <1> QED
    BY <1>1 DEF QuoteTypes

\* What AddQuote is about to write: a quote, and over a stored one its next
\* version with everything the stored one has recorded.
LEMMA ProposedQuote ==
  ASSUME QuoteTypes, NEW t \in Tasks, NEW new \in Proposed(t)
  PROVE  /\ new \in Quote
         /\ quote # None /\ SameVersion(quote, new) =>
              /\ NextQuote(quote, new) \in Quote
              /\ NextQuote(quote, new).version = quote.version + 1
              /\ UpdateInv /\ "removed" \notin excuses =>
                    Recorded(quote) \subseteq Recorded(NextQuote(quote, new))
  <1>1. CASE snap[t] = None
    <2>1. quote = None /\ new = [version |-> 0, by |-> None, marks |-> {t}, proof |-> FALSE]
      BY <1>1 DEF Proposed
    <2> QED
      BY <2>1 DEF Quote
  <1>2. CASE snap[t] # None
    <2>1. snap[t] \in Quote
      BY <1>2 DEF QuoteTypes
    <2>2. PICK p \in BOOLEAN : new = [snap[t] EXCEPT !.marks = @ \cup {t}, !.proof = p]
      BY <1>2 DEF Proposed
    <2>3. /\ new \in Quote /\ new.version = snap[t].version
          /\ new.marks = snap[t].marks \cup {t}
      BY <2>1, <2>2 DEF Quote
    <2>4. ASSUME quote # None, SameVersion(quote, new)
          PROVE  /\ NextQuote(quote, new) \in Quote
                 /\ NextQuote(quote, new).version = quote.version + 1
                 /\ UpdateInv /\ "removed" \notin excuses =>
                       Recorded(quote) \subseteq Recorded(NextQuote(quote, new))
      <3>1. quote \in Quote
        BY <2>4 DEF QuoteTypes
      <3>2. /\ NextQuote(quote, new) \in Quote
            /\ NextQuote(quote, new).version = new.version + 1
            /\ NextQuote(quote, new).marks = new.marks
            /\ quote.proof => NextQuote(quote, new).proof
        <4>1. PICK v, b : v = new.version + 1 /\ b = (new.proof \/ quote.proof)
          OBVIOUS
        <4>2. v \in Nat /\ b \in BOOLEAN
          BY <2>3, <3>1, <4>1 DEF Quote
        <4>3. NextQuote(quote, new) = [new EXCEPT !.version = v, !.proof = b]
          BY <4>1 DEF NextQuote
        <4>4. /\ NextQuote(quote, new) \in Quote
              /\ NextQuote(quote, new).version = v
              /\ NextQuote(quote, new).marks = new.marks
              /\ NextQuote(quote, new).proof = b
          BY <2>3, <4>2, <4>3 DEF Quote
        <4> QED
          BY <4>1, <4>4
      <3>3. UpdateInv /\ "removed" \notin excuses => quote.marks = snap[t].marks
        BY <1>2, <2>3, <2>4 DEF UpdateInv, SameVersion
      <3> QED
        BY <2>3, <2>4, <3>2, <3>3 DEF SameVersion, Recorded
    <2> QED
      BY <2>3, <2>4
  <1> QED
    BY <1>1, <1>2

\* Reading the quote, or giving up a snapshot, keeps the invariant.
LEMMA SnapshotQuote ==
  ASSUME QuoteInv, work = "quotes", work' = work, NEW t \in Tasks, GetQuote(t) \/ RefuseQuote(t)
  PROVE  QuoteInv'
  <1>1. UNCHANGED <<quote, call, recordsLock, granted, excuses, kept>>
    BY DEF GetQuote, RefuseQuote, disk, locks, history
  <1>2. snap' = [snap EXCEPT ![t] = quote] \/ snap' = [snap EXCEPT ![t] = None]
    BY DEF GetQuote, RefuseQuote
  <1>3. QuoteTypes'
    BY <1>1, <1>2 DEF QuoteInv, QuoteTypes
  <1>4. ReservationInv'
    BY <1>1 DEF QuoteInv, ReservationInv
  <1>5. UpdateInv'
    <2> SUFFICES ASSUME "removed" \notin excuses, NEW u \in Tasks, snap'[u] # None
                 PROVE  /\ quote # None /\ snap'[u].version <= quote.version
                        /\ snap'[u].version = quote.version => snap'[u].marks = quote.marks
      BY <1>1 DEF QuoteInv, UpdateInv
    <2>1. CASE snap'[u] = snap[u]
      BY <2>1 DEF QuoteInv, UpdateInv
    <2>2. CASE snap'[u] = quote
      BY <2>2 DEF QuoteInv, QuoteTypes, Quote
    <2> QED
      BY <1>2, <2>1, <2>2 DEF QuoteInv, QuoteTypes
  <1> QED
    BY <1>3, <1>4, <1>5 DEF QuoteInv

\* add_mint_quote and add_melt_quote take the lock.
LEMMA AddingQuote ==
  ASSUME WorkInv, QuoteInv, work = "quotes", work' = work, NEW t \in Tasks, AddQuote(t)
  PROVE  QuoteInv'
  <1> USE DEF QuoteInv
  <1>1. /\ UNCHANGED <<quote, snap, granted, excuses, kept>>
        /\ recordsLock = None /\ recordsLock' = t
    BY DEF AddQuote, disk, history
  <1>2. PICK new \in Proposed(t) :
           \/ quote = None /\ Goto(t, [pc |-> "quote", new |-> new])
           \/ /\ quote # None /\ SameVersion(quote, new)
              /\ Goto(t, [pc |-> "quote", new |-> NextQuote(quote, new)])
    BY DEF AddQuote
  <1>3. \A u \in Tasks : call[u].pc \notin {"quote", "mark"}
    BY <1>1, RecordsAssumption DEF QuoteTypes
  <1>4. /\ \A u \in Tasks : u # t => call'[u].pc \notin {"quote", "mark"}
        /\ call'[t].pc = "quote" /\ call'[t].new \in Quote
        /\ quote # None =>
              /\ call'[t].new.version = quote.version + 1
              /\ "removed" \notin excuses => Recorded(quote) \subseteq Recorded(call'[t].new)
    <2>1. CASE quote = None
      BY <1>2, <1>3, <2>1, GotoCall, ProposedQuote DEF WorkInv
    <2>2. CASE quote # None
      BY <1>2, <1>3, <2>2, GotoCall, ProposedQuote DEF WorkInv
    <2> QED
      BY <2>1, <2>2
  <1>5. QuoteTypes'
    BY <1>1, <1>4 DEF QuoteTypes
  <1>6. ReservationInv'
    BY <1>1, <1>4 DEF ReservationInv
  <1>7. UpdateInv'
    BY <1>1, <1>4 DEF UpdateInv
  <1> QED
    BY <1>5, <1>6, <1>7

\* The write of add_mint_quote and add_melt_quote.
LEMMA WritingQuote ==
  ASSUME WorkInv, QuoteInv, work = "quotes", work' = work, NEW t \in Tasks, WriteQuote(t)
  PROVE  QuoteInv'
  <1> USE DEF QuoteInv
  <1> DEFINE new == call[t].new
  <1>1. /\ recordsLock = t /\ new \in Quote /\ new # None /\ call[t].pc = "quote"
        /\ UNCHANGED <<snap, granted>>
    BY RecordsAssumption DEF WriteQuote, QuoteTypes
  <1>2. \A u \in Tasks : call'[u].pc \notin {"quote", "mark"}
    BY <1>1, LockedAlone, GotoCall DEF WriteQuote, WorkInv, Idle
  <1>3. PICK o \in Outcomes :
           /\ quote' = Landed(o, new, quote)
           /\ kept' = IF o = "ok" THEN kept \cup Recorded(new) ELSE kept
           /\ excuses' = excuses \cup (IF o # "failed" /\ quote # None /\ quote.by # new.by
                                       THEN {"clobbered"} ELSE {})
    BY DEF WriteQuote, Recorded
  <1>4. CASE quote' = quote /\ kept' = kept /\ excuses' = excuses
    BY <1>1, <1>2, <1>4 DEF QuoteTypes, ReservationInv, UpdateInv
  <1>5. CASE /\ quote' = new
             /\ kept' = kept \/ kept' = kept \cup Recorded(new)
             /\ excuses' = excuses \cup (IF quote # None /\ quote.by # new.by THEN {"clobbered"} ELSE {})
    <2>1. QuoteTypes'
      BY <1>1, <1>2, <1>5 DEF QuoteTypes
    <2>2. ReservationInv'
      BY <1>1, <1>2, <1>5 DEF ReservationInv
    <2>3. UpdateInv'
      <3> SUFFICES ASSUME "removed" \notin excuses'
                   PROVE  UpdateInv'
        BY DEF UpdateInv
      <3>1. "removed" \notin excuses
        BY <1>5
      <3>2. kept \subseteq Recorded(new)
        BY <1>1, <3>1 DEF UpdateInv
      <3>3. ASSUME NEW u \in Tasks, snap[u] # None
            PROVE  snap[u].version <= new.version /\ snap[u].version # new.version
        <4>1. /\ quote # None /\ snap[u].version <= quote.version
              /\ new.version = quote.version + 1
          BY <1>1, <3>1, <3>3 DEF UpdateInv
        <4>2. snap[u].version \in Nat /\ quote.version \in Nat
          BY <3>3, <4>1 DEF QuoteTypes, Quote
        <4> QED
          BY <4>1, <4>2
      <3>4. kept' \subseteq Recorded(quote')
        BY <1>5, <3>2
      <3> QED
        BY <1>1, <1>2, <1>5, <3>3, <3>4 DEF UpdateInv
    <2> QED
      BY <2>1, <2>2, <2>3
  <1> HIDE DEF new
  <1> QED
    BY <1>3, <1>4, <1>5 DEF Landed, Outcomes

\* reserve_..._quote and release_..._quote take the lock.
LEMMA MarkingQuote ==
  ASSUME WorkInv, QuoteInv, work = "quotes", work' = work, NEW t \in Tasks,
         ReserveQuote(t) \/ ReleaseQuote(t)
  PROVE  QuoteInv'
  <1> USE DEF QuoteInv
  <1>1. /\ UNCHANGED <<quote, snap, excuses, kept>> /\ quote # None
        /\ recordsLock = None /\ recordsLock' = t
    BY DEF ReserveQuote, ReleaseQuote, disk, history
  <1>2. \A u \in Tasks : call[u].pc \notin {"quote", "mark"}
    BY <1>1, RecordsAssumption DEF QuoteTypes
  <1>3. quote \in Quote /\ t \in Tasks \cup {None} /\ None \notin Tasks
    BY <1>1, RecordsAssumption DEF QuoteTypes
  <1>4. PICK by \in Tasks \cup {None}, grant \in BOOLEAN :
           /\ Goto(t, [pc |-> "mark", grant |-> grant, new |-> [quote EXCEPT !.by = by]])
           /\ grant => by = t
    BY DEF ReserveQuote, ReleaseQuote
  <1>5. PICK new : new = [quote EXCEPT !.by = by]
    OBVIOUS
  <1>6. /\ new \in Quote
        /\ new.by = by
        /\ new.version = quote.version
        /\ new.marks = quote.marks
        /\ new.proof = quote.proof
    BY <1>3, <1>5 DEF Quote
  <1>a. /\ \A u \in Tasks : u # t => call'[u].pc \notin {"quote", "mark"}
        /\ call'[t].pc = "mark" /\ call'[t].grant = grant /\ call'[t].new = new
    BY <1>2, <1>4, <1>5, GotoCall DEF WorkInv
  <1>7. excuses = {} => granted' = {}
    <2>1. CASE ReserveQuote(t)
      BY <1>3, <2>1 DEF ReserveQuote, Reservable, ReservationInv, history
    <2>2. CASE ReleaseQuote(t)
      BY <1>3, <2>2 DEF ReleaseQuote, ReservationInv
    <2> QED
      BY <2>1, <2>2
  <1>8. QuoteTypes'
    BY <1>1, <1>6, <1>a DEF QuoteTypes
  <1>9. ReservationInv'
    BY <1>1, <1>4, <1>6, <1>7, <1>a DEF ReservationInv
  <1>10. UpdateInv'
    <2>1. Recorded(new) = Recorded(quote)
      BY <1>6 DEF Recorded
    <2> QED
      BY <1>1, <1>6, <1>a, <2>1 DEF UpdateInv
  <1> QED
    BY <1>8, <1>9, <1>10

\* The write of a reservation or of its release.
LEMMA WritingReservation ==
  ASSUME WorkInv, QuoteInv, work = "quotes", work' = work, NEW t \in Tasks, WriteReservation(t)
  PROVE  QuoteInv'
  <1> USE DEF QuoteInv
  <1> DEFINE new == call[t].new
  <1>1. /\ recordsLock = t /\ new \in Quote /\ new # None /\ quote # None /\ call[t].pc = "mark"
        /\ UNCHANGED <<snap, excuses, kept>>
    BY RecordsAssumption DEF WriteReservation, QuoteTypes
  <1>2. \A u \in Tasks : call'[u].pc \notin {"quote", "mark"}
    BY <1>1, LockedAlone, GotoCall DEF WriteReservation, WorkInv, Idle
  <1>3. PICK o \in Outcomes :
           /\ quote' = Landed(o, new, quote)
           /\ granted' = IF o = "ok" /\ call[t].grant THEN granted \cup {t} ELSE granted
    BY DEF WriteReservation
  <1>4. quote' \in {quote, new} /\ (o = "ok" => quote' = new)
    BY <1>3 DEF Landed
  <1>5. QuoteTypes'
    BY <1>1, <1>2, <1>4 DEF QuoteTypes
  <1>6. ReservationInv'
    BY <1>1, <1>2, <1>3, <1>4 DEF ReservationInv
  <1>7. UpdateInv'
    BY <1>1, <1>2, <1>4 DEF UpdateInv
  <1> QED
    BY <1>5, <1>6, <1>7

\* remove_mint_quote and remove_melt_quote.
LEMMA RemovingQuote ==
  ASSUME QuoteInv, work = "quotes", work' = work, NEW t \in Tasks, RemoveQuote(t)
  PROVE  QuoteInv'
  <1> USE DEF QuoteInv
  <1>1. /\ UNCHANGED <<call, snap, recordsLock, granted, kept>>
        /\ \A u \in Tasks : call[u].pc \notin {"quote", "mark"}
    BY RecordsAssumption DEF RemoveQuote, locks, QuoteTypes
  <1>2. \/ quote' = quote /\ excuses' = excuses
        \/ quote' = None /\ "removed" \in excuses'
    BY DEF RemoveQuote, Landed
  <1> QED
    BY <1>1, <1>2 DEF QuoteTypes, ReservationInv, UpdateInv

\* Every step keeps the quotes' invariant.
LEMMA NextQuotes == WorkInv /\ QuoteInv /\ [Next]_vars => QuoteInv'
  <1> SUFFICES ASSUME WorkInv, QuoteInv, [Next]_vars PROVE QuoteInv'
    OBVIOUS
  <1>1. CASE UNCHANGED vars
    BY <1>1 DEF QuoteInv, QuoteTypes, ReservationInv, UpdateInv, vars, disk, locks, memory, history
  <1>2. CASE Crash
    BY <1>2 DEF QuoteInv, QuoteTypes, ReservationInv, UpdateInv, Crash, disk, Idle
  <1>3. CASE work = "quotes" /\ work' = work /\ QuoteStep
    BY <1>3, SnapshotQuote, AddingQuote, WritingQuote, MarkingQuote, WritingReservation, RemovingQuote
       DEF QuoteStep
  <1>4. CASE work # "quotes" /\ work' = work /\ UNCHANGED quote
    BY <1>4 DEF QuoteInv
  <1>5. ASSUME work # "quotes", Belongs, ~Crash
        PROVE  UNCHANGED quote
    <2>1. CASE SagaStep
      BY <2>1 DEF SagaStep, AddSaga, GetSaga, UpdateSaga, WriteSaga, DeleteSaga, disk
    <2>2. CASE CounterStep
      BY <2>2 DEF CounterStep, ReadCounter, WriteCounter, disk
    <2>3. CASE HistoryStep
      BY <2>3 DEF HistoryStep, add_transaction, remove_transaction, ListKeys, MarkMigrated,
                  SkipKey, CopyRecord, RemoveOld, Conflict, disk
    <2>4. CASE MintsStep
      BY <2>4 DEF MintsStep, MintCall, StartMint, MintStep, disk
    <2>5. CASE ReadsStep
      BY <2>5 DEF ReadsStep, StartReads, JoinRead, disk
    <2> QED
      BY <1>5, <2>1, <2>2, <2>3, <2>4, <2>5 DEF Belongs
  <1> QED
    BY <1>1, <1>2, <1>3, <1>4, <1>5, StepBelongs DEF Belongs

\* The invariant of the quotes: reservations and snapshots agree with the quote
\* that is stored (records_mutation_lock, the version check of add_..._quote).
THEOREM QuoteAlways == Spec => []QuoteInv
  <1> QED
    BY InitWork, NextWork, InitQuote, NextQuotes, PTL DEF Spec

\* Two operations are never both told that a quote is theirs, unless an update
\* from an older snapshot overwrote the reservation or the quote was removed.
THEOREM QuoteReservedSafe == Spec => []QuoteReservedOnce
  <1>1. QuoteInv => QuoteReservedOnce
    <2> SUFFICES ASSUME QuoteInv, work = "quotes", excuses = {}
                 PROVE  Cardinality(granted) <= 1
      BY DEF QuoteReservedOnce
    <2>1. \A g, h \in granted : g = h
      BY DEF QuoteInv, ReservationInv
    <2>2. CASE granted = {}
      BY <2>2, FS_EmptySet
    <2>3. CASE granted # {}
      <3>1. PICK g : g \in granted
        BY <2>3
      <3>2. granted = {g}
        BY <2>1, <3>1
      <3>3. Cardinality({g}) = 1
        BY FS_Singleton
      <3> QED
        BY <3>2, <3>3
    <2> QED
      BY <2>2, <2>3
  <1> QED
    BY <1>1, QuoteAlways, PTL

\* What an accepted update of a quote recorded stays in it until it is removed.
THEOREM QuoteUpdateSafe == Spec => []NoQuoteUpdateLost
  <1>1. QuoteInv => NoQuoteUpdateLost
    BY DEF QuoteInv, UpdateInv, NoQuoteUpdateLost, Recorded
  <1> QED
    BY <1>1, QuoteAlways, PTL

(***************************************************************************)
(* The transactions and the migration of their keys.                       *)
(***************************************************************************)

TxKeys == {"old", "new"} \X Txs

\* A record is under a key of its transaction; the old keys that are left are
\* among those the migration has still to do, and there is none once the
\* marker is written or the database is open.
HistoryInv == work = "history" =>
    /\ DOMAIN txs \subseteq TxKeys
    /\ \A k \in DOMAIN txs : txs[k].tx = k[2]
    /\ boot \in [pc : {"start", "migrate", "running"}, keys : SUBSET TxKeys]
    /\ boot.pc = "migrate" => \A k \in DOMAIN txs : k[1] = "old" => k \in boot.keys
    /\ marker \/ boot.pc = "running" => \A k \in DOMAIN txs : k[1] = "new"
    /\ \A r \in alive : \E k \in DOMAIN txs : txs[k] = r

\* The transactions a migration starts from.
LEMMA InitHistory == Init => HistoryInv
  <1> SUFFICES ASSUME Init, work = "history"
               PROVE  HistoryInv
    BY DEF HistoryInv
  <1> DEFINE Old == {OldKey(x) : x \in Txs}
             New == {NewKey(x) : x \in Txs}
  <1>1. Old \subseteq TxKeys /\ New \subseteq TxKeys
    BY DEF TxKeys, OldKey, NewKey
  <1>2. \A x, c : Tx(x, c).tx = x
    BY DEF Tx
  <1>3. \/ txs = [k \in Old |-> Tx(k[2], 1)]
        \/ txs = [k \in Old \cup New |-> Tx(k[2], IF k[1] = "old" THEN 1 ELSE 2)]
    BY DEF Init
  <1> HIDE DEF Old, New
  <1>4. DOMAIN txs \subseteq TxKeys /\ \A k \in DOMAIN txs : txs[k].tx = k[2]
    BY <1>1, <1>2, <1>3
  <1>5. boot = Booting /\ marker = FALSE /\ \A r \in alive : \E k \in DOMAIN txs : txs[k] = r
    BY DEF Init
  <1> QED
    BY <1>4, <1>5 DEF HistoryInv, Booting

\* The migration copies a record, and removes it when it is stored twice.
LEMMA MigrateRecord ==
  ASSUME HistoryInv, work = "history", work' = work, NEW k \in DOMAIN txs,
         SkipKey(k) \/ CopyRecord(k) \/ RemoveOld(k) \/ Conflict(k)
  PROVE  HistoryInv'
  <1> DEFINE n == NewKey(k[2])
  <1>1. k \in TxKeys /\ n \in TxKeys /\ n[1] = "new" /\ n[2] = k[2]
    BY DEF HistoryInv, TxKeys, NewKey
  <1>2. /\ boot.pc = "migrate" /\ k \in boot.keys
        /\ UNCHANGED <<marker, alive>>
    BY DEF SkipKey, CopyRecord, RemoveOld, Conflict, Pending, disk, history
  <1>3. /\ Booting \in [pc : {"start", "migrate", "running"}, keys : SUBSET TxKeys]
        /\ Booting.pc = "start"
        /\ Done(k) \in [pc : {"start", "migrate", "running"}, keys : SUBSET TxKeys]
        /\ Done(k).pc = boot.pc /\ Done(k).keys = boot.keys \ {k}
    BY DEF HistoryInv, Booting, Done
  <1>4. CASE SkipKey(k) \/ Conflict(k)
    <2>1. txs' = txs
      BY <1>4 DEF SkipKey, Conflict, disk
    <2>2. boot' = Booting \/ (boot' = Done(k) /\ k[1] = "new")
      BY <1>4 DEF SkipKey, Conflict, Pending
    <2> QED
      BY <1>2, <1>3, <2>1, <2>2 DEF HistoryInv
  <1>5. CASE CopyRecord(k)
    <2>1. /\ n \notin DOMAIN txs
          /\ txs' \in {txs, With(txs, n, txs[k])} /\ boot' \in {boot, Booting}
          /\ k[1] = "old"
      BY <1>5 DEF CopyRecord, Landed, Pending
    <2>2. CASE txs' = txs
      BY <1>2, <1>3, <2>1, <2>2 DEF HistoryInv
    <2>3. CASE txs' = With(txs, n, txs[k])
      <3>1. /\ DOMAIN txs' = DOMAIN txs \cup {n} /\ txs'[n] = txs[k]
            /\ \A j \in DOMAIN txs : txs'[j] = txs[j]
        BY <2>1, <2>3 DEF With
      <3>2. ~marker /\ boot.pc # "running"
        BY <1>2, <2>1 DEF HistoryInv
      <3> HIDE DEF n
      <3>3. /\ DOMAIN txs' \subseteq TxKeys
            /\ \A j \in DOMAIN txs' : txs'[j].tx = j[2]
            /\ \A r \in alive' : \E j \in DOMAIN txs' : txs'[j] = r
            /\ \A j \in DOMAIN txs' : j[1] = "old" => j \in DOMAIN txs
        BY <1>1, <1>2, <3>1 DEF HistoryInv
      <3> QED
        BY <1>2, <1>3, <2>1, <3>2, <3>3 DEF HistoryInv
    <2> QED
      BY <2>1, <2>2, <2>3
  <1>6. CASE RemoveOld(k)
    <2>1. /\ n \in DOMAIN txs /\ txs[n] = txs[k] /\ k[1] = "old"
          /\ \/ txs' = txs /\ boot' = Booting
             \/ txs' = Without(txs, k) /\ boot' \in {Done(k), Booting}
      BY <1>6 DEF RemoveOld, Landed, Pending, IsCopy
    <2>2. CASE txs' = txs /\ boot' = Booting
      BY <1>2, <1>3, <2>2 DEF HistoryInv
    <2>3. CASE txs' = Without(txs, k) /\ boot' \in {Done(k), Booting}
      <3>1. /\ DOMAIN txs' = DOMAIN txs \ {k}
            /\ \A j \in DOMAIN txs' : txs'[j] = txs[j]
        BY <2>3 DEF Without
      <3>2. n \in DOMAIN txs'
        BY <1>1, <2>1, <3>1
      <3> HIDE DEF n
      <3>3. \A r \in alive' : \E j \in DOMAIN txs' : txs'[j] = r
        BY <1>2, <2>1, <3>1, <3>2 DEF HistoryInv
      <3> QED
        BY <1>2, <1>3, <2>3, <3>1, <3>3 DEF HistoryInv
    <2> QED
      BY <2>1, <2>2, <2>3
  <1> QED
    BY <1>4, <1>5, <1>6

\* add_transaction and remove_transaction, on an open database.
LEMMA ChangeTransaction ==
  ASSUME HistoryInv, work = "history", work' = work, NEW t \in Tasks,
         add_transaction(t) \/ remove_transaction(t)
  PROVE  HistoryInv'
  <1>1. /\ boot.pc = "running" /\ UNCHANGED <<marker, boot>>
    BY DEF add_transaction, remove_transaction, Ready
  <1>2. PICK x \in Txs :
           \/ txs' = txs /\ alive' = {r \in alive : r.tx # x}
           \/ /\ txs' = With(txs, NewKey(x), Tx(x, 3))
              /\ alive' \subseteq {r \in alive : r.tx # x} \cup {Tx(x, 3)}
           \/ txs' = Without(txs, NewKey(x)) /\ alive' = {r \in alive : r.tx # x}
    BY DEF add_transaction, remove_transaction, Landed, Outcomes
  <1> DEFINE n == NewKey(x)
  <1>3. n \in TxKeys /\ n[1] = "new" /\ n[2] = x /\ Tx(x, 3).tx = x
    BY DEF TxKeys, NewKey, Tx
  <1>4. CASE txs' = txs /\ alive' = {r \in alive : r.tx # x}
    BY <1>1, <1>4 DEF HistoryInv
  <1>5. CASE /\ txs' = With(txs, n, Tx(x, 3))
             /\ alive' \subseteq {r \in alive : r.tx # x} \cup {Tx(x, 3)}
    <2>1. /\ DOMAIN txs' = DOMAIN txs \cup {n} /\ txs'[n] = Tx(x, 3)
          /\ \A j \in DOMAIN txs : j # n => txs'[j] = txs[j]
      BY <1>5 DEF With
    <2> HIDE DEF n
    <2>2. \A r \in alive' : \E j \in DOMAIN txs' : txs'[j] = r
      BY <1>3, <1>5, <2>1 DEF HistoryInv
    <2>3. /\ DOMAIN txs' \subseteq TxKeys
          /\ \A j \in DOMAIN txs' : txs'[j].tx = j[2] /\ j[1] = "new"
      BY <1>1, <1>3, <2>1 DEF HistoryInv
    <2> QED
      BY <1>1, <2>2, <2>3 DEF HistoryInv
  <1>6. CASE txs' = Without(txs, n) /\ alive' = {r \in alive : r.tx # x}
    <2>1. DOMAIN txs' = DOMAIN txs \ {n} /\ \A j \in DOMAIN txs' : txs'[j] = txs[j]
      BY <1>6 DEF Without
    <2> HIDE DEF n
    <2>2. \A r \in alive' : \E j \in DOMAIN txs' : txs'[j] = r
      BY <1>3, <1>6, <2>1 DEF HistoryInv
    <2> QED
      BY <1>1, <2>1, <2>2 DEF HistoryInv
  <1> QED
    BY <1>2, <1>4, <1>5, <1>6

\* Every step keeps the transactions' invariant.
LEMMA NextHistory == WorkInv /\ HistoryInv /\ [Next]_vars => HistoryInv'
  <1> SUFFICES ASSUME WorkInv, HistoryInv, [Next]_vars, work' = work, work = "history"
               PROVE  HistoryInv'
    BY StepBelongs DEF HistoryInv, Belongs, vars
  <1>1. CASE UNCHANGED vars
    BY <1>1 DEF HistoryInv, vars, disk, memory, history
  <1>2. CASE Crash
    BY <1>2 DEF HistoryInv, Crash, disk, Booting
  <1>3. CASE ListKeys
    BY <1>3 DEF ListKeys, HistoryInv, disk, history, Running
  <1>4. CASE MarkMigrated
    <2>1. /\ boot.pc = "migrate" /\ boot.keys = {} /\ UNCHANGED <<txs, alive>>
          /\ boot' \in {Running, Booting}
      BY <1>4 DEF MarkMigrated, history
    <2>2. \A k \in DOMAIN txs : k[1] = "new"
      BY <2>1 DEF HistoryInv, TxKeys
    <2> QED
      BY <2>1, <2>2 DEF HistoryInv, Running, Booting
  <1> QED
    BY <1>1, <1>2, <1>3, <1>4, MigrateRecord, ChangeTransaction, StepBelongs DEF Belongs, HistoryStep

\* No transaction is lost by a migration that is cut off at any point, and an
\* open database has each under its id and only there.
THEOREM HistorySafe == Spec => []NoTransactionLost
  <1>1. HistoryInv => NoTransactionLost
    BY DEF HistoryInv, NoTransactionLost
  <1> QED
    BY <1>1, InitWork, NextWork, InitHistory, NextHistory, PTL DEF Spec

(***************************************************************************)
(* Reads of a whole namespace.                                             *)
(***************************************************************************)

\* Keys are taken in order, so those that are read or under way are an initial
\* part of the keys; a result is at its key's place.
Reading(c) ==
    /\ c \in [pc : {"reads"}, flying : SUBSET (1..NKeys), results : [1..NKeys -> Nat \cup {None}]]
    /\ \A i \in 1..NKeys : c.results[i] \in {None, i}
    /\ \A i \in c.flying : c.results[i] = None
    /\ \E n \in Nat : \A i \in 1..NKeys : i <= n <=> i \in c.flying \/ c.results[i] # None
    /\ Cardinality(c.flying) <= MAX_CONCURRENT_READS

ReadsInv == work = "reads" =>
    /\ \A t \in Tasks : call[t].pc = "reads" => Reading(call[t])
    /\ handed \in {<<>>, [i \in 1..NKeys |-> i]}

\* No read is under way at the start.
LEMMA InitReads == Init => ReadsInv
  BY DEF Init, ReadsInv, Idle

\* The reads that are started first.
LEMMA FirstReads ==
  Reading([pc |-> "reads", flying |-> 1..Min({MAX_CONCURRENT_READS, NKeys}), results |-> [i \in 1..NKeys |-> None]])
  <1> DEFINE m == Min({MAX_CONCURRENT_READS, NKeys})
  <1>1. m \in Nat /\ m <= NKeys /\ m <= MAX_CONCURRENT_READS /\ NKeys \in Nat
    BY RecordsAssumption DEF Min
  <1> HIDE DEF m
  <1>2. Cardinality(1..m) = m
    BY <1>1, FS_Interval
  <1>3. \A i \in 1..NKeys : i <= m <=> i \in 1..m
    BY <1>1
  <1> SUFFICES ASSUME NEW c, c = [pc |-> "reads", flying |-> 1..m, results |-> [i \in 1..NKeys |-> None]]
               PROVE  Reading(c)
    BY DEF m
  <1>4. c \in [pc : {"reads"}, flying : SUBSET (1..NKeys), results : [1..NKeys -> Nat \cup {None}]]
    <2>1. 1..m \subseteq 1..NKeys
      BY <1>1
    <2> QED
      BY <2>1
  <1>5. \E n \in Nat : \A i \in 1..NKeys : i <= n <=> i \in c.flying \/ c.results[i] # None
    <2>1. \A i \in 1..NKeys : i <= m <=> i \in c.flying \/ c.results[i] # None
      BY <1>3
    <2> QED
      BY <1>1, <2>1
  <1>6. /\ \A i \in 1..NKeys : c.results[i] \in {None, i}
        /\ \A i \in c.flying : c.results[i] = None
    BY <1>4
  <1>7. Cardinality(c.flying) <= MAX_CONCURRENT_READS
    BY <1>1, <1>2
  <1> QED
    BY <1>4, <1>5, <1>6, <1>7 DEF Reading

\* When a read is done the next key follows every key taken so far.
LEMMA NextRead ==
  ASSUME NEW c, Reading(c), NEW i \in c.flying
  PROVE  LET rest == TakeNext(c, i)
             results == [c.results EXCEPT ![PlaceOf(c.results, i)] = i]
         IN  IF rest = {} THEN results = [j \in 1..NKeys |-> j]
             ELSE Reading([c EXCEPT !.flying = rest, !.results = results])
  <1> DEFINE rest == TakeNext(c, i)
             results == [c.results EXCEPT ![i] = i]
             taken == c.flying \cup {j \in 1..NKeys : c.results[j] # None}
  <1>1. /\ NKeys \in Nat /\ i \in 1..NKeys /\ c.flying \subseteq 1..NKeys
        /\ c.results \in [1..NKeys -> Nat \cup {None}] /\ None \notin Nat
    BY RecordsAssumption DEF Reading
  <1>2. PICK n0 \in Nat : \A j \in 1..NKeys : j <= n0 <=> j \in c.flying \/ c.results[j] # None
    BY DEF Reading
  <1>3. PICK n \in 1..NKeys : \A j \in 1..NKeys : j <= n <=> j \in c.flying \/ c.results[j] # None
    <2>1. i <= n0 /\ n0 >= 1
      BY <1>1, <1>2
    <2>2. CASE n0 <= NKeys
      <3>1. n0 \in 1..NKeys
        BY <1>1, <2>1, <2>2
      <3> QED
        BY <1>2, <3>1
    <2>3. CASE n0 > NKeys
      <3>1. /\ NKeys \in 1..NKeys
            /\ \A j \in 1..NKeys : j <= NKeys <=> j \in c.flying \/ c.results[j] # None
        BY <1>1, <1>2, <2>1, <2>3
      <3> QED
        BY <3>1
    <2> QED
      BY <1>1, <2>2, <2>3
  <1>4. taken = 1..n
    BY <1>1, <1>3
  <1>5. Max(taken) = n
    BY <1>4 DEF Max
  <1>6. rest = (c.flying \ {i}) \cup (IF n + 1 <= NKeys THEN {n + 1} ELSE {})
    BY <1>5 DEF TakeNext
  <1>7. /\ results \in [1..NKeys -> Nat \cup {None}] /\ results[i] = i
        /\ \A j \in 1..NKeys : j # i => results[j] = c.results[j]
    BY <1>1
  <1>8. CASE rest = {}
    <2>1. c.flying = {i} /\ n = NKeys
      BY <1>1, <1>6, <1>8
    <2>2. \A j \in 1..NKeys : results[j] = j
      BY <1>1, <1>3, <1>7, <2>1 DEF Reading
    <2> QED
      BY <1>7, <1>8, <2>2 DEF PlaceOf
  <1>9. CASE rest # {}
    <2>1. rest \subseteq 1..NKeys /\ \A j \in rest : j # i /\ results[j] = None
      <3>1. ASSUME n + 1 <= NKeys
            PROVE  n + 1 \in 1..NKeys /\ n + 1 \notin c.flying /\ c.results[n + 1] = None /\ i # n + 1
        BY <1>1, <1>3, <3>1
      <3> QED
        BY <1>1, <1>6, <1>7, <3>1 DEF Reading
    <2>2. Cardinality(rest) <= MAX_CONCURRENT_READS
      <3>0. IsFiniteSet(1..NKeys)
        BY <1>1, FS_Interval
      <3>1. IsFiniteSet(c.flying)
        BY <1>1, <3>0, FS_Subset
      <3>2. /\ Cardinality(c.flying \ {i}) = Cardinality(c.flying) - 1
            /\ IsFiniteSet(c.flying \ {i})
        BY <3>1, FS_RemoveElement
      <3>3. /\ Cardinality((c.flying \ {i}) \cup {n + 1}) <= Cardinality(c.flying \ {i}) + 1
            /\ Cardinality(c.flying) \in Nat /\ Cardinality((c.flying \ {i}) \cup {n + 1}) \in Nat
        <4>1. /\ IsFiniteSet((c.flying \ {i}) \cup {n + 1})
              /\ Cardinality((c.flying \ {i}) \cup {n + 1})
                   = IF n + 1 \in c.flying \ {i} THEN Cardinality(c.flying \ {i}) ELSE Cardinality(c.flying \ {i}) + 1
          BY <3>2, FS_AddElement
        <4>2. /\ Cardinality(c.flying) \in Nat /\ Cardinality(c.flying \ {i}) \in Nat
              /\ Cardinality((c.flying \ {i}) \cup {n + 1}) \in Nat
          BY <3>1, <3>2, <4>1, FS_CardinalityType
        <4> QED
          BY <4>1, <4>2
      <3>4. Cardinality(c.flying) <= MAX_CONCURRENT_READS /\ MAX_CONCURRENT_READS \in Nat
        BY RecordsAssumption DEF Reading
      <3>5. rest = c.flying \ {i} \/ rest = (c.flying \ {i}) \cup {n + 1}
        BY <1>6
      <3>6. /\ Cardinality(c.flying \ {i}) <= MAX_CONCURRENT_READS
            /\ Cardinality((c.flying \ {i}) \cup {n + 1}) <= MAX_CONCURRENT_READS
        BY <3>2, <3>3, <3>4
      <3> HIDE DEF rest
      <3>7. CASE rest = c.flying \ {i}
        BY ONLY <3>6, <3>7, Zenon
      <3>8. CASE rest = (c.flying \ {i}) \cup {n + 1}
        BY ONLY <3>6, <3>8, Zenon
      <3> QED
        BY <3>5, <3>7, <3>8
    <2>3. \E m \in Nat : \A j \in 1..NKeys : j <= m <=> j \in rest \/ results[j] # None
      <3>1. CASE n + 1 <= NKeys
        <4>1. \A j \in 1..NKeys : j <= n + 1 <=> j \in rest \/ results[j] # None
          BY <1>1, <1>3, <1>6, <1>7, <3>1
        <4>2. n + 1 \in Nat
          BY <1>1
        <4> QED
          BY <4>1, <4>2
      <3>2. CASE ~(n + 1 <= NKeys)
        <4>1. \A j \in 1..NKeys : j <= n <=> j \in rest \/ results[j] # None
          BY <1>1, <1>3, <1>6, <1>7, <3>2
        <4>2. n \in Nat
          BY <1>1
        <4> QED
          BY <4>1, <4>2
      <3> QED
        BY <3>1, <3>2
    <2>4. \A j \in 1..NKeys : results[j] \in {None, j}
      BY <1>7 DEF Reading
    <2> HIDE DEF rest, results
    <2>5. PICK d : d = [c EXCEPT !.flying = rest, !.results = results]
      OBVIOUS
    <2>6. /\ d \in [pc : {"reads"}, flying : SUBSET (1..NKeys), results : [1..NKeys -> Nat \cup {None}]]
          /\ d.flying = rest /\ d.results = results
      BY <1>7, <2>1, <2>5 DEF Reading
    <2>7. Reading(d)
      BY <2>1, <2>2, <2>3, <2>4, <2>6 DEF Reading
    <2> QED
      BY <1>9, <2>5, <2>7 DEF rest, results, PlaceOf
  <1> QED
    BY <1>8, <1>9

\* Every step keeps the reads' invariant.
LEMMA NextReads == WorkInv /\ ReadsInv /\ [Next]_vars => ReadsInv'
  <1> SUFFICES ASSUME WorkInv, ReadsInv, [Next]_vars, work' = work, work = "reads"
               PROVE  ReadsInv'
    BY StepBelongs DEF ReadsInv, Belongs, vars
  <1>1. CASE UNCHANGED vars
    BY <1>1 DEF ReadsInv, vars, memory, history
  <1>2. CASE Crash
    BY <1>2 DEF ReadsInv, Crash, Idle
  <1>3. ASSUME NEW t \in Tasks, StartReads(t)
        PROVE  ReadsInv'
    BY <1>3, FirstReads, GotoCall DEF StartReads, ReadsInv, WorkInv, history
  <1>4. ASSUME NEW t \in Tasks, JoinRead(t)
        PROVE  ReadsInv'
    <2>1. Reading(call[t])
      BY <1>4 DEF JoinRead, ReadsInv
    <2> DEFINE rest(i) == TakeNext(call[t], i)
               results(i) == [call[t].results EXCEPT ![PlaceOf(call[t].results, i)] = i]
    <2>2. PICK i \in call[t].flying :
             \/ /\ Goto(t, IF rest(i) = {} THEN Idle
                           ELSE [call[t] EXCEPT !.flying = rest(i), !.results = results(i)])
                /\ handed' = IF rest(i) = {} THEN results(i) ELSE handed
             \/ Goto(t, Idle) /\ handed' = handed
      BY <1>4 DEF JoinRead, Goto
    <2>3. IF rest(i) = {} THEN results(i) = [j \in 1..NKeys |-> j]
          ELSE Reading([call[t] EXCEPT !.flying = rest(i), !.results = results(i)])
      BY <2>1, NextRead
    <2> HIDE DEF rest, results
    <2> QED
      BY <2>2, <2>3, GotoCall DEF ReadsInv, WorkInv, Idle
  <1> QED
    BY <1>1, <1>2, <1>3, <1>4, StepBelongs DEF Belongs, ReadsStep

\* At most MAX_CONCURRENT_READS reads are under way, and the result has every
\* key at its place.
THEOREM ReadsSafe == Spec => []ReadsInOrder
  <1>1. ReadsInv => ReadsInOrder
    BY DEF ReadsInv, ReadsInOrder, Reading
  <1> QED
    BY <1>1, InitWork, NextWork, InitReads, NextReads, PTL DEF Spec

=============================================================================
