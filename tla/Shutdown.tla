------------------------------ MODULE Shutdown ------------------------------
(***************************************************************************)
(* Wallet::stop (lib.rs) and the task sets of the Runtime (runtime.rs).    *)
(*                                                                         *)
(* The runtime keeps two JoinSets, each under a mutex of its own: the      *)
(* cancellable tasks (the rebalance loops, the ldk-node event loop, the    *)
(* mint quote monitors), which stop aborts, and the background tasks (a    *)
(* Cashu melt, Spark's listener task), which it waits for, up to five      *)
(* seconds for each.  stop takes each set out of its mutex once, so a task *)
(* spawned later goes to a set that nobody joins.  Between the two, stop   *)
(* waits for the rebalancer's balance_mutex.                               *)
(***************************************************************************)
EXTENDS Naturals, FiniteSets

CONSTANTS
    Rebalance,      \* tasks that run do_rebalance_if_needed
    Monitor,        \* tasks of the mint quote monitoring loop and its children
    Melts,          \* tasks of spawn_melt
    Listener,       \* the task that removes Spark's event listener
    Nobody

Cancellable == Rebalance \union Monitor
Background == Melts \union Listener
Task == Cancellable \union Background

\* spawn_cancellable_background_task or spawn_background_task: a task is
\* spawned by one of them.
ASSUME ShutdownAssumption == Cancellable \intersect Background = {}

VARIABLES
    task,           \* what became of each task
    aborted,        \* tasks whose abort was requested
    sets,           \* the two JoinSets of Runtime
    joining,        \* the set stop has taken and is joining
    mutex,          \* balance_mutex: the task that holds it
    signalled,      \* the shutdown watch channel of the trusted wallet
    stop,           \* how far Wallet::stop is
    taken           \* ghost: the tasks that were in a set when stop took it

StopVars == <<task, aborted, sets, joining, mutex, signalled, stop, taken>>

Ended == {"done", "panicked", "dropped"}

Running(t) == task[t] = "running"

SetOf(t) == IF t \in Cancellable THEN "cancellable" ELSE "background"

StopTypeOK ==
    /\ task \in [Task -> {"new", "running"} \union Ended]
    /\ aborted \subseteq Task
    /\ sets \in [{"cancellable", "background"} -> SUBSET Task]
    /\ joining \subseteq Task
    /\ mutex \in Rebalance \union {Nobody}
    /\ signalled \in BOOLEAN
    /\ stop \in {"up", "aborting", "rebalancer", "trusted", "node", "take", "waiting", "stopped"}
    /\ taken \subseteq Task

StopInit ==
    /\ task = [t \in Task |-> "new"]
    /\ aborted = {}
    /\ sets = [s \in {"cancellable", "background"} |-> {}]
    /\ joining = {}
    /\ mutex = Nobody
    /\ signalled = FALSE
    /\ stop = "up"
    /\ taken = {}

-----------------------------------------------------------------------------
(* The tasks.  Nothing refuses a spawn once stop has begun: the set is     *)
(* there again, empty.                                                     *)

SpawnOn(t) ==
    /\ task[t] = "new"
    /\ task' = [task EXCEPT ![t] = "running"]
    /\ sets' = [sets EXCEPT ![SetOf(t)] = @ \union {t}]
    /\ UNCHANGED <<aborted, joining, mutex, signalled, stop, taken>>

\* event_handled, and the wallet's own start, spawn a rebalance.
SpawnRebalance(t) == t \in Rebalance /\ SpawnOn(t)

\* The monitoring loop, itself a cancellable task, spawns one task per quote.
SpawnMonitor(t) ==
    /\ t \in Monitor
    /\ (\E m \in Monitor : task[m] # "new") => (\E m \in Monitor : Running(m))
    /\ SpawnOn(t)

\* Cashu::pay spawns the melt, for the user's payment or for a rebalance.
spawn_melt(t) == t \in Melts /\ SpawnOn(t)

\* Spark::init spawns the listener task; the wallet exists only afterwards.
SpawnListener(t) ==
    /\ t \in Listener
    /\ stop = "up"
    /\ SpawnOn(t)

\* do_trusted_rebalance_if_needed and do_onchain_rebalance_if_needed take the
\* mutex, which a stop that waits for it may get first.
LockBalance(t) ==
    /\ t \in Rebalance
    /\ Running(t)
    /\ mutex = Nobody
    /\ mutex' = t
    /\ UNCHANGED <<task, aborted, sets, joining, signalled, stop, taken>>

\* The guard goes out of scope; do_rebalance_if_needed takes the mutex twice,
\* the loop of the wallet again every second.
UnlockBalance(t) ==
    /\ mutex = t
    /\ mutex' = Nobody
    /\ UNCHANGED <<task, aborted, sets, joining, signalled, stop, taken>>

Unlocked(t) == IF mutex = t THEN Nobody ELSE mutex

\* A task comes to its end by itself.  The listener task only does so once the
\* shutdown signal is there; a rebalance may be parked with the mutex for ever.
Finish(t) ==
    /\ Running(t)
    /\ t \in Listener => signalled
    /\ task' = [task EXCEPT ![t] = "done"]
    /\ mutex' = Unlocked(t)
    /\ UNCHANGED <<aborted, sets, joining, signalled, stop, taken>>

\* A melt or a rebalance whose metadata write fails panics in an expect; the
\* guards of a task that unwinds are dropped.
Panic(t) ==
    /\ t \in Melts \union Rebalance
    /\ Running(t)
    /\ task' = [task EXCEPT ![t] = "panicked"]
    /\ mutex' = Unlocked(t)
    /\ UNCHANGED <<aborted, sets, joining, signalled, stop, taken>>

\* tokio drops an aborted task at its next await, and its guards with it.
DropTask(t) ==
    /\ t \in aborted
    /\ Running(t)
    /\ task' = [task EXCEPT ![t] = "dropped"]
    /\ mutex' = Unlocked(t)
    /\ UNCHANGED <<aborted, sets, joining, signalled, stop, taken>>

-----------------------------------------------------------------------------
(* Wallet::stop.                                                           *)

TakeSet(s) ==
    /\ joining' = sets[s]
    /\ taken' = taken \union sets[s]
    /\ sets' = [sets EXCEPT ![s] = {}]

\* Mutant: the tasks are taken and not aborted.
TakeWithoutAbort ==
    /\ stop = "up"
    /\ TakeSet("cancellable")
    /\ stop' = "rebalancer"
    /\ UNCHANGED <<task, aborted, mutex, signalled>>

\* mem::take of the set, then abort_all.
abort_cancellable_background_tasks ==
    /\ stop = "up"
    /\ TakeSet("cancellable")
    /\ aborted' = aborted \union sets["cancellable"]
    /\ stop' = "aborting"
    /\ UNCHANGED <<task, mutex, signalled>>

\* join_next until the set is empty.
JoinAborted ==
    /\ stop = "aborting"
    /\ \A t \in joining : task[t] \in Ended
    /\ joining' = {}
    /\ stop' = "rebalancer"
    /\ UNCHANGED <<task, aborted, sets, mutex, signalled, taken>>

\* rebalancer.stop takes balance_mutex and lets it go at once.
StopRebalancer ==
    /\ stop = "rebalancer"
    /\ mutex = Nobody
    /\ stop' = "trusted"
    /\ UNCHANGED <<task, aborted, sets, joining, mutex, signalled, taken>>

\* trusted.stop sends the shutdown signal.
StopTrusted ==
    /\ stop = "trusted"
    /\ signalled' = TRUE
    /\ stop' = "node"
    /\ UNCHANGED <<task, aborted, sets, joining, mutex, taken>>

StopNode ==
    /\ stop = "node"
    /\ stop' = "take"
    /\ UNCHANGED <<task, aborted, sets, joining, mutex, signalled, taken>>

\* wait_on_background_tasks: mem::take of the set ...
TakeBackground ==
    /\ stop = "take"
    /\ TakeSet("background")
    /\ stop' = "waiting"
    /\ UNCHANGED <<task, aborted, mutex, signalled>>

\* ... whose tasks are joined one by one ...
JoinNext(t) ==
    /\ stop = "waiting"
    /\ t \in joining
    /\ task[t] = "done"
    /\ joining' = joining \ {t}
    /\ UNCHANGED <<task, aborted, sets, mutex, signalled, stop, taken>>

\* ... until none is left ...
JoinedAll ==
    /\ stop = "waiting"
    /\ joining = {}
    /\ stop' = "stopped"
    /\ UNCHANGED <<task, aborted, sets, joining, mutex, signalled, taken>>

GiveUp ==
    /\ aborted' = aborted \union joining
    /\ joining' = {}
    /\ stop' = "stopped"
    /\ UNCHANGED <<task, sets, mutex, signalled, taken>>

\* ... one of them panicked ...
JoinError ==
    /\ stop = "waiting"
    /\ \E t \in joining : task[t] = "panicked"
    /\ GiveUp

\* ... or five seconds pass without one ending: the rest is aborted and not
\* joined.
JoinTimeout ==
    /\ stop = "waiting"
    /\ joining # {}
    /\ \A t \in joining : Running(t)
    /\ GiveUp

Stop ==
    \/ JoinAborted
    \/ StopRebalancer
    \/ StopTrusted
    \/ StopNode
    \/ TakeBackground
    \/ \E t \in Background : JoinNext(t)
    \/ JoinedAll
    \/ JoinError
    \/ JoinTimeout

StopNext ==
    \/ abort_cancellable_background_tasks
    \/ Stop
    \/ \E t \in Task :
        \/ SpawnRebalance(t)
        \/ SpawnMonitor(t)
        \/ spawn_melt(t)
        \/ SpawnListener(t)
        \/ LockBalance(t)
        \/ UnlockBalance(t)
        \/ Finish(t)
        \/ Panic(t)
        \/ DropTask(t)

StopSpec == StopInit /\ [][StopNext]_StopVars

\* stop is driven by its caller and tokio drops what was aborted.  The mutex of
\* tokio serves its waiters in order: a stop that waits for it gets it, if it is
\* released again and again.  Nothing says that a task ends by itself.
StopFairness ==
    /\ SF_StopVars(Stop)
    /\ WF_StopVars(\E t \in Task : DropTask(t))

FairStopSpec == StopSpec /\ StopFairness

-----------------------------------------------------------------------------
(* Properties.                                                             *)

\* "This will ensure that any critical tasks have completed before stopping":
\* once stop has returned, every background task it found has run to its end.
CriticalTasksCompleted ==
    stop = "stopped" => \A t \in taken \intersect Background : task[t] = "done"

\* stop returns, also when a rebalance is parked with balance_mutex, because the
\* parked one is aborted and joined first.  Only a rebalance that was spawned
\* after stop took the cancellable tasks, and that never lets the mutex go, can
\* hold it up.
StopReturns ==
    stop # "up" ~>
        (stop = "stopped" \/ [](mutex # Nobody /\ mutex \notin taken))
=============================================================================
