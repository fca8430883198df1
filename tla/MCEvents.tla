------------------------------ MODULE MCEvents ------------------------------
(***************************************************************************)
(* MppPayment, EventQueue and Shutdown for TLC.  They share no variable,   *)
(* so each of them is explored while the other two are at rest.            *)
(***************************************************************************)
EXTENDS MppPayment, EventQueue, Shutdown

MCLdkEvents  == <<"paid", "received">>
MCTaskEvents == <<"melted">>
MCReceived   == {"received"}
MCLegEvents  == {"paid"}
MCApps       == {[polling |-> FALSE, retry |-> FALSE], [polling |-> TRUE, retry |-> TRUE]}

\* The queue is at rest; which application it waits for does not matter then.
QueueRests == QueueInit /\ ~app.retry

EventsInit == Init /\ QueueInit /\ StopInit

\* An application that waits for the next event, and a stopped wallet, may rest
\* for ever; a split payment may not.
MayRest ==
    /\ ~QueueInit \/ ~StopInit
    /\ UNCHANGED <<vars, queueVars, StopVars>>

EventsNext ==
    \/ Next /\ QueueRests /\ StopInit /\ UNCHANGED <<queueVars, StopVars>>
    \/ QueueNext /\ Init /\ StopInit /\ UNCHANGED <<vars, StopVars>>
    \/ StopNext /\ Init /\ QueueRests /\ UNCHANGED <<vars, queueVars>>
    \/ MayRest

EventsSpec ==
    EventsInit /\ [][EventsNext]_<<vars, queueVars, StopVars>> /\ Fairness /\ StopFairness
=============================================================================
