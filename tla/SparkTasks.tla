------------------------------ MODULE SparkTasks ------------------------------
(***************************************************************************)
(* The Spark SDK's tasks and the key-value store they share, as SparkWallet*)
(* and SparkStore use them: a task is in one call at a time, and any write *)
(* of the store may fail, with or without having landed.                   *)
(***************************************************************************)
EXTENDS Naturals

CONSTANTS
    Tasks,      \* SDK tasks that call the store
    MaxFaults,  \* bound: failed writes, removals and reads, and crashes
    None

VARIABLES
    call,    \* per task, the call it is in
    faults   \* failures so far

Idle == [pc |-> "idle"]

Goto(t, c) == call' = [call EXCEPT ![t] = c]

\* A write: it lands, it fails, or it lands and reports a failure.
Outcomes == {"ok"} \cup IF faults < MaxFaults THEN {"failed", "late"} ELSE {}

Fault(o) == faults' = faults + (IF o = "ok" THEN 0 ELSE 1)

Landed(o, new, old) == IF o = "failed" THEN old ELSE new
=============================================================================
