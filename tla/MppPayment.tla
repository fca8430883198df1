------------------------------ MODULE MppPayment ------------------------------
(***************************************************************************)
(* One BOLT 11 payment split over the trusted wallet and the lightning     *)
(* wallet (`Wallet::try_mpp_bolt11`), and how the terminal events of its   *)
(* two legs are merged into the one event the application sees             *)
(* (`EventQueue::add_event`, `TxMetadataStore::record_mpp_leg`).           *)
(*                                                                         *)
(* Three tasks run `add_event`: the caller of `pay` replaying buffered     *)
(* events, the background melt of the trusted leg, and the LDK event       *)
(* handler of the lightning leg.  A leg's terminal event carries what the  *)
(* network decided about that leg, so an event is named by its leg.        *)
(* Memory and disk are separate: every write of the metadata store changes *)
(* memory under a lock and calls `KVStore::write` after releasing it.      *)
(***************************************************************************)
EXTENDS Naturals, Sequences

CONSTANTS
    Fees,        \* fees, in msat, a leg can report (an absent fee counts as 0)
    MaxMsat,     \* the largest amount, u64::MAX in the code
    NoFee,       \* Option::None of a fee slot
    MaxCrashes,  \* bound: how often the process dies and restarts
    MaxErrors    \* bound: failing queue writes and failing LDK acknowledgements

ASSUME MppAssumption ==
    /\ MaxMsat \in Nat
    /\ Fees \subseteq 0..MaxMsat
    /\ NoFee \notin Nat
    /\ MaxCrashes \in Nat
    /\ MaxErrors \in Nat

VARIABLES
    mem,         \* TxMetadataStore::tx_metadata, the entries of the two legs
    disk,        \* the same entries as the KV store holds them
    pend,        \* per task, the KV write it has issued and is waiting for
    lock,        \* TxMetadataStore::mpp_record_lock
    buffering,   \* whether pending_mpp_events has an entry for the hash
    buffered,    \* that entry: legs whose terminal event arrived during setup
    replay,      \* events finish_mpp_setup still has to re-process
    payer,       \* control state of try_mpp_bolt11
    add,         \* per task, the call of add_event it is in
    report,      \* per reporting task, whether the leg's event was delivered
    leg,         \* what the network decided about each leg
    combined,    \* every combined event ever pushed, across restarts
    raw,         \* the per-leg events ever pushed
    crashes, errors,
    staleWrite   \* history: a KV write landed although memory had moved on

vars == <<mem, disk, pend, lock, buffering, buffered, replay, payer, add,
          report, leg, combined, raw, crashes, errors, staleWrite>>

Legs      == {"trusted", "lightning"}
Reporters == {"melt", "ldk"}
Tasks     == Reporters \cup {"payer"}
Free      == "free"

LegOf(r) == IF r = "melt" THEN "trusted" ELSE "lightning"

Preimages == {"none", "real", "zero"}

(***************************************************************************)
(* Metadata entries.  The combined payment is surfaced under the trusted   *)
(* leg's id, so its accumulated results live in the trusted entry.         *)
(***************************************************************************)
Entry == [ty : {"none", "payment", "mpp"}, fee : [Legs -> Fees \cup {NoFee}],
          preimage : Preimages, failed : BOOLEAN, finalized : BOOLEAN]

Blank(ty) == [ty |-> ty, fee |-> [l \in Legs |-> NoFee], preimage |-> "none",
              failed |-> FALSE, finalized |-> FALSE]

Write   == [key : Legs \cup {"none"}, entry : Entry]
NoWrite == [key |-> "none", entry |-> Blank("none")]
WriteOf(k, e) == [key |-> k, entry |-> e]

(***************************************************************************)
(* MppOutcome, and the saturating sum of the two fees.                     *)
(***************************************************************************)
SatAdd(a, b) == IF a + b > MaxMsat THEN MaxMsat ELSE a + b

Outcome == [kind : {"none", "succeeded", "failed"}, fee : 0..MaxMsat,
            preimage : Preimages]

NoOutcome == [kind |-> "none", fee |-> 0, preimage |-> "none"]

\* A leg succeeds with a fee and a preimage, or fails.
LegState == [st : {"unsent", "inflight", "succeeded", "failed", "unknown"},
             fee : Fees \cup {NoFee}, preimage : Preimages]

Unresolved(st) == [st |-> st, fee |-> NoFee, preimage |-> "none"]

AddCall == [pc : {"idle", "route", "buffer", "record", "recorded",
                  "pushRaw", "pushCombined", "ok", "err"},
            leg : Legs, out : Outcome]

Idle(t) == [pc |-> "idle", out |-> NoOutcome,
            leg |-> IF t = "ldk" THEN "lightning" ELSE "trusted"]

TypeOK ==
    /\ mem \in [Legs -> Entry] /\ disk \in [Legs -> Entry]
    /\ pend \in [Tasks -> Write]
    /\ lock \in Tasks \cup {Free}
    /\ buffering \in BOOLEAN
    /\ buffered \in Seq(Legs) /\ replay \in Seq(Legs)
    /\ payer \in {"idle", "begun", "partial", "sent", "surfaceSet", "finish",
                  "replay", "done", "dead"}
    /\ add \in [Tasks -> AddCall]
    /\ report \in [Reporters -> {"idle", "adding", "done"}]
    /\ leg \in [Legs -> LegState]
    /\ combined \in Seq(Outcome)
    /\ raw \subseteq Legs
    /\ crashes \in 0..MaxCrashes /\ errors \in 0..MaxErrors
    /\ staleWrite \in BOOLEAN

Init ==
    /\ mem = [l \in Legs |-> Blank("none")]
    /\ disk = [l \in Legs |-> Blank("none")]
    /\ pend = [t \in Tasks |-> NoWrite]
    /\ lock = Free
    /\ buffering = FALSE /\ buffered = <<>> /\ replay = <<>>
    /\ payer = "idle"
    /\ add = [t \in Tasks |-> Idle(t)]
    /\ report = [r \in Reporters |-> "idle"]
    /\ leg = [l \in Legs |-> Unresolved("unsent")]
    /\ combined = <<>> /\ raw = {}
    /\ crashes = 0 /\ errors = 0
    /\ staleWrite = FALSE

-----------------------------------------------------------------------------
(***************************************************************************)
(* The KV store: the pending write of task t lands.                        *)
(***************************************************************************)
Landed(t) == pend[t] = NoWrite

Flush(t) ==
    /\ ~Landed(t)
    /\ disk' = [disk EXCEPT ![pend[t].key] = pend[t].entry]
    /\ staleWrite' = (staleWrite \/ mem[pend[t].key] # pend[t].entry)
    /\ pend' = [pend EXCEPT ![t] = NoWrite]
    /\ UNCHANGED <<mem, lock, buffering, buffered, replay, payer, add, report,
                   leg, combined, raw, crashes, errors>>

\* TxMetadataStore::do_set by task t: memory now, disk when the write lands.
DoSet(t, k, e) ==
    /\ mem' = [mem EXCEPT ![k] = e]
    /\ pend' = [pend EXCEPT ![t] = WriteOf(k, e)]

-----------------------------------------------------------------------------
(***************************************************************************)
(* The caller: try_mpp_bolt11 past its affordability checks.               *)
(***************************************************************************)
BeginMppSetup ==
    /\ payer = "idle"
    /\ payer' = "begun"
    /\ buffering' = TRUE
    /\ UNCHANGED <<mem, disk, pend, lock, buffered, replay, add, report, leg,
                   combined, raw, crashes, errors, staleWrite>>

PayPartial ==
    /\ payer = "begun"
    /\ \/ /\ payer' = "partial"
          /\ leg' = [leg EXCEPT !["trusted"] = Unresolved("inflight")]
       \/ /\ payer' = "finish"
          /\ UNCHANGED leg
    /\ UNCHANGED <<mem, disk, pend, lock, buffering, buffered, replay, add,
                   report, combined, raw, crashes, errors, staleWrite>>

\* A lightning leg that cannot be sent leaves the trusted leg a plain payment.
PayLightning ==
    /\ payer = "partial"
    /\ \/ /\ payer' = "sent"
          /\ leg' = [leg EXCEPT !["lightning"] = Unresolved("inflight")]
          /\ UNCHANGED <<mem, pend>>
       \/ /\ payer' = "finish"
          /\ DoSet("payer", "trusted", Blank("payment"))
          /\ UNCHANGED leg
    /\ UNCHANGED <<disk, lock, buffering, buffered, replay, add, report,
                   combined, raw, crashes, errors, staleWrite>>

RegisterSurface ==
    /\ payer = "sent"
    /\ payer' = "surfaceSet"
    /\ DoSet("payer", "trusted", Blank("mpp"))
    /\ UNCHANGED <<disk, lock, buffering, buffered, replay, add, report, leg,
                   combined, raw, crashes, errors, staleWrite>>

RegisterLightning ==
    /\ payer = "surfaceSet" /\ Landed("payer")
    /\ payer' = "finish"
    /\ DoSet("payer", "lightning", Blank("mpp"))
    /\ UNCHANGED <<disk, lock, buffering, buffered, replay, add, report, leg,
                   combined, raw, crashes, errors, staleWrite>>

\* Mutant: the buffer is cleared without re-processing its events.
FinishDropsBuffer ==
    /\ payer = "finish" /\ Landed("payer")
    /\ payer' = "replay"
    /\ buffering' = FALSE /\ buffered' = <<>>
    /\ UNCHANGED <<mem, disk, pend, lock, replay, add, report, leg, combined,
                   raw, crashes, errors, staleWrite>>

\* finish_mpp_setup takes the buffer under its lock ...
FinishMppSetup ==
    /\ payer = "finish" /\ Landed("payer")
    /\ payer' = "replay"
    /\ replay' = buffered
    /\ buffering' = FALSE /\ buffered' = <<>>
    /\ UNCHANGED <<mem, disk, pend, lock, add, report, leg, combined, raw,
                   crashes, errors, staleWrite>>

\* ... and then adds each buffered event again,
ReplayEvent ==
    /\ payer = "replay" /\ replay # <<>> /\ add["payer"].pc = "idle"
    /\ add' = [add EXCEPT !["payer"].pc = "route", !["payer"].leg = Head(replay)]
    /\ replay' = Tail(replay)
    /\ UNCHANGED <<mem, disk, pend, lock, buffering, buffered, payer, report,
                   leg, combined, raw, crashes, errors, staleWrite>>

\* stopping at the first error.
ReplayReturn ==
    /\ add["payer"].pc \in {"ok", "err"}
    /\ replay' = IF add["payer"].pc = "err" THEN <<>> ELSE replay
    /\ add' = [add EXCEPT !["payer"] = Idle("payer")]
    /\ UNCHANGED <<mem, disk, pend, lock, buffering, buffered, payer, report,
                   leg, combined, raw, crashes, errors, staleWrite>>

PayReturns ==
    /\ payer = "replay" /\ replay = <<>> /\ add["payer"].pc = "idle"
    /\ payer' = "done"
    /\ UNCHANGED <<mem, disk, pend, lock, buffering, buffered, replay, add,
                   report, leg, combined, raw, crashes, errors, staleWrite>>

-----------------------------------------------------------------------------
(***************************************************************************)
(* The legs.  The mint may leave a melt in a state the code does not       *)
(* follow up ("unknown"), and may settle without a payment proof, which    *)
(* the code reports as the all-zero preimage.  "failed" is what the leg    *)
(* reported: a melt that ended in an error counts as failed in the code    *)
(* too, although the mint may yet settle it.                               *)
(***************************************************************************)
ResolveLeg(l) ==
    /\ leg[l].st = "inflight"
    /\ \/ \E f \in Fees, p \in {"real", "zero"} :
            /\ l = "lightning" => p = "real"
            /\ leg' = [leg EXCEPT ![l] = [st |-> "succeeded", fee |-> f,
                                          preimage |-> p]]
       \/ leg' = [leg EXCEPT ![l] = Unresolved("failed")]
       \/ /\ l = "trusted"
          /\ leg' = [leg EXCEPT ![l] = Unresolved("unknown")]
    /\ UNCHANGED <<mem, disk, pend, lock, buffering, buffered, replay, payer,
                   add, report, combined, raw, crashes, errors, staleWrite>>

\* set_preimage: only a plain payment without a preimage is changed.
SetsPreimage(l) ==
    /\ leg[l].st = "succeeded"
    /\ mem[l].ty = "payment" /\ mem[l].preimage = "none"

\* spawn_melt after the melt, and handle_ldk_node_event: set_preimage on
\* success, then add_event.
StartReport(r) ==
    LET l == LegOf(r) IN
    /\ report[r] = "idle" /\ add[r].pc = "idle"
    /\ leg[l].st \in {"succeeded", "failed"}
    /\ report' = [report EXCEPT ![r] = "adding"]
    /\ add' = [add EXCEPT ![r].pc = "route"]
    /\ IF SetsPreimage(l)
       THEN DoSet(r, l, [mem[l] EXCEPT !.preimage = leg[l].preimage])
       ELSE UNCHANGED <<mem, pend>>
    /\ UNCHANGED <<disk, lock, buffering, buffered, replay, payer, leg,
                   combined, raw, crashes, errors, staleWrite>>

\* The melt task ignores the result.  The LDK handler acknowledges the event
\* only after success, otherwise LDK delivers it again.
FinishReport(r) ==
    /\ add[r].pc \in {"ok", "err"}
    /\ add' = [add EXCEPT ![r] = Idle(r)]
    /\ \/ /\ r = "melt" \/ add[r].pc = "ok"
          /\ report' = [report EXCEPT ![r] = "done"]
          /\ UNCHANGED errors
       \/ /\ r = "ldk" /\ add[r].pc = "err"
          /\ report' = [report EXCEPT ![r] = "idle"]
          /\ UNCHANGED errors
       \/ /\ r = "ldk" /\ add[r].pc = "ok"
          /\ errors < MaxErrors /\ errors' = errors + 1
          /\ report' = [report EXCEPT ![r] = "idle"]
    /\ UNCHANGED <<mem, disk, pend, lock, buffering, buffered, replay, payer,
                   leg, combined, raw, crashes, staleWrite>>

-----------------------------------------------------------------------------
(***************************************************************************)
(* EventQueue::add_event, run by task t for the leg add[t].leg.            *)
(***************************************************************************)

\* is_mpp_leg, read without any lock that outlives the test.
RouteEvent(t) ==
    /\ add[t].pc = "route" /\ Landed(t)
    /\ add' = [add EXCEPT ![t].pc =
                 IF mem[add[t].leg].ty = "mpp" THEN "record" ELSE "buffer"]
    /\ UNCHANGED <<mem, disk, pend, lock, buffering, buffered, replay, payer,
                   report, leg, combined, raw, crashes, errors, staleWrite>>

\* Under the lock of pending_mpp_events: buffer the event or let it pass.
BufferEvent(t) ==
    /\ add[t].pc = "buffer"
    /\ buffered' = IF buffering THEN Append(buffered, add[t].leg) ELSE buffered
    /\ add' = [add EXCEPT ![t].pc = IF buffering THEN "ok" ELSE "pushRaw"]
    /\ UNCHANGED <<mem, disk, pend, lock, buffering, replay, payer, report,
                   leg, combined, raw, crashes, errors, staleWrite>>

\* Mutant: the fee is stored without telling the two legs apart.
RecordedBothSlots(s, l, r) ==
    LET acc == IF r.st = "succeeded"
               THEN [s EXCEPT !.fee = [x \in Legs |-> r.fee],
                              !.preimage = r.preimage]
               ELSE [s EXCEPT !.failed = TRUE]
    IN  [acc EXCEPT !.finalized =
            acc.failed \/ \A x \in Legs : acc.fee[x] # NoFee]

\* The surface entry s once leg l has resolved as r.
Recorded(s, l, r) ==
    LET acc == IF r.st = "succeeded"
               THEN [s EXCEPT !.fee[l] = r.fee, !.preimage = r.preimage]
               ELSE [s EXCEPT !.failed = TRUE]
    IN  [acc EXCEPT !.finalized =
            acc.failed \/ \A x \in Legs : acc.fee[x] # NoFee]

\* What the call that wrote the surface entry e returns to its caller.
OutcomeOf(e) ==
    IF ~e.finalized THEN NoOutcome
    ELSE IF e.failed THEN [NoOutcome EXCEPT !.kind = "failed"]
    ELSE [kind |-> "succeeded", preimage |-> e.preimage,
          fee |-> SatAdd(e.fee["trusted"], e.fee["lightning"])]

\* Mutant: `finalized` is not looked at.
RecordableAgain(l) ==
    mem[l].ty = "mpp" /\ mem["trusted"].ty = "mpp"

\* record_mpp_leg up to its KV write: nothing to do unless both the leg and
\* the surface entry are legs of a payment that has not been finalized.
Recordable(l) ==
    /\ mem[l].ty = "mpp" /\ mem["trusted"].ty = "mpp"
    /\ ~mem["trusted"].finalized

\* Mutant: nothing keeps the other leg out while the entry is written.
RecordUnlocked(t) ==
    LET l == add[t].leg
        e == Recorded(mem["trusted"], l, leg[l])
    IN
    /\ add[t].pc = "record"
    /\ \/ /\ Recordable(l)
          /\ DoSet(t, "trusted", e)
          /\ add' = [add EXCEPT ![t].pc = "recorded", ![t].out = OutcomeOf(e)]
       \/ /\ ~Recordable(l)
          /\ add' = [add EXCEPT ![t].pc = "ok"]
          /\ UNCHANGED <<mem, pend>>
    /\ UNCHANGED <<disk, lock, buffering, buffered, replay, payer, report, leg,
                   combined, raw, crashes, errors, staleWrite>>

RecordMppLeg(t) ==
    LET l == add[t].leg
        e == Recorded(mem["trusted"], l, leg[l])
    IN
    /\ add[t].pc = "record" /\ lock = Free
    /\ \/ /\ Recordable(l)
          /\ lock' = t
          /\ DoSet(t, "trusted", e)
          /\ add' = [add EXCEPT ![t].pc = "recorded", ![t].out = OutcomeOf(e)]
       \/ /\ ~Recordable(l)
          /\ add' = [add EXCEPT ![t].pc = "ok"]
          /\ UNCHANGED <<mem, pend, lock>>
    /\ UNCHANGED <<disk, buffering, buffered, replay, payer, report, leg,
                   combined, raw, crashes, errors, staleWrite>>

\* record_mpp_leg returns once its write has landed and drops the lock.
RecordReturn(t) ==
    /\ add[t].pc = "recorded" /\ Landed(t)
    /\ lock' = Free
    /\ add' = [add EXCEPT ![t].pc =
                 IF add[t].out = NoOutcome THEN "ok" ELSE "pushCombined"]
    /\ UNCHANGED <<mem, disk, pend, buffering, buffered, replay, payer, report,
                   leg, combined, raw, crashes, errors, staleWrite>>

\* push_event: the event is queued in memory whether or not the queue could
\* be persisted; a failed write is returned as an error.
PushEvent(t) ==
    /\ add[t].pc \in {"pushRaw", "pushCombined"}
    /\ IF add[t].pc = "pushRaw"
       THEN raw' = raw \cup {add[t].leg} /\ UNCHANGED combined
       ELSE combined' = Append(combined, add[t].out) /\ UNCHANGED raw
    /\ \/ /\ add' = [add EXCEPT ![t].pc = "ok"]
          /\ UNCHANGED errors
       \/ /\ errors < MaxErrors /\ errors' = errors + 1
          /\ add' = [add EXCEPT ![t].pc = "err"]
    /\ UNCHANGED <<mem, disk, pend, lock, buffering, buffered, replay, payer,
                   report, leg, crashes, staleWrite>>

-----------------------------------------------------------------------------
(***************************************************************************)
(* The process dies and is started again.  TxMetadataStore::new reads the  *)
(* entries back; the buffer, the call of `pay` and the melt task are gone, *)
(* while LDK still delivers what was not acknowledged.                     *)
(***************************************************************************)
CrashRestart ==
    /\ crashes < MaxCrashes /\ payer # "idle"
    /\ crashes' = crashes + 1
    /\ mem' = disk
    /\ pend' = [t \in Tasks |-> NoWrite]
    /\ lock' = Free
    /\ buffering' = FALSE /\ buffered' = <<>> /\ replay' = <<>>
    /\ payer' = "dead"
    /\ add' = [t \in Tasks |-> Idle(t)]
    /\ report' = [r \in Reporters |->
                    IF r = "melt" \/ report[r] = "done" THEN "done" ELSE "idle"]
    /\ UNCHANGED <<disk, leg, combined, raw, errors, staleWrite>>

Quiet ==
    \A t \in Tasks : add[t].pc = "idle" /\ Landed(t)

Settled(r) ==
    report[r] = "done" \/ leg[LegOf(r)].st \in {"unsent", "unknown"}

Terminated ==
    /\ payer \in {"done", "dead"} /\ Quiet
    /\ \A r \in Reporters : Settled(r) /\ leg[LegOf(r)].st # "inflight"
    /\ UNCHANGED vars

AddEventStep(t) ==
    \/ Flush(t) \/ RouteEvent(t) \/ BufferEvent(t)
    \/ RecordMppLeg(t) \/ RecordReturn(t) \/ PushEvent(t)

PayerStep ==
    \/ PayPartial \/ PayLightning
    \/ RegisterSurface \/ RegisterLightning
    \/ FinishMppSetup \/ ReplayEvent \/ ReplayReturn \/ PayReturns

Next ==
    \/ BeginMppSetup
    \/ PayerStep
    \/ \E l \in Legs : ResolveLeg(l)
    \/ \E r \in Reporters : StartReport(r) \/ FinishReport(r)
    \/ \E t \in Tasks : AddEventStep(t)
    \/ CrashRestart
    \/ Terminated

Spec == Init /\ [][Next]_vars

\* One task runs the steps of add_event between its own.
TaskStep(t) ==
    \/ AddEventStep(t)
    \/ t = "payer" /\ PayerStep
    \/ t \in Reporters /\ (StartReport(t) \/ FinishReport(t))

\* The runtime polls every task that can run, the mutex of tokio serves its
\* waiters in order, and the network answers.  Nobody has to pay: BeginMppSetup
\* is not fair.
Fairness ==
    /\ \A t \in Tasks : SF_vars(TaskStep(t))
    /\ \A l \in Legs : WF_vars(ResolveLeg(l))

FairSpec == Spec /\ Fairness

-----------------------------------------------------------------------------
Succeeded(l) == leg[l].st = "succeeded"

\* What an outcome claims about the legs is true.
OutcomeSound(c) ==
    \/ c = NoOutcome
    \/ /\ c.kind = "succeeded"
       /\ \A l \in Legs : Succeeded(l)
       /\ c.fee = SatAdd(leg["trusted"].fee, leg["lightning"].fee)
       /\ \E l \in Legs : c.preimage = leg[l].preimage
    \/ /\ c.kind = "failed"
       /\ \E l \in Legs : leg[l].st = "failed"

\* A combined success is only reported when both legs reported that they
\* settled, with the saturated sum of the fees both really paid and a preimage
\* one of them reported; a combined failure only when a leg reported a failure.  This holds
\* across redelivered LDK events, crashes and stale writes (record_mpp_leg).
CombinedSound ==
    \A i \in 1..Len(combined) :
        combined[i] # NoOutcome /\ OutcomeSound(combined[i])

\* The application sees at most one combined event per payment, whatever the
\* order of the legs, redeliveries, failing queue writes and restarts, unless
\* a KV write was overtaken: the stale write of try_mpp_bolt11's insert is the
\* only way to a second combined event (record_mpp_leg).
AtMostOneUnlessStale == staleWrite \/ Len(combined) <= 1

\* While record_mpp_leg waits for its write, the snapshot it is writing is the
\* latest in-memory entry: no other leg can slip in between (mpp_record_lock).
RecordSnapshotIsLatest ==
    \A t \in Tasks : add[t].pc = "recorded" /\ ~Landed(t) =>
        pend[t].key = "trusted" /\ pend[t].entry = mem["trusted"]

\* Once a combined event may be seen, the disk knows that the payment is
\* finalized, so that a restart cannot forget it (unless a write was overtaken).
FinalizedIsDurable ==
    combined # <<>> => staleWrite \/ disk["trusted"].finalized

\* When both legs are registered, their own events are not shown: the caller
\* surfaces "the single combined event ... instead of the per-leg ones".
NoLegEventSurfaced ==
    (\A l \in Legs : mem[l].ty = "mpp") => raw = {}

\* A leg's own event was shown although both legs are registered: it is not
\* recorded, and the payment's combined event can wait for it for ever.
Leaked == raw # {} /\ \A l \in Legs : mem[l].ty = "mpp"

\* A leg that resolved is never forgotten: once both legs are decided the
\* combined event comes, and once the trusted leg alone is decided and the
\* lightning leg could not be sent, the trusted leg's own event comes
\* (finish_mpp_setup, add_event).  Two exceptions: the process dies, and the
\* leak that NoLegEventSurfaced is about.
DecidedIsSurfaced ==
    ( /\ leg["trusted"].st \in {"succeeded", "failed"}
      /\ \/ leg["lightning"].st \in {"succeeded", "failed"}
         \/ leg["lightning"].st = "unsent" /\ payer = "done" )
    ~> \/ combined # <<>>
       \/ leg["lightning"].st = "unsent" /\ "trusted" \in raw
       \/ Leaked
       \/ crashes > 0

-----------------------------------------------------------------------------
(***************************************************************************)
(* The inductive invariant behind the properties above, in named parts.    *)
(***************************************************************************)
Resolved(l) == leg[l].st \in {"succeeded", "failed"}

\* A leg that has not been sent yet has no result.
NotYetSent ==
    /\ payer \in {"idle", "begun"} => leg["trusted"].st = "unsent"
    /\ payer \in {"idle", "begun", "partial"} => leg["lightning"].st = "unsent"

\* add_event only ever runs for a leg whose fate is decided.
EventsAreResolved ==
    /\ \A r \in Reporters : add[r].leg = LegOf(r)
    /\ \A t \in Tasks : add[t].pc # "idle" => Resolved(add[t].leg)
    /\ \A i \in 1..Len(buffered) : Resolved(buffered[i])
    /\ \A i \in 1..Len(replay) : Resolved(replay[i])

\* An entry holds only what the legs really did.
EntrySound(e) ==
    /\ \A l \in Legs : e.fee[l] # NoFee => Succeeded(l) /\ e.fee[l] = leg[l].fee
    /\ e.failed => \E l \in Legs : leg[l].st = "failed"
    /\ (\E l \in Legs : e.fee[l] # NoFee) =>
           \E l \in Legs : Succeeded(l) /\ e.preimage = leg[l].preimage

EntriesAreSound ==
    /\ \A l \in Legs : EntrySound(mem[l]) /\ EntrySound(disk[l])
    /\ \A t \in Tasks : EntrySound(pend[t].entry)

OutcomesAreSound ==
    /\ \A t \in Tasks : OutcomeSound(add[t].out)
    /\ \A t \in Tasks : add[t].pc = "pushCombined" => add[t].out # NoOutcome

\* The caller of `pay` adds events only in finish_mpp_setup.
PayerAddsInReplay == add["payer"].pc # "idle" => payer = "replay"

\* The record lock is held exactly while a leg's result is being written.
LockHeldByRecorder ==
    /\ \A t \in Tasks : add[t].pc = "recorded" <=> lock = t
    /\ \A t \in Tasks : add[t].pc = "recorded" => mem["trusted"].ty = "mpp"

\* Until try_mpp_bolt11 registers it, the payment has no metadata at all.
NotYetRegistered ==
    payer \in {"idle", "begun", "partial", "sent"} =>
        mem["trusted"] = Blank("none")

\* Task t has decided on the combined event and has not pushed it yet.
Holding(t) ==
    add[t].pc \in {"recorded", "pushCombined"} /\ add[t].out # NoOutcome

OneHolder ==
    /\ \A t \in Tasks : Holding(t) => mem["trusted"].finalized
    /\ \A t, u \in Tasks : Holding(t) /\ Holding(u) => t = u

\* Without an overtaken write, memory and disk agree on `finalized` from the
\* moment the combined event can be pushed.
FinalizedOnDiskFirst ==
    staleWrite \/
    /\ \A t \in Tasks : Holding(t) => combined = <<>>
    /\ Len(combined) <= 1
    /\ combined # <<>> => mem["trusted"].finalized /\ disk["trusted"].finalized
    /\ disk["trusted"].finalized => mem["trusted"].finalized
    /\ \A t \in Tasks : add[t].pc = "pushCombined" => disk["trusted"].finalized
    /\ \A t \in Tasks :
         add[t].pc = "recorded" /\ Landed(t) /\ mem["trusted"].finalized =>
             disk["trusted"].finalized

\* The conjunction is inductive: it holds initially and every step of the
\* payer, the reporting tasks, add_event and a restart preserves it.
MppInv ==
    /\ TypeOK
    /\ NotYetSent /\ EventsAreResolved
    /\ EntriesAreSound /\ OutcomesAreSound /\ CombinedSound
    /\ PayerAddsInReplay /\ NotYetRegistered
    /\ LockHeldByRecorder /\ RecordSnapshotIsLatest
    /\ OneHolder /\ FinalizedOnDiskFirst
=============================================================================
