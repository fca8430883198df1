------------------------ MODULE TrustedRebalanceProofs ------------------------
(***************************************************************************)
(* Proofs about TrustedRebalance, for any callers, receipts and transfers  *)
(* and any number of crashes: a step preserves the types, then each part   *)
(* of RebalanceInv, one lemma per action.                                  *)
(***************************************************************************)
EXTENDS TrustedRebalance, TLAPS

\* PaymentIds of different payments differ, and every payment's id is known.
LEMMA IdFacts ==
    /\ \A r \in Receipts : Trusted(r) \in Ids
    /\ \A s \in Transfers : Trusted(s) \in Ids /\ SelfCustodial(s) \in Ids
    /\ \A x, y : Trusted(x) = Trusted(y) => x = y
    /\ \A x, y : SelfCustodial(x) = SelfCustodial(y) => x = y
    /\ \A x, y : Trusted(x) # SelfCustodial(y)
    /\ \A r \in Receipts, s \in Transfers : Trusted(r) # Trusted(s)
BY RebalanceAssumption DEF Ids, Trusted, SelfCustodial

\* The entries the handlers write, field by field.
LEMMA MetaFacts ==
    /\ \A ty \in {"none", "payment", "trigger", "pending", "transfer"} :
         Plain(ty) \in Meta /\ Plain(ty).ty = ty
    /\ \A r \in Receipts :
         /\ Transfer(r) \in Meta /\ Transfer(r).ty = "transfer"
         /\ Transfer(r).trigger = r
BY DEF Meta, Plain, Transfer

\* The states of a caller that hold the mutex are neither idle nor panicked.
LEMMA IdleFacts ==
    /\ Idle \in Call /\ Idle.pc = "idle"
    /\ NoWrite \in Write
    /\ "idle" \notin Working /\ "panic" \notin Working /\ "idle" \notin Writing
    /\ None \notin Callers
BY RebalanceAssumption DEF Idle, Call, NoWrite, Write, Meta, Plain, Working, Writing

\* RebalanceInv, apart from the types and the callers' own states.
Records == UnsentIsUnknown /\ MemoryIsAhead /\ TransfersWellFormed /\ WrittenInOrder

\* What RebalanceInv says of caller c.
CallState(c) == VictimState(c) /\ SendState(c) /\ RecordState(c) /\ WriteState(c)

\* Only the holder of balance_mutex is inside a call.
LEMMA OneWorker ==
    ASSUME RebalanceInv, NEW c \in Callers, call[c].pc \in Working
    PROVE  /\ lock = c
           /\ \A d \in Callers : d # c => call[d].pc = "idle"
           /\ \A d \in Callers : d # c => pend[d] = NoWrite
<1>1. lock = c
  BY DEF RebalanceInv, TypeOK
<1>2. \A d \in Callers : d # c => call[d].pc = "idle"
  BY <1>1 DEF RebalanceInv, TypeOK, PromotionSucceeds, Call
<1>3. \A d \in Callers : d # c => pend[d] = NoWrite
  BY <1>2, IdleFacts DEF RebalanceInv, WriteState, Landed
<1> QED BY <1>1, <1>2, <1>3

-----------------------------------------------------------------------------
\* A metadata write of caller c keeps memory and the pending writes typed.
LEMMA DoSetType ==
    ASSUME TypeOK, NEW c \in Callers, NEW i \in Ids, NEW m \in Meta, DoSet(c, i, m)
    PROVE  /\ mem' \in [Ids -> Meta] /\ pend' \in [Callers -> Write]
           /\ mem' = [mem EXCEPT ![i] = m]
           /\ pend'[c] = [id |-> i, meta |-> m]
           /\ \A d \in Callers : d # c => pend'[d] = pend[d]
BY DEF TypeOK, DoSet, Write

\* A change of the record of one caller keeps the records typed.
LEMMA CallType ==
    ASSUME TypeOK, NEW c \in Callers, NEW k \in Call, call' = [call EXCEPT ![c] = k]
    PROVE  /\ call' \in [Callers -> Call] /\ call'[c] = k
           /\ \A d \in Callers : d # c => call'[d] = call[d]
BY DEF TypeOK

\* A step that moves caller c to another place only changes its `pc`.
LEMMA GotoType ==
    ASSUME TypeOK, NEW c \in Callers, NEW l \in {"idle", "panic"} \cup Working,
           Goto(c, l)
    PROVE  /\ call' \in [Callers -> Call] /\ call'[c] = [call[c] EXCEPT !.pc = l]
           /\ \A d \in Callers : d # c => call'[d] = call[d]
<1> DEFINE k == [call[c] EXCEPT !.pc = l]
<1>1. call[c] \in Call
  BY DEF TypeOK
<1>2. k \in Call
  BY <1>1 DEF Call
<1>3. call' = [call EXCEPT ![c] = k]
  BY DEF Goto
<1> HIDE DEF k
<1>4. call' \in [Callers -> Call] /\ call'[c] = k /\ \A d \in Callers : d # c => call'[d] = call[d]
  BY <1>2, <1>3, CallType
<1> QED BY <1>4 DEF k

\* A caller that returns is idle and the mutex is free.
LEMMA UnlockType ==
    ASSUME TypeOK, NEW c \in Callers, Unlock(c)
    PROVE  /\ call' \in [Callers -> Call] /\ call'[c] = Idle /\ lock' = None
           /\ \A d \in Callers : d # c => call'[d] = call[d]
BY IdleFacts DEF TypeOK, Unlock

-----------------------------------------------------------------------------
\* RebalanceInv and its two summaries.
LEMMA InvParts ==
    RebalanceInv <=> /\ TypeOK /\ PromotionSucceeds /\ Records
                     /\ \A c \in Callers : CallState(c)
BY DEF RebalanceInv, Records, CallState

\* An idle caller without a write under way satisfies every part.
LEMMA IdleState ==
    ASSUME NEW c \in Callers, call[c].pc = "idle", pend[c] = NoWrite
    PROVE  CallState(c)
BY DEF CallState, VictimState, SendState, RecordState, WriteState, Landed,
       Selected, Initiated, Recording, Writing

\* The same after a step.
LEMMA IdleStateNext ==
    ASSUME NEW c \in Callers, call'[c].pc = "idle", pend'[c] = NoWrite
    PROVE  CallState(c)'
BY DEF CallState, VictimState, SendState, RecordState, WriteState, Landed,
       Selected, Initiated, Recording, Writing

\* A step of the holder of the mutex: the other callers stay idle.
LEMMA WorkerStep ==
    ASSUME RebalanceInv, NEW c \in Callers, call[c].pc \in Working,
           \A d \in Callers : d # c => call'[d] = call[d] /\ pend'[d] = pend[d],
           TypeOK', call'[c].pc # "panic", CallState(c)', Records'
    PROVE  RebalanceInv'
<1>1. \A d \in Callers : d # c => call'[d].pc = "idle" /\ pend'[d] = NoWrite
  BY OneWorker
<1>2. \A d \in Callers : CallState(d)'
  BY <1>1, IdleStateNext
<1>3. PromotionSucceeds'
  BY <1>1 DEF PromotionSucceeds
<1> QED BY <1>2, <1>3, InvParts DEF RebalanceInv, Records, CallState

\* The records do not change when neither memory, disk nor payments do.
LEMMA SameRecords ==
    ASSUME RebalanceInv, UNCHANGED <<mem, disk, out>>
    PROVE  Records'
BY DEF RebalanceInv, Records, UnsentIsUnknown, MemoryIsAhead,
       TransfersWellFormed, WrittenInOrder, TransferOf

\* A caller that returns with its write landed.
LEMMA ReturnStep ==
    ASSUME RebalanceInv, NEW c \in Callers, call[c].pc \in Working, Unlock(c),
           Landed(c), TypeOK', UNCHANGED <<mem, disk, pend, out>>
    PROVE  RebalanceInv'
<1>0. TypeOK
  BY DEF RebalanceInv
<1>1. call'[c].pc = "idle" /\ \A d \in Callers : d # c => call'[d] = call[d]
  BY <1>0, UnlockType, IdleFacts
<1>2. CallState(c)'
  BY <1>1, IdleStateNext DEF Landed
<1> QED BY <1>1, <1>2, SameRecords, WorkerStep

\* Types are kept when only the call of c and the mutex change.
LEMMA ControlType ==
    ASSUME TypeOK, NEW c \in Callers, call[c].pc \in Working, lock = c,
           call' \in [Callers -> Call],
           \A d \in Callers : d # c => call'[d] = call[d],
           \/ lock' = lock /\ call'[c].pc \in Working
           \/ lock' = None /\ call'[c].pc \notin Working,
           UNCHANGED <<enabled, settled, mem, disk, pend, ln, noticed, reported,
                       shown, spawned, missed, crashes>>,
           out' \in [Transfers -> {"unsent", "sent", "paid", "failed"}]
    PROVE  TypeOK'
BY IdleFacts DEF TypeOK

-----------------------------------------------------------------------------
(* The steps of a caller that only move it on. *)

\* LockBalance(c) preserves the invariant: nobody else is inside a call.
LEMMA LockStep ==
    ASSUME RebalanceInv, NEW c \in Callers, LockBalance(c)
    PROVE  RebalanceInv'
<1>0. TypeOK /\ PromotionSucceeds /\ call[c].pc = "idle" /\ lock = None
  BY DEF RebalanceInv, LockBalance
<1>1. /\ call' \in [Callers -> Call] /\ call'[c] = [call[c] EXCEPT !.pc = "check"]
      /\ \A d \in Callers : d # c => call'[d] = call[d]
  BY <1>0, GotoType DEF LockBalance, Working
<1>2. call'[c].pc = "check"
  BY <1>0, <1>1 DEF TypeOK, Call
<1>3. TypeOK'
  <2>1. \A d \in Callers : lock' = d <=> call'[d].pc \in Working
    <3>1. lock' = c /\ call'[c].pc \in Working
      BY <1>2 DEF LockBalance, Working
    <3>2. ASSUME NEW d \in Callers, d # c PROVE call'[d].pc \notin Working
      <4>1. call'[d] = call[d]
        BY <1>1, <3>2
      <4>2. lock # d
        BY <1>0, IdleFacts
      <4> QED BY <1>0, <4>1, <4>2 DEF TypeOK
    <3> QED BY <3>1, <3>2
  <2>2. lock' \in Callers \cup {None}
    BY DEF LockBalance
  <2> QED BY <1>0, <1>1, <2>1, <2>2 DEF TypeOK, LockBalance
<1>4. \A d \in Callers : call[d].pc = "idle"
  BY <1>0, IdleFacts DEF TypeOK, PromotionSucceeds, Call
<1>5. \A d \in Callers : pend[d] = NoWrite
  BY <1>4, IdleFacts DEF RebalanceInv, WriteState, Landed
<1>6. CallState(c)'
  BY <1>2, <1>5 DEF CallState, VictimState, SendState, RecordState, WriteState,
     Landed, Selected, Initiated, Recording, Writing, LockBalance
<1>7. \A d \in Callers : CallState(d)'
  BY <1>1, <1>4, <1>5, <1>6, IdleStateNext DEF LockBalance
<1>8. PromotionSucceeds'
  BY <1>1, <1>2, <1>4 DEF PromotionSucceeds
<1>9. Records'
  BY SameRecords DEF LockBalance
<1> QED BY <1>3, <1>7, <1>8, <1>9 DEF RebalanceInv, Records, CallState

\* ListPayments(c) preserves the invariant.
LEMMA ListStep ==
    ASSUME RebalanceInv, NEW c \in Callers, ListPayments(c)
    PROVE  RebalanceInv'
<1>0. TypeOK /\ call[c].pc = "check" /\ call[c].pc \in Working /\ lock = c
  BY OneWorker DEF RebalanceInv, ListPayments, Working
<1>1. Landed(c) /\ call[c].fresh \subseteq Receipts
  BY <1>0 DEF RebalanceInv, WriteState, Writing, TypeOK, Call
<1>2. CASE Unlock(c)
  <2>1. TypeOK'
    BY <1>0, <1>2, UnlockType, ControlType, IdleFacts DEF ListPayments, TypeOK
  <2> QED BY <1>0, <1>1, <1>2, <2>1, ReturnStep DEF ListPayments
<1>3. CASE /\ call' = [call EXCEPT ![c] =
                [Idle EXCEPT !.pc = "scan",
                             !.scan = {r \in Receipts : settled[r] # 0}]]
           /\ UNCHANGED lock
  <2> DEFINE sc == {r \in Receipts : settled[r] # 0}
             k == [Idle EXCEPT !.pc = "scan", !.scan = sc]
  <2>0. sc \subseteq Receipts
    OBVIOUS
  <2>2. call' = [call EXCEPT ![c] = k]
    BY <1>3
  <2> HIDE DEF sc
  <2>1. k \in Call /\ k.pc = "scan" /\ k.fresh = {} /\ k.known = {}
    BY <2>0 DEF Call, Idle, Working
  <2> HIDE DEF k
  <2>3. /\ call' \in [Callers -> Call] /\ call'[c] = k
        /\ \A d \in Callers : d # c => call'[d] = call[d]
    BY <1>0, <2>1, <2>2, CallType
  <2>4. TypeOK'
    BY <1>0, <1>3, <2>1, <2>3, ControlType DEF ListPayments, TypeOK, Working
  <2>6. CallState(c)'
    BY <1>1, <2>1, <2>3 DEF CallState, VictimState, SendState, RecordState,
       WriteState, Landed, Selected, Initiated, Recording, Writing, ListPayments
  <2> QED BY <1>0, <2>1, <2>3, <2>4, <2>6, SameRecords, WorkerStep DEF ListPayments
<1> QED BY <1>2, <1>3 DEF ListPayments

\* AwaitReceipt(c) preserves the invariant.
LEMMA AwaitReceiptStep ==
    ASSUME RebalanceInv, NEW c \in Callers, AwaitReceipt(c)
    PROVE  RebalanceInv'
<1>0. TypeOK /\ call[c].pc \in {"awaitLn"} /\ call[c].pc \in Working /\ lock = c
  BY OneWorker DEF RebalanceInv, AwaitReceipt, Working
<1>1. Landed(c)
  BY <1>0 DEF RebalanceInv, WriteState, Writing, AwaitReceipt
<1>2. CASE Unlock(c)
  <2>1. TypeOK'
    BY <1>0, <1>2, UnlockType, ControlType, IdleFacts DEF AwaitReceipt, TypeOK
  <2> QED BY <1>0, <1>1, <1>2, <2>1, ReturnStep DEF AwaitReceipt
<1>3. CASE Goto(c, "awaitOut") /\ UNCHANGED lock
  <2>1. /\ call' \in [Callers -> Call] /\ call'[c] = [call[c] EXCEPT !.pc = "awaitOut"]
        /\ \A d \in Callers : d # c => call'[d] = call[d]
    BY <1>0, <1>3, GotoType DEF Working
  <2>2. /\ call'[c].pc = "awaitOut" /\ call'[c].victim = call[c].victim
        /\ call'[c].send = call[c].send
    BY <1>0, <2>1 DEF TypeOK, Call
  <2>3. TypeOK'
    BY <1>0, <1>3, <2>1, <2>2, ControlType DEF AwaitReceipt, TypeOK, Working
  <2>4. CallState(c)'
    BY <1>0, <1>1, <1>3, <2>2 DEF RebalanceInv, AwaitReceipt, CallState, VictimState, SendState, RecordState, WriteState,
       Landed, Selected, Initiated, Recording, Writing
  <2> QED BY <1>0, <2>1, <2>2, <2>3, <2>4, SameRecords, WorkerStep DEF AwaitReceipt
<1>4. CASE Goto(c, "armLn") /\ UNCHANGED lock
  <2>1. /\ call' \in [Callers -> Call] /\ call'[c] = [call[c] EXCEPT !.pc = "armLn"]
        /\ \A d \in Callers : d # c => call'[d] = call[d]
    BY <1>0, <1>4, GotoType DEF Working
  <2>2. /\ call'[c].pc = "armLn" /\ call'[c].victim = call[c].victim
        /\ call'[c].send = call[c].send
    BY <1>0, <2>1 DEF TypeOK, Call
  <2>3. TypeOK'
    BY <1>0, <1>4, <2>1, <2>2, ControlType DEF AwaitReceipt, TypeOK, Working
  <2>4. CallState(c)'
    BY <1>0, <1>1, <1>4, <2>2 DEF RebalanceInv, AwaitReceipt, CallState, VictimState, SendState, RecordState, WriteState,
       Landed, Selected, Initiated, Recording, Writing
  <2> QED BY <1>0, <2>1, <2>2, <2>3, <2>4, SameRecords, WorkerStep DEF AwaitReceipt
<1> QED BY <1>0, <1>2, <1>3, <1>4 DEF AwaitReceipt

\* AwaitSuccess(c) preserves the invariant.
LEMMA AwaitSuccessStep ==
    ASSUME RebalanceInv, NEW c \in Callers, AwaitSuccess(c)
    PROVE  RebalanceInv'
<1>0. TypeOK /\ call[c].pc \in {"awaitOut"} /\ call[c].pc \in Working /\ lock = c
  BY OneWorker DEF RebalanceInv, AwaitSuccess, Working
<1>1. Landed(c)
  BY <1>0 DEF RebalanceInv, WriteState, Writing, AwaitSuccess
<1>2. CASE Unlock(c)
  <2>1. TypeOK'
    BY <1>0, <1>2, UnlockType, ControlType, IdleFacts DEF AwaitSuccess, TypeOK
  <2> QED BY <1>0, <1>1, <1>2, <2>1, ReturnStep DEF AwaitSuccess
<1>3. CASE Goto(c, "promote") /\ UNCHANGED lock
  <2>1. /\ call' \in [Callers -> Call] /\ call'[c] = [call[c] EXCEPT !.pc = "promote"]
        /\ \A d \in Callers : d # c => call'[d] = call[d]
    BY <1>0, <1>3, GotoType DEF Working
  <2>2. /\ call'[c].pc = "promote" /\ call'[c].victim = call[c].victim
        /\ call'[c].send = call[c].send
    BY <1>0, <2>1 DEF TypeOK, Call
  <2>3. TypeOK'
    BY <1>0, <1>3, <2>1, <2>2, ControlType DEF AwaitSuccess, TypeOK, Working
  <2>4. CallState(c)'
    BY <1>0, <1>1, <1>3, <2>2 DEF RebalanceInv, AwaitSuccess, CallState, VictimState, SendState, RecordState, WriteState,
       Landed, Selected, Initiated, Recording, Writing
  <2> QED BY <1>0, <2>1, <2>2, <2>3, <2>4, SameRecords, WorkerStep DEF AwaitSuccess
<1>4. CASE Goto(c, "armOut") /\ UNCHANGED lock
  <2>1. /\ call' \in [Callers -> Call] /\ call'[c] = [call[c] EXCEPT !.pc = "armOut"]
        /\ \A d \in Callers : d # c => call'[d] = call[d]
    BY <1>0, <1>4, GotoType DEF Working
  <2>2. /\ call'[c].pc = "armOut" /\ call'[c].victim = call[c].victim
        /\ call'[c].send = call[c].send
    BY <1>0, <2>1 DEF TypeOK, Call
  <2>3. TypeOK'
    BY <1>0, <1>4, <2>1, <2>2, ControlType DEF AwaitSuccess, TypeOK, Working
  <2>4. CallState(c)'
    BY <1>0, <1>1, <1>4, <2>2 DEF RebalanceInv, AwaitSuccess, CallState, VictimState, SendState, RecordState, WriteState,
       Landed, Selected, Initiated, Recording, Writing
  <2> QED BY <1>0, <2>1, <2>2, <2>3, <2>4, SameRecords, WorkerStep DEF AwaitSuccess
<1> QED BY <1>0, <1>2, <1>3, <1>4 DEF AwaitSuccess

\* MarkUnchanged(c) preserves the invariant.
LEMMA MarkStep ==
    ASSUME RebalanceInv, NEW c \in Callers, MarkUnchanged(c)
    PROVE  RebalanceInv'
<1>0. TypeOK /\ call[c].pc \in {"armLn", "armOut"} /\ call[c].pc \in Working /\ lock = c
  BY OneWorker DEF RebalanceInv, MarkUnchanged, Working
<1>1. Landed(c)
  BY <1>0 DEF RebalanceInv, WriteState, Writing, MarkUnchanged
<1>2. CASE call[c].pc = "armLn" /\ Goto(c, "sleepLn") /\ UNCHANGED lock
  <2>1. /\ call' \in [Callers -> Call] /\ call'[c] = [call[c] EXCEPT !.pc = "sleepLn"]
        /\ \A d \in Callers : d # c => call'[d] = call[d]
    BY <1>0, <1>2, GotoType DEF Working
  <2>2. /\ call'[c].pc = "sleepLn" /\ call'[c].victim = call[c].victim
        /\ call'[c].send = call[c].send
    BY <1>0, <2>1 DEF TypeOK, Call
  <2>3. TypeOK'
    BY <1>0, <1>2, <2>1, <2>2, ControlType DEF MarkUnchanged, TypeOK, Working
  <2>4. CallState(c)'
    BY <1>0, <1>1, <1>2, <2>2 DEF RebalanceInv, MarkUnchanged, CallState, VictimState, SendState, RecordState, WriteState,
       Landed, Selected, Initiated, Recording, Writing
  <2> QED BY <1>0, <2>1, <2>2, <2>3, <2>4, SameRecords, WorkerStep DEF MarkUnchanged
<1>3. CASE call[c].pc = "armOut" /\ Goto(c, "sleepOut") /\ UNCHANGED lock
  <2>1. /\ call' \in [Callers -> Call] /\ call'[c] = [call[c] EXCEPT !.pc = "sleepOut"]
        /\ \A d \in Callers : d # c => call'[d] = call[d]
    BY <1>0, <1>3, GotoType DEF Working
  <2>2. /\ call'[c].pc = "sleepOut" /\ call'[c].victim = call[c].victim
        /\ call'[c].send = call[c].send
    BY <1>0, <2>1 DEF TypeOK, Call
  <2>3. TypeOK'
    BY <1>0, <1>3, <2>1, <2>2, ControlType DEF MarkUnchanged, TypeOK, Working
  <2>4. CallState(c)'
    BY <1>0, <1>1, <1>3, <2>2 DEF RebalanceInv, MarkUnchanged, CallState, VictimState, SendState, RecordState, WriteState,
       Landed, Selected, Initiated, Recording, Writing
  <2> QED BY <1>0, <2>1, <2>2, <2>3, <2>4, SameRecords, WorkerStep DEF MarkUnchanged
<1> QED BY <1>0, <1>2, <1>3 DEF MarkUnchanged

\* Types are kept when the application is told something, too.
LEMMA TellType ==
    ASSUME TypeOK, NEW c \in Callers, call[c].pc \in Working, lock = c,
           call' \in [Callers -> Call],
           \A d \in Callers : d # c => call'[d] = call[d],
           \/ lock' = lock /\ call'[c].pc \in Working
           \/ lock' = None /\ call'[c].pc \notin Working,
           UNCHANGED <<enabled, settled, mem, disk, pend, out, ln, noticed,
                       reported, missed, crashes>>,
           shown' \subseteq Told, spawned' \subseteq Transfers
    PROVE  TypeOK'
BY IdleFacts DEF TypeOK

\* AddInitiated(c) preserves the invariant.
LEMMA AnnounceStep ==
    ASSUME RebalanceInv, NEW c \in Callers, AddInitiated(c)
    PROVE  RebalanceInv'
<1>0. TypeOK /\ call[c].pc = "announce" /\ call[c].pc \in Working /\ lock = c /\ Landed(c)
  BY OneWorker DEF RebalanceInv, AddInitiated, Working
<1>1. call[c].send \in Transfers
  BY <1>0 DEF RebalanceInv, SendState, Initiated
<1>2. /\ UNCHANGED <<enabled, settled, mem, disk, pend, lock, out, ln, noticed,
                     reported, spawned, missed, crashes>>
      /\ Goto(c, "awaitLn")
      /\ shown' \subseteq Told /\ spawned' \subseteq Transfers
  BY <1>0, <1>1 DEF AddInitiated, TypeOK, Told
<1>3. /\ call' \in [Callers -> Call] /\ call'[c] = [call[c] EXCEPT !.pc = "awaitLn"]
      /\ \A d \in Callers : d # c => call'[d] = call[d]
  BY <1>0, <1>2, GotoType DEF Working
<1>4. /\ call'[c].pc = "awaitLn" /\ call'[c].victim = call[c].victim
      /\ call'[c].send = call[c].send
  BY <1>0, <1>3 DEF TypeOK, Call
<1>5. call'[c].pc \in Working
  BY <1>4 DEF Working
<1>6. TypeOK'
  BY <1>0, <1>2, <1>3, <1>5, TellType
<1>7. CallState(c)'
  BY <1>0, <1>2, <1>4 DEF RebalanceInv, CallState, VictimState, SendState, RecordState,
     WriteState, Landed, Selected, Initiated, Recording, Writing
<1> QED BY <1>0, <1>2, <1>3, <1>4, <1>6, <1>7, SameRecords, WorkerStep

\* Finish(c) preserves the invariant.
LEMMA FinishStep ==
    ASSUME RebalanceInv, NEW c \in Callers, Finish(c)
    PROVE  RebalanceInv'
<1>0. TypeOK /\ call[c].pc = "finish" /\ call[c].pc \in Working /\ lock = c /\ Landed(c)
  BY OneWorker DEF RebalanceInv, Finish, Working
<1>1. call[c].send \in Transfers
  BY <1>0 DEF RebalanceInv, SendState, Recording
<1>2. /\ UNCHANGED <<enabled, settled, mem, disk, pend, out, ln, noticed,
                     reported, shown, missed, crashes>>
      /\ Unlock(c) /\ lock' = None
      /\ shown' \subseteq Told /\ spawned' \subseteq Transfers
  BY <1>0, <1>1 DEF Finish, TypeOK, Unlock
<1>3. /\ call' \in [Callers -> Call] /\ call'[c].pc \notin Working
      /\ \A d \in Callers : d # c => call'[d] = call[d]
  BY <1>0, <1>2, UnlockType, IdleFacts
<1>4. TypeOK'
  BY <1>0, <1>2, <1>3, TellType
<1> QED BY <1>0, <1>2, <1>4, ReturnStep

\* SelectVictim(c) preserves the invariant: it blames a plain payment.
LEMMA SelectStep ==
    ASSUME RebalanceInv, NEW c \in Callers, SelectVictim(c)
    PROVE  RebalanceInv'
<1>0. TypeOK /\ call[c].pc = "scan" /\ call[c].pc \in Working /\ lock = c /\ Landed(c)
  BY OneWorker DEF RebalanceInv, SelectVictim, Working
<1>1. CASE Unlock(c)
  <2>1. TypeOK'
    BY <1>0, <1>1, UnlockType, ControlType, IdleFacts DEF SelectVictim, TypeOK
  <2> QED BY <1>0, <1>1, <2>1, ReturnStep DEF SelectVictim
<1>2. ASSUME NEW r \in Victims(call[c]),
             call' = [call EXCEPT ![c].pc = "pay", ![c].victim = r], UNCHANGED lock
      PROVE  RebalanceInv'
  <2>1. r \in call[c].fresh \cup call[c].known
    BY DEF Victims
  <2>2. r \in Receipts /\ mem[Trusted(r)].ty = "payment"
    BY <1>0, <2>1 DEF TypeOK, Call, RebalanceInv, VictimState
  <2> DEFINE k == [call[c] EXCEPT !.pc = "pay", !.victim = r]
  <2>a. call[c] \in Call
    BY <1>0 DEF TypeOK
  <2>3. k \in Call /\ k.pc = "pay" /\ k.victim = r
    BY <2>a, <2>2 DEF Call, Working
  <2>4. call' = [call EXCEPT ![c] = k]
    BY <1>2, <1>0 DEF TypeOK
  <2> HIDE DEF k
  <2>5. /\ call' \in [Callers -> Call] /\ call'[c] = k
        /\ \A d \in Callers : d # c => call'[d] = call[d]
    BY <1>0, <2>3, <2>4, CallType
  <2>6. TypeOK'
    BY <1>0, <1>2, <2>3, <2>5, ControlType DEF SelectVictim, TypeOK, Working
  <2>7. CallState(c)'
    BY <1>0, <2>2, <2>3, <2>5 DEF SelectVictim, CallState, VictimState, SendState, RecordState, WriteState,
       Landed, Selected, Initiated, Recording, Writing
  <2> QED BY <1>0, <2>3, <2>5, <2>6, <2>7, SameRecords, WorkerStep DEF SelectVictim
<1> QED BY <1>1, <1>2 DEF SelectVictim

\* PayTrusted(c) preserves the invariant: the payment is a new one.
LEMMA PayStep ==
    ASSUME RebalanceInv, NEW c \in Callers, PayTrusted(c)
    PROVE  RebalanceInv'
<1>0. TypeOK /\ call[c].pc = "pay" /\ call[c].pc \in Working /\ lock = c
  BY OneWorker DEF RebalanceInv, PayTrusted, Working
<1>1. Landed(c)
  BY <1>0 DEF RebalanceInv, WriteState, Writing
<1>2. CASE Unlock(c) /\ UNCHANGED out
  <2>1. TypeOK'
    BY <1>0, <1>2, UnlockType, ControlType, IdleFacts DEF PayTrusted, TypeOK
  <2> QED BY <1>0, <1>1, <1>2, <2>1, ReturnStep DEF PayTrusted
<1>3. ASSUME NEW s \in Transfers, out[s] = "unsent", out' = [out EXCEPT ![s] = "sent"],
             call' = [call EXCEPT ![c].pc = "initiate", ![c].send = s], UNCHANGED lock
      PROVE  RebalanceInv'
  <2>1. mem[Trusted(s)].ty = "none" /\ mem[SelfCustodial(s)].ty = "none"
    BY <1>3 DEF RebalanceInv, UnsentIsUnknown
  <2>2. call[c].victim \in Receipts /\ mem[Trusted(call[c].victim)].ty = "payment"
    BY <1>0 DEF RebalanceInv, VictimState, Selected
  <2> DEFINE k == [call[c] EXCEPT !.pc = "initiate", !.send = s]
  <2>a. call[c] \in Call
    BY <1>0 DEF TypeOK
  <2>3. k \in Call /\ k.pc = "initiate" /\ k.send = s /\ k.victim = call[c].victim
    BY <2>a DEF Call, Working
  <2>4. call' = [call EXCEPT ![c] = k]
    BY <1>3, <1>0 DEF TypeOK
  <2> HIDE DEF k
  <2>5. /\ call' \in [Callers -> Call] /\ call'[c] = k
        /\ \A d \in Callers : d # c => call'[d] = call[d]
    BY <1>0, <2>3, <2>4, CallType
  <2>6. /\ out' \in [Transfers -> {"unsent", "sent", "paid", "failed"}]
        /\ out'[s] = "sent" /\ \A u \in Transfers : u # s => out'[u] = out[u]
    BY <1>0, <1>3 DEF TypeOK
  <2>b. UNCHANGED <<enabled, settled, mem, disk, pend, ln, noticed, reported,
                    shown, spawned, missed, crashes>>
    BY DEF PayTrusted
  <2>c. call'[c].pc \in Working
    BY <2>3, <2>5 DEF Working
  <2>7. TypeOK'
    BY <1>0, <1>3, <2>b, <2>c, <2>5, <2>6, ControlType
  <2>8. CallState(c)'
    BY <1>1, <2>1, <2>2, <2>3, <2>5, <2>6 DEF PayTrusted, CallState, VictimState, SendState, RecordState, WriteState,
       Landed, Selected, Initiated, Recording, Writing
  <2>9. Records'
    BY <2>6 DEF PayTrusted, RebalanceInv, Records, UnsentIsUnknown, MemoryIsAhead,
       TransfersWellFormed, WrittenInOrder, TransferOf
  <2> QED BY <1>0, <2>3, <2>5, <2>7, <2>8, <2>9, WorkerStep DEF PayTrusted
<1> QED BY <1>2, <1>3 DEF PayTrusted

-----------------------------------------------------------------------------
(* The steps of a caller that write metadata. *)

\* Types are kept by a metadata write of the holder of the mutex.
LEMMA WriteType ==
    ASSUME TypeOK, NEW c \in Callers, call[c].pc \in Working, lock = c,
           call' \in [Callers -> Call], lock' = lock, call'[c].pc \in Working,
           \A d \in Callers : d # c => call'[d] = call[d],
           mem' \in [Ids -> Meta], pend' \in [Callers -> Write],
           UNCHANGED <<enabled, settled, disk, out, ln, noticed, reported,
                       shown, spawned, missed, crashes>>
    PROVE  TypeOK'
BY IdleFacts DEF TypeOK

\* ScanReceipt(c, r) preserves the invariant: only a receipt without an entry
\* is written, so that nothing that was recorded is overwritten.
LEMMA ScanStep ==
    ASSUME RebalanceInv, NEW c \in Callers, NEW r \in Receipts, ScanReceipt(c, r)
    PROVE  RebalanceInv'
<1>0. TypeOK /\ call[c].pc = "scan" /\ call[c].pc \in Working /\ lock = c /\ Landed(c)
  BY OneWorker DEF RebalanceInv, ScanReceipt, Working
<1>a. call[c] \in Call
  BY <1>0 DEF TypeOK
<1>b. \A x \in call[c].fresh \cup call[c].known : mem[Trusted(x)].ty = "payment"
  BY <1>0 DEF RebalanceInv, VictimState
<1>1. CASE mem[Trusted(r)].ty = "none"
  <2> DEFINE k == [call[c] EXCEPT !.scan = @ \ {r}, !.fresh = @ \cup {r}]
  <2>1. /\ k \in Call /\ k.pc = "scan" /\ k.fresh = call[c].fresh \cup {r}
        /\ k.known = call[c].known
    BY <1>0, <1>a DEF Call
  <2>2. call' = [call EXCEPT ![c] = k]
    BY <1>0, <1>1 DEF ScanReceipt, TypeOK
  <2> HIDE DEF k
  <2>3. /\ call' \in [Callers -> Call] /\ call'[c] = k
        /\ \A d \in Callers : d # c => call'[d] = call[d]
    BY <1>0, <2>1, <2>2, CallType
  <2>4. DoSet(c, Trusted(r), Plain("payment"))
    BY <1>1 DEF ScanReceipt
  <2>5. /\ mem' \in [Ids -> Meta] /\ pend' \in [Callers -> Write]
        /\ mem' = [mem EXCEPT ![Trusted(r)] = Plain("payment")]
        /\ pend'[c] = [id |-> Trusted(r), meta |-> Plain("payment")]
        /\ \A d \in Callers : d # c => pend'[d] = pend[d]
    BY <1>0, <2>4, DoSetType, IdFacts, MetaFacts
  <2>6. /\ mem'[Trusted(r)].ty = "payment" /\ pend'[c].id = Trusted(r)
        /\ pend'[c].meta = mem'[Trusted(r)]
        /\ \A i \in Ids : i # Trusted(r) => mem'[i] = mem[i]
    BY <1>0, <2>5, IdFacts, MetaFacts DEF TypeOK
  <2>7. TypeOK'
    BY <1>0, <2>1, <2>3, <2>5, WriteType DEF ScanReceipt
  <2>8. CallState(c)'
    <3>1. \A x \in k.fresh \cup k.known : x \in Receipts /\ mem'[Trusted(x)].ty = "payment"
      BY <1>a, <1>b, <2>1, <2>6, IdFacts DEF Call
    <3> QED BY <3>1, <2>1, <2>3, <2>6, IdFacts DEF CallState, VictimState, SendState, RecordState, WriteState,
       Landed, Selected, Initiated, Recording, Writing
  <2>9. Records'
    BY <1>1, <2>6, IdFacts DEF ScanReceipt, RebalanceInv, Records, UnsentIsUnknown,
       MemoryIsAhead, TransfersWellFormed, WrittenInOrder, TransferOf
  <2> QED BY <1>0, <2>1, <2>3, <2>5, <2>7, <2>8, <2>9, WorkerStep
<1>2. CASE mem[Trusted(r)].ty # "none"
  <2> DEFINE kn == IF mem[Trusted(r)].ty = "payment"
                   THEN call[c].known \cup {r} ELSE call[c].known
             k == [call[c] EXCEPT !.scan = @ \ {r}, !.known = kn]
  <2>0. kn \subseteq Receipts /\ \A x \in kn : mem[Trusted(x)].ty = "payment"
    BY <1>a, <1>b DEF Call
  <2>2. call' = [call EXCEPT ![c] = k]
    BY <1>0, <1>2 DEF ScanReceipt, TypeOK
  <2> HIDE DEF kn
  <2>1. k \in Call /\ k.pc = "scan" /\ k.fresh = call[c].fresh /\ k.known = kn
    BY <1>0, <1>a, <2>0 DEF Call
  <2> HIDE DEF k
  <2>3. /\ call' \in [Callers -> Call] /\ call'[c] = k
        /\ \A d \in Callers : d # c => call'[d] = call[d]
    BY <1>0, <2>1, <2>2, CallType
  <2>b. UNCHANGED <<enabled, settled, mem, disk, pend, lock, out, ln, noticed,
                    reported, shown, spawned, missed, crashes>>
    BY <1>2 DEF ScanReceipt
  <2>4. TypeOK'
    BY <1>0, <2>1, <2>3, <2>b, ControlType DEF TypeOK
  <2>5. CallState(c)'
    BY <1>0, <1>b, <2>0, <2>1, <2>3, <2>b DEF CallState, VictimState, SendState, RecordState, WriteState,
       Landed, Selected, Initiated, Recording, Writing
  <2> QED BY <1>0, <2>1, <2>3, <2>4, <2>5, <2>b, SameRecords, WorkerStep
<1> QED BY <1>1, <1>2

\* RebalanceInitiated(c) preserves the invariant: the payment had no entry.
LEMMA InitiatedStep ==
    ASSUME RebalanceInv, NEW c \in Callers, RebalanceInitiated(c)
    PROVE  RebalanceInv'
<1>0. TypeOK /\ call[c].pc = "initiate" /\ call[c].pc \in Working /\ lock = c /\ Landed(c)
  BY OneWorker DEF RebalanceInv, RebalanceInitiated, Working, WriteState, Writing
<1>1. /\ call[c].send \in Transfers /\ out[call[c].send] # "unsent"
      /\ mem[Trusted(call[c].send)].ty = "none"
      /\ mem[SelfCustodial(call[c].send)].ty = "none"
      /\ call[c].victim \in Receipts /\ mem[Trusted(call[c].victim)].ty = "payment"
  BY <1>0 DEF RebalanceInv, SendState, VictimState, Selected
<1>2. DoSet(c, Trusted(call[c].send), Plain("pending")) /\ Goto(c, "announce") /\ UNCHANGED lock
  BY <1>1 DEF RebalanceInitiated
<1>3. /\ mem' \in [Ids -> Meta] /\ pend' \in [Callers -> Write]
      /\ mem' = [mem EXCEPT ![Trusted(call[c].send)] = Plain("pending")]
      /\ pend'[c] = [id |-> Trusted(call[c].send), meta |-> Plain("pending")]
      /\ \A d \in Callers : d # c => pend'[d] = pend[d]
  BY <1>0, <1>1, <1>2, DoSetType, IdFacts, MetaFacts
<1>4. /\ mem'[Trusted(call[c].send)] = Plain("pending")
      /\ pend'[c].id = Trusted(call[c].send) /\ pend'[c].meta = Plain("pending")
      /\ \A i \in Ids : i # Trusted(call[c].send) => mem'[i] = mem[i]
  BY <1>0, <1>1, <1>3, IdFacts DEF TypeOK
<1>5. /\ call' \in [Callers -> Call] /\ call'[c] = [call[c] EXCEPT !.pc = "announce"]
      /\ \A d \in Callers : d # c => call'[d] = call[d]
  BY <1>0, <1>2, GotoType DEF Working
<1>6. /\ call'[c].pc = "announce" /\ call'[c].victim = call[c].victim
      /\ call'[c].send = call[c].send
  BY <1>0, <1>5 DEF TypeOK, Call
<1>b. UNCHANGED <<enabled, settled, disk, out, ln, noticed, reported, shown,
                  spawned, missed, crashes>>
  BY DEF RebalanceInitiated
<1>c. ~Landed(c)'
  BY <1>1, <1>4, MetaFacts DEF Landed, NoWrite
<1>7. TypeOK'
  BY <1>0, <1>2, <1>3, <1>5, <1>6, <1>b, WriteType DEF Working
<1>8. CallState(c)'
  BY <1>0, <1>1, <1>4, <1>6, <1>b, <1>c, IdFacts, MetaFacts DEF CallState, VictimState, SendState, RecordState, WriteState,
       Selected, Initiated, Recording, Writing
<1>9. Records'
  BY <1>0, <1>1, <1>4, <1>b, IdFacts, MetaFacts DEF RebalanceInv, Records,
     UnsentIsUnknown, MemoryIsAhead, TransfersWellFormed, WrittenInOrder, TransferOf
<1> QED BY <1>0, <1>3, <1>5, <1>6, <1>7, <1>8, <1>9, WorkerStep

\* SetTxCausedRebalance(c) preserves the invariant, and does not fail.
LEMMA PromoteStep ==
    ASSUME RebalanceInv, NEW c \in Callers, SetTxCausedRebalance(c)
    PROVE  RebalanceInv'
<1>0. TypeOK /\ call[c].pc = "promote" /\ call[c].pc \in Working /\ lock = c /\ Landed(c)
  BY OneWorker DEF RebalanceInv, SetTxCausedRebalance, Working, WriteState, Writing
<1>1. /\ call[c].send \in Transfers /\ out[call[c].send] # "unsent"
      /\ mem[Trusted(call[c].send)].ty = "pending"
      /\ mem[SelfCustodial(call[c].send)].ty = "none"
      /\ call[c].victim \in Receipts /\ mem[Trusted(call[c].victim)].ty = "payment"
      /\ \A u \in Transfers : ~TransferOf(mem[Trusted(u)], call[c].victim)
  <2>1. /\ call[c].send \in Transfers /\ out[call[c].send] # "unsent"
        /\ mem[Trusted(call[c].send)].ty = "pending"
        /\ mem[SelfCustodial(call[c].send)].ty = "none"
        /\ call[c].victim \in Receipts /\ mem[Trusted(call[c].victim)].ty = "payment"
    BY <1>0 DEF RebalanceInv, SendState, VictimState, Selected, Initiated
  <2> QED BY <2>1 DEF RebalanceInv, TransfersWellFormed, TransferOf
<1>2. DoSet(c, Trusted(call[c].victim), Plain("trigger")) /\ Goto(c, "upsert") /\ UNCHANGED lock
  BY <1>1 DEF SetTxCausedRebalance
<1>3. /\ mem' \in [Ids -> Meta] /\ pend' \in [Callers -> Write]
      /\ mem' = [mem EXCEPT ![Trusted(call[c].victim)] = Plain("trigger")]
      /\ pend'[c] = [id |-> Trusted(call[c].victim), meta |-> Plain("trigger")]
      /\ \A d \in Callers : d # c => pend'[d] = pend[d]
  BY <1>0, <1>1, <1>2, DoSetType, IdFacts, MetaFacts
<1>4. /\ mem'[Trusted(call[c].victim)] = Plain("trigger")
      /\ pend'[c].id = Trusted(call[c].victim) /\ pend'[c].meta = Plain("trigger")
      /\ \A i \in Ids : i # Trusted(call[c].victim) => mem'[i] = mem[i]
  BY <1>0, <1>1, <1>3, IdFacts DEF TypeOK
<1>5. /\ call' \in [Callers -> Call] /\ call'[c] = [call[c] EXCEPT !.pc = "upsert"]
      /\ \A d \in Callers : d # c => call'[d] = call[d]
  BY <1>0, <1>2, GotoType DEF Working
<1>6. /\ call'[c].pc = "upsert" /\ call'[c].victim = call[c].victim
      /\ call'[c].send = call[c].send
  BY <1>0, <1>5 DEF TypeOK, Call
<1>b. UNCHANGED <<enabled, settled, disk, out, ln, noticed, reported, shown,
                  spawned, missed, crashes>>
  BY DEF SetTxCausedRebalance
<1>c. ~Landed(c)'
  BY <1>1, <1>4, MetaFacts DEF Landed, NoWrite
<1>7. TypeOK'
  BY <1>0, <1>2, <1>3, <1>5, <1>6, <1>b, WriteType DEF Working
<1>8. CallState(c)'
  BY <1>0, <1>1, <1>4, <1>6, <1>b, <1>c, IdFacts, MetaFacts DEF TransferOf, CallState, VictimState, SendState, RecordState, WriteState,
       Selected, Initiated, Recording, Writing
<1>9. Records'
  BY <1>0, <1>1, <1>4, <1>b, IdFacts, MetaFacts DEF RebalanceInv, Records,
     UnsentIsUnknown, MemoryIsAhead, TransfersWellFormed, WrittenInOrder, TransferOf
<1> QED BY <1>0, <1>3, <1>5, <1>6, <1>7, <1>8, <1>9, WorkerStep

\* UpsertTransfer(c) preserves the invariant: no other transfer has this trigger.
LEMMA UpsertStep ==
    ASSUME RebalanceInv, NEW c \in Callers, UpsertTransfer(c)
    PROVE  RebalanceInv'
<1>0. TypeOK /\ call[c].pc = "upsert" /\ call[c].pc \in Working /\ lock = c /\ Landed(c)
  BY OneWorker DEF RebalanceInv, UpsertTransfer, Working, WriteState, Writing
<1>1. /\ call[c].send \in Transfers /\ out[call[c].send] # "unsent"
      /\ mem[Trusted(call[c].send)].ty = "pending"
      /\ mem[SelfCustodial(call[c].send)].ty = "none"
      /\ call[c].victim \in Receipts /\ mem[Trusted(call[c].victim)].ty = "trigger"
      /\ disk[Trusted(call[c].victim)].ty = "trigger"
      /\ \A u \in Transfers : ~TransferOf(mem[Trusted(u)], call[c].victim)
  BY <1>0 DEF RebalanceInv, SendState, RecordState, Initiated, Recording
<1>2. DoSet(c, Trusted(call[c].send), Transfer(call[c].victim)) /\ Goto(c, "credit") /\ UNCHANGED lock
  BY <1>1 DEF UpsertTransfer
<1>3. /\ mem' \in [Ids -> Meta] /\ pend' \in [Callers -> Write]
      /\ mem' = [mem EXCEPT ![Trusted(call[c].send)] = Transfer(call[c].victim)]
      /\ pend'[c] = [id |-> Trusted(call[c].send), meta |-> Transfer(call[c].victim)]
      /\ \A d \in Callers : d # c => pend'[d] = pend[d]
  BY <1>0, <1>1, <1>2, DoSetType, IdFacts, MetaFacts
<1>4. /\ mem'[Trusted(call[c].send)] = Transfer(call[c].victim)
      /\ pend'[c].id = Trusted(call[c].send) /\ pend'[c].meta = Transfer(call[c].victim)
      /\ \A i \in Ids : i # Trusted(call[c].send) => mem'[i] = mem[i]
  BY <1>0, <1>1, <1>3, IdFacts DEF TypeOK
<1>5. /\ call' \in [Callers -> Call] /\ call'[c] = [call[c] EXCEPT !.pc = "credit"]
      /\ \A d \in Callers : d # c => call'[d] = call[d]
  BY <1>0, <1>2, GotoType DEF Working
<1>6. /\ call'[c].pc = "credit" /\ call'[c].victim = call[c].victim
      /\ call'[c].send = call[c].send
  BY <1>0, <1>5 DEF TypeOK, Call
<1>b. UNCHANGED <<enabled, settled, disk, out, ln, noticed, reported, shown,
                  spawned, missed, crashes>>
  BY DEF UpsertTransfer
<1>c. ~Landed(c)'
  BY <1>1, <1>4, MetaFacts DEF Landed, NoWrite
<1>7. TypeOK'
  BY <1>0, <1>2, <1>3, <1>5, <1>6, <1>b, WriteType DEF Working
<1>8. CallState(c)'
  BY <1>0, <1>1, <1>4, <1>6, <1>b, <1>c, IdFacts, MetaFacts DEF CallState, VictimState, SendState, RecordState, WriteState,
       Selected, Initiated, Recording, Writing
<1>9. Records'
  BY <1>0, <1>1, <1>4, <1>b, IdFacts, MetaFacts DEF RebalanceInv, Records,
     UnsentIsUnknown, MemoryIsAhead, TransfersWellFormed, WrittenInOrder, TransferOf
<1> QED BY <1>0, <1>3, <1>5, <1>6, <1>7, <1>8, <1>9, WorkerStep

\* InsertCredit(c) preserves the invariant: the trusted half is on disk.
LEMMA CreditStep ==
    ASSUME RebalanceInv, NEW c \in Callers, InsertCredit(c)
    PROVE  RebalanceInv'
<1>0. TypeOK /\ call[c].pc = "credit" /\ call[c].pc \in Working /\ lock = c /\ Landed(c)
  BY OneWorker DEF RebalanceInv, InsertCredit, Working, WriteState, Writing
<1>1. /\ call[c].send \in Transfers /\ out[call[c].send] # "unsent"
      /\ mem[Trusted(call[c].send)] = Transfer(call[c].victim)
      /\ disk[Trusted(call[c].send)] = Transfer(call[c].victim)
      /\ mem[SelfCustodial(call[c].send)].ty = "none"
      /\ call[c].victim \in Receipts /\ mem[Trusted(call[c].victim)].ty = "trigger"
      /\ disk[Trusted(call[c].victim)].ty = "trigger"
  BY <1>0 DEF RebalanceInv, SendState, RecordState, Initiated, Recording
<1>2. DoSet(c, SelfCustodial(call[c].send), Transfer(call[c].victim)) /\ Goto(c, "finish") /\ UNCHANGED lock
  BY <1>1 DEF InsertCredit
<1>3. /\ mem' \in [Ids -> Meta] /\ pend' \in [Callers -> Write]
      /\ mem' = [mem EXCEPT ![SelfCustodial(call[c].send)] = Transfer(call[c].victim)]
      /\ pend'[c] = [id |-> SelfCustodial(call[c].send), meta |-> Transfer(call[c].victim)]
      /\ \A d \in Callers : d # c => pend'[d] = pend[d]
  BY <1>0, <1>1, <1>2, DoSetType, IdFacts, MetaFacts
<1>4. /\ mem'[SelfCustodial(call[c].send)] = Transfer(call[c].victim)
      /\ pend'[c].id = SelfCustodial(call[c].send) /\ pend'[c].meta = Transfer(call[c].victim)
      /\ \A i \in Ids : i # SelfCustodial(call[c].send) => mem'[i] = mem[i]
  BY <1>0, <1>1, <1>3, IdFacts DEF TypeOK
<1>5. /\ call' \in [Callers -> Call] /\ call'[c] = [call[c] EXCEPT !.pc = "finish"]
      /\ \A d \in Callers : d # c => call'[d] = call[d]
  BY <1>0, <1>2, GotoType DEF Working
<1>6. /\ call'[c].pc = "finish" /\ call'[c].victim = call[c].victim
      /\ call'[c].send = call[c].send
  BY <1>0, <1>5 DEF TypeOK, Call
<1>b. UNCHANGED <<enabled, settled, disk, out, ln, noticed, reported, shown,
                  spawned, missed, crashes>>
  BY DEF InsertCredit
<1>c. ~Landed(c)'
  BY <1>1, <1>4, MetaFacts DEF Landed, NoWrite
<1>7. TypeOK'
  BY <1>0, <1>2, <1>3, <1>5, <1>6, <1>b, WriteType DEF Working
<1>8. CallState(c)'
  BY <1>0, <1>1, <1>4, <1>6, <1>b, <1>c, IdFacts, MetaFacts DEF CallState, VictimState, SendState, RecordState, WriteState,
       Selected, Initiated, Recording, Writing
<1>9. Records'
  BY <1>0, <1>1, <1>4, <1>b, IdFacts, MetaFacts DEF RebalanceInv, Records,
     UnsentIsUnknown, MemoryIsAhead, TransfersWellFormed, WrittenInOrder, TransferOf
<1> QED BY <1>0, <1>3, <1>5, <1>6, <1>7, <1>8, <1>9, WorkerStep

-----------------------------------------------------------------------------
(* A write lands, the wallets move, the process restarts. *)

\* A landing write puts on disk what memory holds; what was recorded stays.
LEMMA FlushFacts ==
    ASSUME RebalanceInv, NEW c \in Callers, Flush(c)
    PROVE  /\ call[c].pc \in Writing /\ call[c].pc \in Working
           /\ pend[c].id \in Ids /\ disk' \in [Ids -> Meta]
           /\ disk'[pend[c].id] = mem[pend[c].id]
           /\ \A i \in Ids : i # pend[c].id => disk'[i] = disk[i]
           /\ \A i \in Ids : disk[i].ty \in {"trigger", "transfer"} =>
                 disk'[i] = disk[i]
           /\ Landed(c)' /\ \A d \in Callers : d # c => pend'[d] = pend[d]
<1>1. /\ TypeOK /\ ~Landed(c) /\ pend[c] \in Write
      /\ pend[c].id \in Ids /\ pend[c].meta = mem[pend[c].id]
  BY DEF RebalanceInv, TypeOK, WriteState, Flush
<1>2. call[c].pc \in Writing /\ call[c].pc \in Working
  BY <1>1 DEF RebalanceInv, WriteState, Writing, Working
<1>3. disk' = [disk EXCEPT ![pend[c].id] = mem[pend[c].id]]
  BY <1>1 DEF Flush
<1>4. /\ disk' \in [Ids -> Meta] /\ disk'[pend[c].id] = mem[pend[c].id]
      /\ \A i \in Ids : i # pend[c].id => disk'[i] = disk[i]
  BY <1>1, <1>3 DEF TypeOK
<1>5. \A i \in Ids : disk[i].ty \in {"trigger", "transfer"} => disk'[i] = disk[i]
  BY <1>1, <1>4 DEF RebalanceInv, MemoryIsAhead
<1>6. Landed(c)' /\ \A d \in Callers : d # c => pend'[d] = pend[d]
  BY <1>1 DEF Flush, Landed, TypeOK
<1> QED BY <1>1, <1>2, <1>4, <1>5, <1>6

\* Flush(c) preserves the invariant: what lands refers to what is on disk.
LEMMA FlushStep ==
    ASSUME RebalanceInv, NEW c \in Callers, Flush(c)
    PROVE  RebalanceInv'
<1> DEFINE i == pend[c].id
<1>1. /\ TypeOK /\ ~Landed(c) /\ call[c].pc \in Writing
      /\ call[c].pc \in Working /\ UNCHANGED <<mem, call, out>>
  BY FlushFacts DEF RebalanceInv, Flush
<1>2. /\ i \in Ids /\ disk' \in [Ids -> Meta] /\ disk'[i] = mem[i]
      /\ \A j \in Ids : j # i => disk'[j] = disk[j]
      /\ Landed(c)' /\ \A d \in Callers : d # c => pend'[d] = pend[d]
  BY FlushFacts
<1>3. \A j \in Ids : disk[j].ty \in {"trigger", "transfer"} => disk'[j] = disk[j]
  BY FlushFacts
<1>4. /\ call[c].pc = "scan" => \E r \in Receipts : i = Trusted(r)
      /\ call[c].pc = "announce" => i = Trusted(call[c].send)
      /\ call[c].pc = "upsert" => i = Trusted(call[c].victim)
      /\ call[c].pc = "credit" => i = Trusted(call[c].send)
      /\ call[c].pc = "finish" => i = SelfCustodial(call[c].send)
  BY <1>1 DEF RebalanceInv, WriteState
<1>5. VictimState(c) /\ SendState(c) /\ RecordState(c)
  BY DEF RebalanceInv
<1> HIDE DEF i
<1>6. TypeOK'
  <2>1. pend' \in [Callers -> Write]
    BY <1>1, IdleFacts DEF TypeOK, Flush
  <2> QED BY <1>1, <1>2, <2>1 DEF TypeOK, Flush
<1>7. CallState(c)'
  <2>1. VictimState(c)' /\ SendState(c)' /\ WriteState(c)'
    BY <1>1, <1>2, <1>5 DEF VictimState, SendState, WriteState, Landed, Flush
  <2>2. RecordState(c)'
    <3>1. CASE call[c].pc \notin Recording
      BY <1>1, <3>1 DEF RecordState, Recording
    <3>2. CASE call[c].pc = "upsert"
      BY <1>1, <1>2, <1>4, <1>5, <3>2 DEF RecordState, Recording, Landed, TransferOf
    <3>3. CASE call[c].pc = "credit"
      BY <1>1, <1>2, <1>3, <1>4, <1>5, <3>3, IdFacts
         DEF RecordState, SendState, Recording, Landed
    <3>4. CASE call[c].pc = "finish"
      BY <1>1, <1>2, <1>3, <1>4, <1>5, <3>4, IdFacts, MetaFacts
         DEF RecordState, SendState, Recording, Landed
    <3> QED BY <3>1, <3>2, <3>3, <3>4 DEF Recording
  <2> QED BY <2>1, <2>2 DEF CallState
<1>8. Records'
  <2>1. TransfersWellFormed'
    BY <1>1 DEF RebalanceInv, TransfersWellFormed, TransferOf
  <2>2. MemoryIsAhead'
    BY <1>1, <1>2 DEF RebalanceInv, MemoryIsAhead
  <2>3. UnsentIsUnknown'
    BY <1>1, <1>2, IdFacts DEF RebalanceInv, UnsentIsUnknown
  <2>4. WrittenInOrder'
    <3> SUFFICES ASSUME NEW s \in Transfers
                 PROVE  /\ disk'[Trusted(s)].ty = "transfer" =>
                             /\ disk'[Trusted(s)].trigger \in Receipts
                             /\ disk'[Trusted(disk'[Trusted(s)].trigger)].ty = "trigger"
                        /\ disk'[SelfCustodial(s)].ty = "transfer" =>
                             disk'[Trusted(s)] = disk'[SelfCustodial(s)]
      BY DEF WrittenInOrder
    <3>1. /\ disk[Trusted(s)].ty = "transfer" =>
               /\ disk[Trusted(s)].trigger \in Receipts
               /\ disk[Trusted(disk[Trusted(s)].trigger)].ty = "trigger"
          /\ disk[SelfCustodial(s)].ty = "transfer" =>
               disk[Trusted(s)] = disk[SelfCustodial(s)]
      BY DEF RebalanceInv, WrittenInOrder
    <3>2. CASE i # Trusted(s) /\ i # SelfCustodial(s)
      BY <1>2, <1>3, <3>1, <3>2, IdFacts
    <3>3. CASE i = Trusted(s)
      <4>1. call[c].pc \in {"announce", "credit"} /\ call[c].send = s
        BY <1>1, <1>4, <1>5, <3>3, IdFacts DEF RecordState, Recording, Writing
      <4>2. CASE call[c].pc = "announce"
        <5>1. mem[Trusted(s)].ty = "pending" /\ mem[SelfCustodial(s)].ty = "none"
          BY <1>5, <4>1, <4>2 DEF SendState, Initiated
        <5>2. disk[SelfCustodial(s)].ty # "transfer"
          BY <5>1, IdFacts DEF RebalanceInv, MemoryIsAhead
        <5> QED BY <1>2, <3>3, <5>1, <5>2, IdFacts
      <4>3. CASE call[c].pc = "credit"
        <5>1. /\ mem[Trusted(s)] = Transfer(call[c].victim)
              /\ call[c].victim \in Receipts
              /\ disk[Trusted(call[c].victim)].ty = "trigger"
              /\ mem[SelfCustodial(s)].ty = "none"
          BY <1>5, <4>1, <4>3 DEF SendState, RecordState, Recording
        <5>2. disk[SelfCustodial(s)].ty # "transfer"
          BY <5>1, IdFacts DEF RebalanceInv, MemoryIsAhead
        <5> QED BY <1>2, <1>3, <3>3, <5>1, <5>2, IdFacts, MetaFacts
      <4> QED BY <4>1, <4>2, <4>3
    <3>4. CASE i = SelfCustodial(s)
      <4>1. call[c].pc = "finish" /\ call[c].send = s
        BY <1>1, <1>4, <1>5, <3>4, IdFacts DEF RecordState, Recording, Writing
      <4>2. /\ disk[Trusted(s)] = Transfer(call[c].victim)
            /\ mem[SelfCustodial(s)] = Transfer(call[c].victim)
            /\ call[c].victim \in Receipts
        BY <1>5, <4>1 DEF RecordState, Recording
      <4> QED BY <1>2, <1>3, <3>1, <3>4, <4>2, IdFacts, MetaFacts
    <3> QED BY <3>2, <3>3, <3>4
  <2> QED BY <2>1, <2>2, <2>3, <2>4 DEF Records
<1>9. call'[c].pc # "panic"
  BY <1>1 DEF Working
<1> QED BY <1>1, <1>2, <1>6, <1>7, <1>8, <1>9, WorkerStep

\* Callers that are woken go back to their test; everything else stays.
LEMMA WakeStep ==
    ASSUME RebalanceInv,
           \/ Wake("sleepLn", "awaitLn") \/ Wake("sleepOut", "awaitOut")
           \/ UNCHANGED call,
           UNCHANGED <<enabled, settled, mem, disk, pend, lock, out, ln, crashes>>,
           noticed' \subseteq Transfers, reported' \subseteq Transfers,
           shown' \subseteq Told, UNCHANGED spawned, missed' \in BOOLEAN
    PROVE  RebalanceInv'
<1>0. TypeOK /\ PromotionSucceeds
  BY DEF RebalanceInv
<1>1. /\ call' \in [Callers -> Call]
      /\ \A c \in Callers :
           /\ \/ call'[c].pc = call[c].pc
              \/ call[c].pc = "sleepLn" /\ call'[c].pc = "awaitLn"
              \/ call[c].pc = "sleepOut" /\ call'[c].pc = "awaitOut"
           /\ call'[c].fresh = call[c].fresh /\ call'[c].known = call[c].known
           /\ call'[c].victim = call[c].victim /\ call'[c].send = call[c].send
  <2>1. CASE Wake("sleepLn", "awaitLn")
    <3>1. \A c \in Callers : call[c] \in Call
      BY <1>0 DEF TypeOK
    <3>2. \A c \in Callers : [call[c] EXCEPT !.pc = "awaitLn"] \in Call
      BY <3>1 DEF Call, Working
    <3>3. call' \in [Callers -> Call]
      BY <2>1, <3>1, <3>2 DEF Wake
    <3>4. \A c \in Callers :
            \/ call'[c] = call[c]
            \/ call[c].pc = "sleepLn" /\ call'[c] = [call[c] EXCEPT !.pc = "awaitLn"]
      BY <2>1 DEF Wake
    <3> QED BY <3>1, <3>3, <3>4 DEF Call
  <2>2. CASE Wake("sleepOut", "awaitOut")
    <3>1. \A c \in Callers : call[c] \in Call
      BY <1>0 DEF TypeOK
    <3>2. \A c \in Callers : [call[c] EXCEPT !.pc = "awaitOut"] \in Call
      BY <3>1 DEF Call, Working
    <3>3. call' \in [Callers -> Call]
      BY <2>2, <3>1, <3>2 DEF Wake
    <3>4. \A c \in Callers :
            \/ call'[c] = call[c]
            \/ call[c].pc = "sleepOut" /\ call'[c] = [call[c] EXCEPT !.pc = "awaitOut"]
      BY <2>2 DEF Wake
    <3> QED BY <3>1, <3>3, <3>4 DEF Call
  <2> QED BY <1>0, <2>1, <2>2 DEF TypeOK
<1>2. TypeOK'
  BY <1>0, <1>1 DEF TypeOK, Working
<1>3. PromotionSucceeds'
  BY <1>0, <1>1 DEF PromotionSucceeds
<1>4. ASSUME NEW c \in Callers PROVE CallState(c)'
  <2>1. VictimState(c) /\ SendState(c) /\ RecordState(c) /\ WriteState(c)
    BY DEF RebalanceInv
  <2> QED BY <1>1, <2>1 DEF TransferOf, CallState, VictimState, SendState, RecordState, WriteState,
       Landed, Selected, Initiated, Recording, Writing
<1> QED BY <1>2, <1>3, <1>4, SameRecords DEF RebalanceInv, Records, CallState

\* A step of the environment leaves the callers and the metadata alone.
LEMMA OutsideStep ==
    ASSUME RebalanceInv, UNCHANGED <<mem, disk, pend, lock, call>>, TypeOK',
           \A s \in Transfers : out[s] # "unsent" <=> out'[s] # "unsent"
    PROVE  RebalanceInv'
<1>1. PromotionSucceeds' /\ TransfersWellFormed' /\ WrittenInOrder'
  BY DEF RebalanceInv, PromotionSucceeds, TransfersWellFormed, WrittenInOrder, TransferOf
<1>2. MemoryIsAhead' /\ UnsentIsUnknown'
  BY DEF RebalanceInv, MemoryIsAhead, UnsentIsUnknown
<1>3. ASSUME NEW c \in Callers PROVE CallState(c)'
  <2>1. VictimState(c) /\ SendState(c) /\ RecordState(c) /\ WriteState(c)
    BY DEF RebalanceInv
  <2> QED BY <2>1 DEF TransferOf, CallState, VictimState, SendState, RecordState, WriteState,
       Landed, Selected, Initiated, Recording, Writing
<1> QED BY <1>1, <1>2, <1>3 DEF RebalanceInv, CallState

\* A restart starts from what is on disk, which is complete in itself.
LEMMA RestartStep ==
    ASSUME RebalanceInv, Restart
    PROVE  RebalanceInv'
<1>0. TypeOK /\ MemoryIsAhead /\ TransfersWellFormed /\ WrittenInOrder
  BY DEF RebalanceInv
<1>1. /\ mem' = disk /\ disk' = disk /\ out' = out
      /\ \A c \in Callers : call'[c] = Idle /\ pend'[c] = NoWrite
  BY DEF Restart
<1>2. TypeOK'
  BY <1>0, IdleFacts, RebalanceAssumption DEF TypeOK, Restart
<1>3. \A c \in Callers : CallState(c)'
  BY <1>1, IdleStateNext, IdleFacts
<1>4. PromotionSucceeds'
  BY <1>1, IdleFacts DEF PromotionSucceeds
<1>5. WrittenInOrder' /\ MemoryIsAhead'
  BY <1>0, <1>1 DEF WrittenInOrder, MemoryIsAhead
<1>6. UnsentIsUnknown'
  BY <1>1 DEF RebalanceInv, UnsentIsUnknown
<1>7. TransfersWellFormed'
  BY <1>0, <1>1, IdFacts DEF TransfersWellFormed, WrittenInOrder, MemoryIsAhead, TransferOf
<1> QED BY <1>2, <1>3, <1>4, <1>5, <1>6, <1>7 DEF RebalanceInv, CallState

-----------------------------------------------------------------------------
\* The invariant holds initially: nothing has happened yet.
LEMMA InitInv == Init => RebalanceInv
<1> SUFFICES ASSUME Init PROVE RebalanceInv
  OBVIOUS
<1>1. /\ \A i \in Ids : mem[i] = Plain("none") /\ disk[i] = Plain("none")
      /\ \A c \in Callers : call[c] = Idle /\ pend[c] = NoWrite
  BY DEF Init
<1>2. Plain("none") \in Meta /\ Plain("none").ty = "none"
  BY MetaFacts
<1>3. TypeOK
  <2>1. mem \in [Ids -> Meta] /\ disk \in [Ids -> Meta]
    BY <1>2 DEF Init
  <2>2. pend \in [Callers -> Write] /\ call \in [Callers -> Call]
    BY IdleFacts DEF Init
  <2>3. \A c \in Callers : lock = c <=> call[c].pc \in Working
    BY <1>1, IdleFacts, RebalanceAssumption DEF Init
  <2>4. crashes \in 0..MaxCrashes
    BY RebalanceAssumption DEF Init
  <2>5. /\ enabled \in BOOLEAN /\ missed \in BOOLEAN
        /\ lock \in Callers \cup {None}
        /\ noticed \subseteq Transfers /\ reported \subseteq Transfers
        /\ shown \subseteq Told /\ spawned \subseteq Transfers
    BY DEF Init
  <2>6. settled \in [Receipts -> Times \cup {0}]
    BY DEF Init
  <2>7. /\ out \in [Transfers -> {"unsent", "sent", "paid", "failed"}]
        /\ ln \in [Transfers -> {"none", "received", "failed"}]
    BY DEF Init
  <2> QED BY <2>1, <2>2, <2>3, <2>4, <2>5, <2>6, <2>7 DEF TypeOK
<1>4. \A c \in Callers : CallState(c)
  BY <1>1, IdleState, IdleFacts
<1>5. Records
  BY <1>1, <1>2, IdFacts DEF Records, UnsentIsUnknown, MemoryIsAhead,
     TransfersWellFormed, WrittenInOrder
<1>6. PromotionSucceeds
  BY <1>1, IdleFacts DEF PromotionSucceeds
<1> QED BY <1>3, <1>4, <1>5, <1>6 DEF RebalanceInv, CallState, Records

\* Every step preserves the invariant.
LEMMA NextInv == RebalanceInv /\ [Next]_vars => RebalanceInv'
<1> SUFFICES ASSUME RebalanceInv, [Next]_vars PROVE RebalanceInv'
  OBVIOUS
<1>0. TypeOK
  BY DEF RebalanceInv
<1>1. ASSUME NEW c \in Callers, LockBalance(c) \/ Progress(c) PROVE RebalanceInv'
  BY <1>1, LockStep, FlushStep, ListStep, SelectStep, PayStep, InitiatedStep,
     AwaitReceiptStep, AwaitSuccessStep, MarkStep, PromoteStep, UpsertStep,
     CreditStep, AnnounceStep, FinishStep, ScanStep DEF Progress
<1>2. ASSUME NEW s \in Transfers, Network(s) PROVE RebalanceInv'
  <2>1. CASE ReceiveLightning(s)
    <3>1. TypeOK'
      BY <1>0, <2>1 DEF TypeOK, ReceiveLightning
    <3> QED BY <2>1, <3>1, OutsideStep DEF ReceiveLightning
  <2>2. CASE ResolveTrusted(s)
    <3>1. /\ out' \in [Transfers -> {"unsent", "sent", "paid", "failed"}]
          /\ ln' \in [Transfers -> {"none", "received", "failed"}]
      BY <1>0, <2>2 DEF TypeOK, ResolveTrusted
    <3>2. \A u \in Transfers : out[u] # "unsent" <=> out'[u] # "unsent"
      BY <1>0, <2>2 DEF TypeOK, ResolveTrusted
    <3>3. TypeOK'
      BY <1>0, <2>2, <3>1 DEF TypeOK, ResolveTrusted
    <3> QED BY <2>2, <3>2, <3>3, OutsideStep DEF ResolveTrusted
  <2>3. CASE PaymentReceived(s)
    BY <1>0, <2>3, WakeStep DEF TypeOK, PaymentReceived
  <2>4. CASE TrustedReported(s)
    <3>1. shown' \subseteq Told
      BY <1>0, <2>4 DEF TypeOK, TrustedReported, Told
    <3> QED BY <1>0, <2>4, <3>1, WakeStep DEF TypeOK, TrustedReported
  <2> QED BY <1>2, <2>1, <2>2, <2>3, <2>4 DEF Network
<1>8. ASSUME NEW s \in Transfers, AddSuccessful(s) PROVE RebalanceInv'
  <2>1. TypeOK'
    BY <1>0, <1>8 DEF TypeOK, AddSuccessful, Told
  <2> QED BY <1>8, <2>1, OutsideStep DEF AddSuccessful
<1>3. ASSUME NEW r \in Receipts, Settle(r) PROVE RebalanceInv'
  <2>1. TypeOK'
    BY <1>0, <1>3 DEF TypeOK, Settle
  <2> QED BY <1>3, <2>1, OutsideStep DEF Settle
<1>4. ASSUME NEW b \in BOOLEAN, SetEnabled(b) PROVE RebalanceInv'
  <2>1. TypeOK'
    BY <1>0, <1>4 DEF TypeOK, SetEnabled
  <2> QED BY <1>4, <2>1, OutsideStep DEF SetEnabled
<1>5. CASE OtherPayment
  BY <1>0, <1>5, WakeStep DEF TypeOK, OtherPayment
<1>6. CASE Restart
  BY <1>6, RestartStep
<1>7. CASE UNCHANGED vars
  BY <1>0, <1>7, WakeStep DEF TypeOK, vars
<1> QED BY <1>1, <1>2, <1>3, <1>4, <1>5, <1>6, <1>7, <1>8 DEF Next

\* In every reachable state of the trusted rebalancer the records, the writes
\* under way and the callers' places fit together (RebalanceInv).
THEOREM RebalanceInvariant == Spec => []RebalanceInv
BY InitInv, NextInv, PTL DEF Spec

\* Every variable keeps its type and balance_mutex its holder.
THEOREM RebalanceTyping == Spec => []TypeOK
<1>1. RebalanceInv => TypeOK
  BY DEF RebalanceInv
<1> QED BY <1>1, RebalanceInvariant, PTL

\* The promotion of the receipt that is blamed for a transfer never fails, so
\* that handle_event's expect never panics.
THEOREM PromotionNeverFails == Spec => []PromotionSucceeds
<1>1. RebalanceInv => PromotionSucceeds
  BY DEF RebalanceInv
<1> QED BY <1>1, RebalanceInvariant, PTL

\* The assertions of list_transactions about merged transfers hold.
THEOREM TransfersAreWellFormed == Spec => []TransfersWellFormed
<1>1. RebalanceInv => TransfersWellFormed
  BY DEF RebalanceInv
<1> QED BY <1>1, RebalanceInvariant, PTL

\* A crash never leaves a recorded half of a transfer without what it refers to.
THEOREM TransfersWrittenInOrder == Spec => []WrittenInOrder
<1>1. RebalanceInv => WrittenInOrder
  BY DEF RebalanceInv
<1> QED BY <1>1, RebalanceInvariant, PTL

\* Only a landing write changes the disk, and it does not change what is
\* recorded for good.
LEMMA KeepsRecords ==
    ASSUME RebalanceInv, Next
    PROVE  \A i \in Ids : disk[i].ty \in {"trigger", "transfer"} => disk'[i] = disk[i]
<1>1. ASSUME NEW c \in Callers, Flush(c)
      PROVE  \A i \in Ids : disk[i].ty \in {"trigger", "transfer"} => disk'[i] = disk[i]
  BY <1>1, FlushFacts
<1>2. (\E c \in Callers : Flush(c)) \/ UNCHANGED disk
  <2>1. ASSUME NEW c \in Callers, LockBalance(c) \/ Progress(c)
        PROVE  Flush(c) \/ UNCHANGED disk
    BY <2>1 DEF LockBalance, Progress, ListPayments, SelectVictim, PayTrusted,
       RebalanceInitiated, AwaitReceipt, AwaitSuccess, MarkUnchanged,
       SetTxCausedRebalance, UpsertTransfer, InsertCredit, Finish, ScanReceipt,
       AddInitiated
  <2>2. ASSUME NEW s \in Transfers, Network(s) PROVE UNCHANGED disk
    BY <2>2 DEF Network, ReceiveLightning, ResolveTrusted, PaymentReceived,
       TrustedReported
  <2> QED BY <2>1, <2>2 DEF Next, Settle, SetEnabled, OtherPayment, AddSuccessful, Restart
<1> QED BY <1>1, <1>2

\* A recorded trigger or transfer is never changed on disk: only a landing
\* write touches the disk, and it writes what memory agrees with.
THEOREM RecordsAreKept == Spec => RecordsKept
<1>1. RebalanceInv /\ [Next]_vars =>
        [\A i \in Ids : disk[i].ty \in {"trigger", "transfer"} => disk'[i] = disk[i]]_vars
  BY KeepsRecords
<1> QED BY <1>1, RebalanceInvariant, PTL DEF Spec, RecordsKept

\* A caller past AddInitiated has told the application of its transfer.
Announced(c) ==
    call[c].pc \in (Initiated \cup Recording) \ {"announce"} =>
        <<"initiated", call[c].send>> \in shown

\* Nothing that was told is taken back.
LEMMA ShownGrows == Next => shown \subseteq shown'
<1> SUFFICES ASSUME Next PROVE shown \subseteq shown'
  OBVIOUS
<1>1. ASSUME NEW c \in Callers, LockBalance(c) \/ Progress(c) PROVE shown \subseteq shown'
  BY <1>1 DEF LockBalance, Progress, Flush, ListPayments, SelectVictim, PayTrusted,
     RebalanceInitiated, AddInitiated, AwaitReceipt, AwaitSuccess, MarkUnchanged,
     SetTxCausedRebalance, UpsertTransfer, InsertCredit, Finish, ScanReceipt
<1>2. ASSUME NEW s \in Transfers, Network(s) PROVE shown \subseteq shown'
  BY <1>2 DEF Network, ReceiveLightning, ResolveTrusted, PaymentReceived, TrustedReported
<1> QED BY <1>1, <1>2 DEF Next, Settle, SetEnabled, OtherPayment, AddSuccessful, Restart

\* ListPayments(c) moves c to its scan, or out of the call.
LEMMA ListMoves ==
    ASSUME TypeOK, NEW c \in Callers, ListPayments(c)
    PROVE  /\ call'[c].pc \in {"scan", "idle"}
           /\ \A d \in Callers : d # c => call'[d] = call[d]
<1> DEFINE k == [Idle EXCEPT !.pc = "scan", !.scan = {r \in Receipts : settled[r] # 0}]
<1>1. k.pc = "scan" /\ Idle.pc = "idle"
  BY DEF Idle
<1>2. call' = [call EXCEPT ![c] = k] \/ call' = [call EXCEPT ![c] = Idle]
  BY DEF ListPayments, Unlock
<1> HIDE DEF k
<1> QED BY <1>1, <1>2 DEF TypeOK

\* A step of caller c is a step of c only, and c has told the application of
\* its transfer when it starts to wait for the payment.
LEMMA WorkerAnnounces ==
    ASSUME TypeOK, NEW c \in Callers, LockBalance(c) \/ Progress(c)
    PROVE  /\ \A d \in Callers : d # c => call'[d] = call[d] /\ pend'[d] = pend[d]
           /\ Announced(c) => Announced(c)'
<1>1. call[c] \in Call
  BY DEF TypeOK
<1>2. CASE LockBalance(c)
  BY <1>1, <1>2 DEF LockBalance, TypeOK, Announced, Goto, Call, Initiated, Recording
<1>3. CASE Flush(c)
  BY <1>1, <1>3 DEF Flush, TypeOK, Announced, Call, Initiated, Recording
<1>4. CASE ListPayments(c)
  <2>1. call'[c].pc \in {"scan", "idle"} /\ \A d \in Callers : d # c => call'[d] = call[d]
    BY <1>4, ListMoves
  <2> QED BY <1>4, <2>1 DEF ListPayments, Announced, Initiated, Recording
<1>5. CASE SelectVictim(c)
  BY <1>1, <1>5 DEF SelectVictim, TypeOK, Announced, Unlock, Idle, Call, Initiated, Recording
<1>6. CASE PayTrusted(c)
  BY <1>1, <1>6 DEF PayTrusted, TypeOK, Announced, Unlock, Idle, Call, Initiated, Recording
<1>7. CASE RebalanceInitiated(c)
  BY <1>1, <1>7 DEF RebalanceInitiated, TypeOK, Announced, Goto, DoSet, Call, Initiated, Recording
<1>8. CASE AddInitiated(c)
  BY <1>1, <1>8 DEF AddInitiated, TypeOK, Announced, Goto, Call, Initiated, Recording
<1>9. CASE AwaitReceipt(c)
  BY <1>1, <1>9 DEF AwaitReceipt, TypeOK, Announced, Goto, Unlock, Idle, Call, Initiated, Recording
<1>10. CASE AwaitSuccess(c)
  BY <1>1, <1>10 DEF AwaitSuccess, TypeOK, Announced, Goto, Unlock, Idle, Call, Initiated, Recording
<1>11. CASE MarkUnchanged(c)
  BY <1>1, <1>11 DEF MarkUnchanged, TypeOK, Announced, Goto, Call, Initiated, Recording
<1>12. CASE SetTxCausedRebalance(c)
  BY <1>1, <1>12 DEF SetTxCausedRebalance, TypeOK, Announced, Goto, DoSet, Call, Initiated, Recording
<1>13. CASE UpsertTransfer(c)
  BY <1>1, <1>13 DEF UpsertTransfer, TypeOK, Announced, Goto, DoSet, Call, Initiated, Recording
<1>14. CASE InsertCredit(c)
  BY <1>1, <1>14 DEF InsertCredit, TypeOK, Announced, Goto, DoSet, Call, Initiated, Recording
<1>15. CASE Finish(c)
  BY <1>1, <1>15 DEF Finish, TypeOK, Announced, Unlock, Idle, Call, Initiated, Recording
<1>16. ASSUME NEW r \in Receipts, ScanReceipt(c, r)
      PROVE  /\ \A d \in Callers : d # c => call'[d] = call[d] /\ pend'[d] = pend[d]
             /\ Announced(c) => Announced(c)'
  BY <1>1, <1>16 DEF ScanReceipt, TypeOK, Announced, DoSet, Call, Initiated, Recording
<1> QED BY <1>2, <1>3, <1>4, <1>5, <1>6, <1>7, <1>8, <1>9, <1>10, <1>11, <1>12, <1>13, <1>14, <1>15, <1>16 DEF Progress

\* Callers that are woken stay past AddInitiated.
LEMMA WakeAnnounces ==
    ASSUME TypeOK, NEW c \in Callers, shown \subseteq shown', Announced(c),
           \/ Wake("sleepLn", "awaitLn") \/ Wake("sleepOut", "awaitOut")
           \/ UNCHANGED call
    PROVE  /\ Announced(c)'
           /\ call'[c].pc = "finish" => call'[c] = call[c]
<1>1. call[c] \in Call
  BY DEF TypeOK
<1>2. \/ call'[c] = call[c]
      \/ call[c].pc = "sleepLn" /\ call'[c] = [call[c] EXCEPT !.pc = "awaitLn"]
      \/ call[c].pc = "sleepOut" /\ call'[c] = [call[c] EXCEPT !.pc = "awaitOut"]
  BY DEF Wake
<1>3. CASE call'[c] = call[c]
  BY <1>3 DEF Announced
<1> QED BY <1>1, <1>2, <1>3 DEF Announced, Call, Initiated, Recording

\* The lightning half of a transfer is on disk once its write has landed.
LEMMA CreditLands ==
    ASSUME RebalanceInv, NEW c \in Callers, Flush(c), call[c].pc = "finish"
    PROVE  disk'[SelfCustodial(call[c].send)].ty = "transfer"
<1>1. /\ pend[c].id = SelfCustodial(call[c].send) /\ pend[c].id \in Ids
      /\ pend[c].meta = mem[pend[c].id]
  BY DEF RebalanceInv, WriteState, Flush
<1>2. mem[SelfCustodial(call[c].send)] = Transfer(call[c].victim)
  BY DEF RebalanceInv, RecordState
<1>3. disk' = [disk EXCEPT ![pend[c].id] = pend[c].meta] /\ disk \in [Ids -> Meta]
  BY DEF Flush, RebalanceInv, TypeOK
<1> QED BY <1>1, <1>2, <1>3 DEF Transfer

\* Only InsertCredit takes a caller to its last step; only Flush leaves it there.
LEMMA OnlyInsertFinishes ==
    ASSUME TypeOK, NEW c \in Callers, LockBalance(c) \/ Progress(c),
           ~Flush(c), ~InsertCredit(c)
    PROVE  call'[c].pc # "finish"
<1>1. call[c] \in Call
  BY DEF TypeOK
<1>2. CASE \E r \in Receipts : ScanReceipt(c, r)
  BY <1>1, <1>2 DEF ScanReceipt, TypeOK, Call
<1>3. CASE ListPayments(c) \/ SelectVictim(c) \/ PayTrusted(c) \/ Finish(c)
  <2>1. CASE ListPayments(c)
    BY <2>1, ListMoves
  <2>2. CASE SelectVictim(c) \/ PayTrusted(c) \/ Finish(c)
    BY <1>1, <2>2 DEF SelectVictim, PayTrusted, Finish, Unlock, Idle, TypeOK, Call
  <2> QED BY <1>3, <2>1, <2>2
<1>4. CASE AwaitReceipt(c) \/ AwaitSuccess(c) \/ MarkUnchanged(c) \/ LockBalance(c)
  BY <1>1, <1>4 DEF AwaitReceipt, AwaitSuccess, MarkUnchanged, LockBalance, Unlock, Goto,
     Idle, TypeOK, Call
<1>5. CASE RebalanceInitiated(c) \/ AddInitiated(c) \/ SetTxCausedRebalance(c) \/ UpsertTransfer(c)
  BY <1>1, <1>5 DEF RebalanceInitiated, AddInitiated, SetTxCausedRebalance, UpsertTransfer,
     Goto, TypeOK, Call
<1> QED BY <1>2, <1>3, <1>4, <1>5 DEF Progress

\* What a caller has at its last step: told, and the lightning half landed.
FinishState(c) ==
    call[c].pc = "finish" /\ Landed(c) => disk[SelfCustodial(call[c].send)].ty = "transfer"

\* The telling of the application is in step with the records: a success is
\* announced by the task Finish spawns, after the lightning half has landed.
LEMMA AnnounceNext ==
    ASSUME RebalanceInv, AnnounceInv, Next
    PROVE  AnnounceInv'
<1>0. /\ TypeOK /\ shown \subseteq shown' /\ RebalanceInv' /\ WrittenInOrder'
      /\ \A c \in Callers : Announced(c) /\ FinishState(c)
  <2>1. RebalanceInv'
    BY NextInv
  <2> QED BY <2>1, ShownGrows DEF RebalanceInv, AnnounceInv, Announced, FinishState
<1>1. \A s \in Transfers : disk[SelfCustodial(s)].ty = "transfer" =>
          disk'[SelfCustodial(s)].ty = "transfer"
  BY KeepsRecords, IdFacts
<1>2. \A c \in Callers : Announced(c)'
  <2>1. ASSUME NEW d \in Callers, LockBalance(d) \/ Progress(d), NEW c \in Callers
        PROVE  Announced(c)'
    <3>1. CASE c = d
      BY <1>0, <2>1, <3>1, WorkerAnnounces
    <3>2. CASE c # d
      BY <1>0, <2>1, <3>2, WorkerAnnounces DEF Announced
    <3> QED BY <3>1, <3>2
  <2>2. ASSUME NEW s \in Transfers, Network(s) \/ AddSuccessful(s), NEW c \in Callers
        PROVE  Announced(c)'
    BY <1>0, <2>2, WakeAnnounces DEF Network, AddSuccessful, ReceiveLightning,
       ResolveTrusted, PaymentReceived, TrustedReported
  <2>3. ASSUME Restart, NEW c \in Callers PROVE Announced(c)'
    BY <2>3, IdleFacts DEF Restart, Announced, Initiated, Recording
  <2> QED BY <1>0, <2>1, <2>2, <2>3, WakeAnnounces DEF Next, Settle, SetEnabled, OtherPayment
<1>3. \A c \in Callers : FinishState(c)'
  <2>1. ASSUME NEW d \in Callers, LockBalance(d) \/ Progress(d), NEW c \in Callers
        PROVE  FinishState(c)'
    <3> SUFFICES ASSUME (call[c].pc = "finish" /\ Landed(c))'
                 PROVE  disk'[SelfCustodial(call'[c].send)].ty = "transfer"
      BY DEF FinishState
    <3>0. call'[c].send \in Transfers
      BY <1>0 DEF RebalanceInv, SendState, Recording
    <3>1. CASE c # d
      <4>1. call'[c] = call[c] /\ pend'[c] = pend[c]
        BY <1>0, <2>1, <3>1, WorkerAnnounces
      <4> QED BY <1>0, <1>1, <3>0, <4>1 DEF FinishState, Landed
    <3>2. CASE c = d /\ Flush(c)
      <4>1. call'[c] = call[c]
        BY <3>2 DEF Flush
      <4> QED BY <3>2, <4>1, CreditLands
    <3>3. CASE c = d /\ ~Flush(c)
      <4>1. CASE InsertCredit(c)
        <5>1. ~Landed(c)'
          <6>1. pend'[c].meta = Transfer(call[c].victim)
            BY <1>0, <4>1 DEF InsertCredit, DoSet, TypeOK
          <6> QED BY <6>1 DEF Landed, NoWrite, Transfer, Plain
        <5> QED BY <5>1
      <4>2. CASE ~InsertCredit(c)
        <5>1. call'[c].pc # "finish"
          BY <2>1, <3>3, <4>2, OnlyInsertFinishes, <1>0
        <5> QED BY <5>1
      <4> QED BY <4>1, <4>2
    <3> QED BY <3>1, <3>2, <3>3
  <2>2. ASSUME NEW s \in Transfers, Network(s) \/ AddSuccessful(s), NEW c \in Callers
        PROVE  FinishState(c)'
    <3>1. /\ call'[c].pc = "finish" => call'[c] = call[c]
          /\ pend' = pend /\ disk' = disk
      BY <1>0, <2>2, WakeAnnounces DEF Network, AddSuccessful, ReceiveLightning,
         ResolveTrusted, PaymentReceived, TrustedReported
    <3> QED BY <1>0, <3>1 DEF FinishState, Landed
  <2>3. ASSUME Restart, NEW c \in Callers PROVE FinishState(c)'
    BY <2>3, IdleFacts DEF Restart, FinishState
  <2>4. ASSUME OtherPayment, NEW c \in Callers PROVE FinishState(c)'
    <3>1. /\ call'[c].pc = "finish" => call'[c] = call[c]
          /\ pend' = pend /\ disk' = disk
      BY <1>0, <2>4, WakeAnnounces DEF OtherPayment
    <3> QED BY <1>0, <3>1 DEF FinishState, Landed
  <2> QED BY <1>0, <2>1, <2>2, <2>3, <2>4 DEF Next, Settle, SetEnabled, FinishState, Landed
<1>4. ASSUME NEW s \in spawned'
      PROVE  <<"initiated", s>> \in shown' /\ disk'[SelfCustodial(s)].ty = "transfer"
  <2>1. s \in Transfers
    BY <1>0 DEF RebalanceInv, TypeOK
  <2>2. CASE s \in spawned
    BY <1>0, <1>1, <2>1, <2>2 DEF AnnounceInv
  <2>3. CASE s \notin spawned
    <3>1. PICK c \in Callers : Finish(c) /\ s = call[c].send
      <4>1. ASSUME NEW d \in Callers, LockBalance(d) \/ Progress(d)
            PROVE  Finish(d) /\ s = call[d].send
        BY <2>3, <4>1 DEF LockBalance, Progress, Flush, ListPayments, SelectVictim, PayTrusted,
           RebalanceInitiated, AddInitiated, AwaitReceipt, AwaitSuccess, MarkUnchanged,
           SetTxCausedRebalance, UpsertTransfer, InsertCredit, Finish, ScanReceipt
      <4>2. ASSUME NEW u \in Transfers, Network(u) PROVE FALSE
        BY <2>3, <4>2 DEF Network, ReceiveLightning, ResolveTrusted, PaymentReceived,
           TrustedReported
      <4> QED BY <2>3, <4>1, <4>2 DEF Next, AddSuccessful, Settle, SetEnabled, OtherPayment,
           Restart
    <3>2. call[c].pc = "finish" /\ Landed(c)
      BY <3>1 DEF Finish
    <3> QED BY <1>0, <1>1, <2>1, <3>1, <3>2 DEF Announced, FinishState, Recording
  <2> QED BY <2>2, <2>3
<1>5. ASSUME NEW s \in Transfers, <<"successful", s>> \in shown'
      PROVE  /\ <<"initiated", s>> \in shown'
             /\ disk'[SelfCustodial(s)].ty = "transfer"
             /\ disk'[Trusted(s)] = disk'[SelfCustodial(s)]
  <2>1. <<"successful", s>> \in shown \/ s \in spawned
    <3>1. ASSUME NEW d \in Callers, LockBalance(d) \/ Progress(d)
          PROVE  <<"successful", s>> \in shown
      <4>1. CASE AddInitiated(d)
        <5>1. shown' = shown \cup {<<"initiated", call[d].send>>}
          BY <4>1 DEF AddInitiated
        <5>2. <<"initiated", call[d].send>> # <<"successful", s>>
          OBVIOUS
        <5> QED BY <1>5, <5>1, <5>2
      <4>2. CASE ~AddInitiated(d)
        BY <1>5, <3>1, <4>2 DEF LockBalance, Progress, Flush, ListPayments, SelectVictim, PayTrusted,
           RebalanceInitiated, AwaitReceipt, AwaitSuccess, MarkUnchanged,
           SetTxCausedRebalance, UpsertTransfer, InsertCredit, Finish, ScanReceipt
      <4> QED BY <4>1, <4>2
    <3>2. ASSUME NEW u \in Transfers, Network(u) PROVE <<"successful", s>> \in shown
      BY <1>5, <3>2 DEF Network, ReceiveLightning, ResolveTrusted, PaymentReceived,
         TrustedReported
    <3>3. ASSUME NEW u \in Transfers, AddSuccessful(u)
          PROVE  <<"successful", s>> \in shown \/ s \in spawned
      BY <1>5, <3>3 DEF AddSuccessful
    <3> QED BY <1>5, <3>1, <3>2, <3>3 DEF Next, Settle, SetEnabled, OtherPayment, Restart
  <2>2. <<"initiated", s>> \in shown /\ disk[SelfCustodial(s)].ty = "transfer"
    BY <2>1 DEF AnnounceInv, AnnouncedIsRecorded
  <2> QED BY <1>0, <1>1, <2>2 DEF WrittenInOrder
<1> QED BY <1>2, <1>3, <1>4, <1>5 DEF AnnounceInv, Announced, FinishState, AnnouncedIsRecorded

\* An announced rebalance is on disk, whatever crash comes next.
THEOREM AnnouncedAreRecorded == Spec => []AnnouncedIsRecorded
<1>1. Init => AnnounceInv
  BY IdleFacts DEF Init, AnnounceInv, AnnouncedIsRecorded, Initiated, Recording
<1>2. RebalanceInv /\ AnnounceInv /\ [Next]_vars => AnnounceInv'
  <2>1. ASSUME AnnounceInv, UNCHANGED vars PROVE AnnounceInv'
    BY <2>1 DEF vars, AnnounceInv, AnnouncedIsRecorded, Landed
  <2> QED BY <2>1, AnnounceNext
<1>3. AnnounceInv => AnnouncedIsRecorded
  BY DEF AnnounceInv
<1> QED BY <1>1, <1>2, <1>3, RebalanceInvariant, PTL DEF Spec
=============================================================================
