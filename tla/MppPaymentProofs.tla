--------------------------- MODULE MppPaymentProofs ---------------------------
(***************************************************************************)
(* TLAPS proofs about MppPayment, for every set of fees and every number   *)
(* of crashes and failing writes.                                          *)
(***************************************************************************)
EXTENDS MppPayment, TLAPS

(***************************************************************************)
(* Facts about the operators that compute entries and outcomes.            *)
(***************************************************************************)

\* The initial metadata entries are entries.
LEMMA BlankType == \A ty \in {"none", "payment", "mpp"} : Blank(ty) \in Entry
  BY DEF Blank, Entry, Preimages

\* Recording a leg that succeeded or failed yields an entry again.
LEMMA RecordedType ==
  ASSUME NEW s \in Entry, NEW l \in Legs, NEW r \in LegState
  PROVE  Recorded(s, l, r) \in Entry
  BY DEF Recorded, Entry, LegState, Preimages, Legs

\* The outcome computed from a recorded entry is an outcome: the sum of the
\* two fees saturates at the largest amount.
LEMMA OutcomeType ==
  ASSUME NEW s \in Entry, NEW l \in Legs, NEW r \in LegState
  PROVE  OutcomeOf(Recorded(s, l, r)) \in Outcome
  <1> DEFINE e == Recorded(s, l, r)
  <1>1. e \in Entry
    BY RecordedType
  <1>2. e.finalized = (e.failed \/ \A x \in Legs : e.fee[x] # NoFee)
    BY DEF Recorded, Entry, LegState, Legs
  <1>3. ASSUME e.finalized, ~e.failed
        PROVE  e.fee["trusted"] \in 0..MaxMsat /\ e.fee["lightning"] \in 0..MaxMsat
    BY <1>1, <1>2, <1>3, MppAssumption DEF Entry, Legs
  <1> HIDE DEF e
  <1>4. NoOutcome \in Outcome
    BY MppAssumption DEF NoOutcome, Outcome, Preimages
  <1>5. OutcomeOf(e) \in Outcome
    BY <1>1, <1>3, <1>4, MppAssumption DEF OutcomeOf, Outcome, NoOutcome, SatAdd, Entry
  <1> QED
    BY <1>5 DEF e

\* The resting values of the tasks' variables have their types.
LEMMA IdleType ==
  /\ NoOutcome \in Outcome
  /\ NoWrite \in Write
  /\ \A t \in Tasks : Idle(t) \in AddCall
  <1>1. NoOutcome \in Outcome
    BY MppAssumption DEF NoOutcome, Outcome, Preimages
  <1>2. NoWrite \in Write
    BY BlankType DEF NoWrite, Write
  <1>3. \A t \in Tasks : Idle(t) \in AddCall
    BY <1>1 DEF Idle, AddCall, Legs
  <1> QED
    BY <1>1, <1>2, <1>3

\* The state EventQueue::new and an empty store start from is well typed.
LEMMA InitType == Init => TypeOK
  <1> SUFFICES ASSUME Init PROVE TypeOK
    OBVIOUS
  <1>1. mem \in [Legs -> Entry] /\ disk \in [Legs -> Entry]
    BY BlankType DEF Init
  <1>2. pend \in [Tasks -> Write] /\ add \in [Tasks -> AddCall]
    BY IdleType DEF Init
  <1>3. leg \in [Legs -> LegState]
    BY DEF Init, Unresolved, LegState, Preimages
  <1>4. report \in [Reporters -> {"idle", "adding", "done"}]
    BY DEF Init
  <1>5. lock \in Tasks \cup {Free} /\ raw \subseteq Legs
    BY DEF Init
  <1>6. buffered \in Seq(Legs) /\ replay \in Seq(Legs) /\ combined \in Seq(Outcome)
    BY DEF Init
  <1>7. crashes \in 0..MaxCrashes /\ errors \in 0..MaxErrors
    BY MppAssumption DEF Init
  <1> QED
    BY <1>1, <1>2, <1>3, <1>4, <1>5, <1>6, <1>7 DEF Init, TypeOK

\* A call of do_set with a well-typed entry keeps memory and writes well typed.
LEMMA DoSetType ==
  ASSUME TypeOK, NEW t \in Tasks, NEW k \in Legs, NEW e \in Entry, DoSet(t, k, e)
  PROVE  mem' \in [Legs -> Entry] /\ pend' \in [Tasks -> Write]
  <1>1. WriteOf(k, e) \in Write
    BY DEF WriteOf, Write
  <1> QED
    BY <1>1 DEF DoSet, TypeOK

\* A step that moves a call of add_event on changes nothing else of it.
LEMMA MoveFacts ==
  ASSUME add \in [Tasks -> AddCall], NEW t \in Tasks,
         NEW l \in {"ok", "err", "pushRaw", "pushCombined"},
         add' = [add EXCEPT ![t].pc = l]
  PROVE  /\ add' \in [Tasks -> AddCall]
         /\ \A u \in Tasks : add'[u].out = add[u].out
         /\ \A u \in Tasks : add'[u].pc = l \/ add'[u].pc = add[u].pc
  <1> DEFINE k == [add[t] EXCEPT !.pc = l]
  <1>1. add[t] \in AddCall
    OBVIOUS
  <1>2. k \in AddCall /\ k.out = add[t].out /\ k.pc = l
    BY <1>1 DEF AddCall
  <1>3. add' = [add EXCEPT ![t] = k]
    OBVIOUS
  <1> HIDE DEF k
  <1> QED
    BY <1>2, <1>3

\* Every step keeps the state well typed.
LEMMA NextType == TypeOK /\ [Next]_vars => TypeOK'
  <1> SUFFICES ASSUME TypeOK, [Next]_vars PROVE TypeOK'
    OBVIOUS
  <1> USE DEF TypeOK
  <1>1. CASE BeginMppSetup
    BY <1>1 DEF BeginMppSetup
  <1>2. CASE PayPartial
    BY <1>2 DEF PayPartial, Unresolved, LegState, Preimages
  <1>3. CASE PayLightning
    <2>1. Blank("payment") \in Entry /\ "trusted" \in Legs /\ "payer" \in Tasks
      BY BlankType DEF Legs, Tasks
    <2>2. mem' \in [Legs -> Entry] /\ pend' \in [Tasks -> Write]
      BY <1>3, <2>1, DoSetType DEF PayLightning
    <2>3. Unresolved("inflight") \in LegState
      BY DEF Unresolved, LegState, Preimages
    <2>4. leg' \in [Legs -> LegState]
      BY <1>3, <2>3 DEF PayLightning
    <2> QED
      BY <1>3, <2>2, <2>4 DEF PayLightning
  <1>4. CASE RegisterSurface
    <2>1. Blank("mpp") \in Entry /\ "trusted" \in Legs /\ "payer" \in Tasks
      BY BlankType DEF Legs, Tasks
    <2>2. mem' \in [Legs -> Entry] /\ pend' \in [Tasks -> Write]
      BY <1>4, <2>1, DoSetType DEF RegisterSurface
    <2> QED
      BY <1>4, <2>2 DEF RegisterSurface
  <1>5. CASE RegisterLightning
    <2>1. Blank("mpp") \in Entry /\ "lightning" \in Legs /\ "payer" \in Tasks
      BY BlankType DEF Legs, Tasks
    <2>2. mem' \in [Legs -> Entry] /\ pend' \in [Tasks -> Write]
      BY <1>5, <2>1, DoSetType DEF RegisterLightning
    <2> QED
      BY <1>5, <2>2 DEF RegisterLightning
  <1>6. CASE FinishMppSetup
    <2>1. buffered' \in Seq(Legs) /\ replay' \in Seq(Legs)
      BY <1>6 DEF FinishMppSetup
    <2> QED
      BY <1>6, <2>1 DEF FinishMppSetup
  <1>7. CASE ReplayEvent
    <2>1. Head(replay) \in Legs /\ Tail(replay) \in Seq(Legs)
      BY <1>7 DEF ReplayEvent
    <2>2. add' \in [Tasks -> AddCall]
      <3> DEFINE k == [add["payer"] EXCEPT !.pc = "route", !.leg = Head(replay)]
      <3>1. add["payer"] \in AddCall
        BY DEF Tasks
      <3>2. k \in AddCall
        BY <2>1, <3>1 DEF AddCall
      <3>3. add' = [add EXCEPT !["payer"] = k]
        BY <1>7 DEF ReplayEvent
      <3> HIDE DEF k
      <3> QED
        BY <3>2, <3>3
    <2> QED
      BY <1>7, <2>1, <2>2 DEF ReplayEvent
  <1>8. CASE ReplayReturn
    <2>1. add' \in [Tasks -> AddCall]
      BY <1>8, IdleType DEF ReplayReturn
    <2> QED
      BY <1>8, <2>1 DEF ReplayReturn
  <1>9. CASE PayReturns
    BY <1>9 DEF PayReturns
  <1>10. ASSUME NEW l \in Legs, ResolveLeg(l) PROVE TypeOK'
    <2>1. \A f \in Fees, q \in {"real", "zero"} :
             [st |-> "succeeded", fee |-> f, preimage |-> q] \in LegState
      BY DEF LegState, Preimages
    <2>2. Unresolved("failed") \in LegState /\ Unresolved("unknown") \in LegState
      BY DEF Unresolved, LegState, Preimages
    <2>3. leg' \in [Legs -> LegState]
      <3>1. \E v \in LegState : leg' = [leg EXCEPT ![l] = v]
        BY <1>10, <2>1, <2>2 DEF ResolveLeg
      <3>2. leg \in [Legs -> LegState]
        OBVIOUS
      <3> HIDE DEF TypeOK
      <3> QED
        BY <3>1, <3>2
    <2> QED
      BY <1>10, <2>3 DEF ResolveLeg
  <1>11. ASSUME NEW r \in Reporters, StartReport(r) PROVE TypeOK'
    <2>1. LegOf(r) \in Legs /\ r \in Tasks
      BY DEF LegOf, Legs, Tasks
    <2>2. [mem[LegOf(r)] EXCEPT !.preimage = leg[LegOf(r)].preimage] \in Entry
      <3>1. mem[LegOf(r)] \in Entry /\ leg[LegOf(r)].preimage \in Preimages
        BY <2>1 DEF LegState
      <3> QED
        BY <3>1 DEF Entry
    <2>3. mem' \in [Legs -> Entry] /\ pend' \in [Tasks -> Write]
      BY <1>11, <2>1, <2>2, DoSetType DEF StartReport
    <2>4. add' \in [Tasks -> AddCall] /\ report' \in [Reporters -> {"idle", "adding", "done"}]
      BY <1>11, <2>1 DEF StartReport, AddCall
    <2> QED
      BY <1>11, <2>3, <2>4 DEF StartReport
  <1>12. ASSUME NEW r \in Reporters, FinishReport(r) PROVE TypeOK'
    <2>1. r \in Tasks
      BY DEF Tasks
    <2>2. add' \in [Tasks -> AddCall] /\ report' \in [Reporters -> {"idle", "adding", "done"}]
      BY <1>12, <2>1, IdleType DEF FinishReport
    <2>3. errors' \in 0..MaxErrors
      BY <1>12, MppAssumption DEF FinishReport
    <2> QED
      BY <1>12, <2>2, <2>3 DEF FinishReport
  <1>13. ASSUME NEW t \in Tasks, Flush(t) PROVE TypeOK'
    <2>1. disk' \in [Legs -> Entry] /\ pend' \in [Tasks -> Write]
      BY <1>13, IdleType DEF Flush, Write
    <2>2. staleWrite' \in BOOLEAN
      BY <1>13 DEF Flush
    <2> QED
      BY <1>13, <2>1, <2>2 DEF Flush
  <1>14. ASSUME NEW t \in Tasks, RouteEvent(t) PROVE TypeOK'
    <2>1. add' \in [Tasks -> AddCall]
      BY <1>14 DEF RouteEvent, AddCall
    <2> QED
      BY <1>14, <2>1 DEF RouteEvent
  <1>15. ASSUME NEW t \in Tasks, BufferEvent(t) PROVE TypeOK'
    <2>1. add' \in [Tasks -> AddCall] /\ add[t].leg \in Legs
      <3>1. add[t].leg \in Legs
        BY DEF AddCall
      <3>2. add' = [add EXCEPT ![t].pc = "ok"] \/ add' = [add EXCEPT ![t].pc = "pushRaw"]
        BY <1>15 DEF BufferEvent
      <3> QED
        BY <3>1, <3>2, MoveFacts
    <2> QED
      BY <1>15, <2>1 DEF BufferEvent
  <1>16. ASSUME NEW t \in Tasks, RecordMppLeg(t) PROVE TypeOK'
    <2> DEFINE l == add[t].leg
               e == Recorded(mem["trusted"], l, leg[l])
    <2>1. l \in Legs /\ "trusted" \in Legs /\ e \in Entry /\ OutcomeOf(e) \in Outcome
      BY RecordedType, OutcomeType DEF AddCall, Legs
    <2>2. mem' \in [Legs -> Entry] /\ pend' \in [Tasks -> Write]
      BY <1>16, <2>1, DoSetType DEF RecordMppLeg
    <2>3. add' \in [Tasks -> AddCall]
      <3>1. [add[t] EXCEPT !.pc = "recorded", !.out = OutcomeOf(e)] \in AddCall
        BY <2>1 DEF AddCall
      <3>2. [add[t] EXCEPT !.pc = "ok"] \in AddCall
        BY DEF AddCall
      <3> QED
        BY <1>16, <3>1, <3>2 DEF RecordMppLeg
    <2> QED
      BY <1>16, <2>2, <2>3 DEF RecordMppLeg
  <1>17. ASSUME NEW t \in Tasks, RecordReturn(t) PROVE TypeOK'
    <2>1. add' \in [Tasks -> AddCall]
      <3>1. \/ add' = [add EXCEPT ![t].pc = "ok"]
            \/ add' = [add EXCEPT ![t].pc = "pushCombined"]
        BY <1>17 DEF RecordReturn
      <3> QED
        BY <3>1, MoveFacts
    <2> QED
      BY <1>17, <2>1 DEF RecordReturn
  <1>18. ASSUME NEW t \in Tasks, PushEvent(t) PROVE TypeOK'
    <2>1. add[t].leg \in Legs /\ add[t].out \in Outcome
      BY DEF AddCall
    <2>2. add' \in [Tasks -> AddCall]
      <3>1. [add[t] EXCEPT !.pc = "ok"] \in AddCall /\ [add[t] EXCEPT !.pc = "err"] \in AddCall
        BY DEF AddCall
      <3> QED
        BY <1>18, <3>1 DEF PushEvent
    <2>3. errors' \in 0..MaxErrors
      BY <1>18, MppAssumption DEF PushEvent
    <2>4. Append(combined, add[t].out) \in Seq(Outcome)
      BY <2>1
    <2>5. combined' \in Seq(Outcome) /\ raw' \subseteq Legs
      BY <1>18, <2>1, <2>4 DEF PushEvent
    <2> QED
      BY <1>18, <2>2, <2>3, <2>5 DEF PushEvent
  <1>19. CASE CrashRestart
    <2>1. add' \in [Tasks -> AddCall] /\ pend' \in [Tasks -> Write]
      BY <1>19, IdleType DEF CrashRestart
    <2>2. report' \in [Reporters -> {"idle", "adding", "done"}]
      BY <1>19 DEF CrashRestart
    <2>3. crashes' \in 0..MaxCrashes
      BY <1>19, MppAssumption DEF CrashRestart
    <2>4. buffered' \in Seq(Legs) /\ replay' \in Seq(Legs)
      BY <1>19 DEF CrashRestart
    <2> QED
      BY <1>19, <2>1, <2>2, <2>3, <2>4 DEF CrashRestart
  <1>20. CASE UNCHANGED vars
    BY <1>20 DEF vars
  <1> QED
    BY <1>1, <1>2, <1>3, <1>4, <1>5, <1>6, <1>7, <1>8, <1>9, <1>10, <1>11,
       <1>12, <1>13, <1>14, <1>15, <1>16, <1>17, <1>18, <1>19, <1>20
       DEF Next, PayerStep, AddEventStep, Terminated

\* The state of the payment stays well typed: fee sums stay within u64, only
\* known legs are buffered, counters within their bounds.
THEOREM MppTyping == Spec => []TypeOK
  BY InitType, NextType, PTL DEF Spec

\* What the network decided about a leg is final.
LEMMA LegStable ==
  ASSUME TypeOK, NotYetSent, [Next]_vars
  PROVE  \A k \in Legs : Resolved(k) => leg'[k] = leg[k]
  <1> USE DEF NotYetSent, Resolved, TypeOK, LegState
  <1>1. CASE BeginMppSetup
    BY <1>1 DEF BeginMppSetup
  <1>2. CASE PayPartial
    BY <1>2 DEF PayPartial, Unresolved
  <1>3. CASE PayLightning
    BY <1>3 DEF PayLightning, Unresolved
  <1>4. CASE RegisterSurface
    BY <1>4 DEF RegisterSurface
  <1>5. CASE RegisterLightning
    BY <1>5 DEF RegisterLightning
  <1>6. CASE FinishMppSetup
    BY <1>6 DEF FinishMppSetup
  <1>7. CASE ReplayEvent
    BY <1>7 DEF ReplayEvent
  <1>8. CASE ReplayReturn
    BY <1>8 DEF ReplayReturn
  <1>9. CASE PayReturns
    BY <1>9 DEF PayReturns
  <1>10. ASSUME NEW l \in Legs, ResolveLeg(l) PROVE \A k \in Legs : Resolved(k) => leg'[k] = leg[k]
    BY <1>10 DEF ResolveLeg, Unresolved
  <1>11. ASSUME NEW r \in Reporters, StartReport(r) PROVE \A k \in Legs : Resolved(k) => leg'[k] = leg[k]
    BY <1>11 DEF StartReport
  <1>12. ASSUME NEW r \in Reporters, FinishReport(r) PROVE \A k \in Legs : Resolved(k) => leg'[k] = leg[k]
    BY <1>12 DEF FinishReport
  <1>13. ASSUME NEW t \in Tasks, Flush(t) PROVE \A k \in Legs : Resolved(k) => leg'[k] = leg[k]
    BY <1>13 DEF Flush
  <1>14. ASSUME NEW t \in Tasks, RouteEvent(t) PROVE \A k \in Legs : Resolved(k) => leg'[k] = leg[k]
    BY <1>14 DEF RouteEvent
  <1>15. ASSUME NEW t \in Tasks, BufferEvent(t) PROVE \A k \in Legs : Resolved(k) => leg'[k] = leg[k]
    BY <1>15 DEF BufferEvent
  <1>16. ASSUME NEW t \in Tasks, RecordMppLeg(t) PROVE \A k \in Legs : Resolved(k) => leg'[k] = leg[k]
    BY <1>16 DEF RecordMppLeg
  <1>17. ASSUME NEW t \in Tasks, RecordReturn(t) PROVE \A k \in Legs : Resolved(k) => leg'[k] = leg[k]
    BY <1>17 DEF RecordReturn
  <1>18. ASSUME NEW t \in Tasks, PushEvent(t) PROVE \A k \in Legs : Resolved(k) => leg'[k] = leg[k]
    BY <1>18 DEF PushEvent
  <1>19. CASE CrashRestart
    BY <1>19 DEF CrashRestart
  <1>20. CASE UNCHANGED vars
    BY <1>20 DEF vars
  <1> QED
    BY <1>1, <1>2, <1>3, <1>4, <1>5, <1>6, <1>7, <1>8, <1>9, <1>10,
       <1>11, <1>12, <1>13, <1>14, <1>15, <1>16, <1>17, <1>18, <1>19,
       <1>20
       DEF Next, PayerStep, AddEventStep, Terminated

\* A leg that has not been sent has no result: kept by every step.
LEMMA SentStep ==
  ASSUME TypeOK, NotYetSent, [Next]_vars
  PROVE  NotYetSent'
  <1> USE DEF NotYetSent, TypeOK, LegState, Legs
  <1>1. CASE BeginMppSetup
    BY <1>1 DEF BeginMppSetup
  <1>2. CASE PayPartial
    BY <1>2 DEF PayPartial, Unresolved
  <1>3. CASE PayLightning
    BY <1>3 DEF PayLightning, Unresolved
  <1>4. CASE RegisterSurface
    BY <1>4 DEF RegisterSurface
  <1>5. CASE RegisterLightning
    BY <1>5 DEF RegisterLightning
  <1>6. CASE FinishMppSetup
    BY <1>6 DEF FinishMppSetup
  <1>7. CASE ReplayEvent
    BY <1>7 DEF ReplayEvent
  <1>8. CASE ReplayReturn
    BY <1>8 DEF ReplayReturn
  <1>9. CASE PayReturns
    BY <1>9 DEF PayReturns
  <1>10. ASSUME NEW l \in Legs, ResolveLeg(l) PROVE NotYetSent'
    BY <1>10 DEF ResolveLeg, Unresolved
  <1>11. ASSUME NEW r \in Reporters, StartReport(r) PROVE NotYetSent'
    BY <1>11 DEF StartReport
  <1>12. ASSUME NEW r \in Reporters, FinishReport(r) PROVE NotYetSent'
    BY <1>12 DEF FinishReport
  <1>13. ASSUME NEW t \in Tasks, Flush(t) PROVE NotYetSent'
    BY <1>13 DEF Flush
  <1>14. ASSUME NEW t \in Tasks, RouteEvent(t) PROVE NotYetSent'
    BY <1>14 DEF RouteEvent
  <1>15. ASSUME NEW t \in Tasks, BufferEvent(t) PROVE NotYetSent'
    BY <1>15 DEF BufferEvent
  <1>16. ASSUME NEW t \in Tasks, RecordMppLeg(t) PROVE NotYetSent'
    BY <1>16 DEF RecordMppLeg
  <1>17. ASSUME NEW t \in Tasks, RecordReturn(t) PROVE NotYetSent'
    BY <1>17 DEF RecordReturn
  <1>18. ASSUME NEW t \in Tasks, PushEvent(t) PROVE NotYetSent'
    BY <1>18 DEF PushEvent
  <1>19. CASE CrashRestart
    BY <1>19 DEF CrashRestart
  <1>20. CASE UNCHANGED vars
    BY <1>20 DEF vars
  <1> QED
    BY <1>1, <1>2, <1>3, <1>4, <1>5, <1>6, <1>7, <1>8, <1>9, <1>10,
       <1>11, <1>12, <1>13, <1>14, <1>15, <1>16, <1>17, <1>18, <1>19,
       <1>20
       DEF Next, PayerStep, AddEventStep, Terminated

\* add_event only ever runs for a leg whose fate is decided: kept by every step.
LEMMA ResolvedStep ==
  ASSUME TypeOK, NotYetSent, EventsAreResolved, [Next]_vars
  PROVE  EventsAreResolved'
  <1> USE DEF TypeOK, EventsAreResolved, AddCall, Tasks, Reporters
  <1>1. CASE BeginMppSetup
    BY <1>1 DEF BeginMppSetup, Resolved
  <1>2. CASE PayPartial
    <2>1. \A k \in Legs : Resolved(k) => Resolved(k)'
      BY LegStable DEF Resolved
    <2> QED
      BY <1>2, <2>1 DEF PayPartial
  <1>3. CASE PayLightning
    <2>1. \A k \in Legs : Resolved(k) => Resolved(k)'
      BY LegStable DEF Resolved
    <2> QED
      BY <1>3, <2>1 DEF PayLightning
  <1>4. CASE RegisterSurface
    BY <1>4 DEF RegisterSurface, Resolved
  <1>5. CASE RegisterLightning
    BY <1>5 DEF RegisterLightning, Resolved
  <1>6. CASE FinishMppSetup
    BY <1>6 DEF FinishMppSetup, Resolved
  <1>7. CASE ReplayEvent
    <2>1. \A k : Resolved(k)' <=> Resolved(k)
      BY <1>7 DEF ReplayEvent, Resolved
    <2>2. Head(replay) = replay[1] /\ 1 \in 1..Len(replay)
      BY <1>7 DEF ReplayEvent
    <2>3. \A i \in 1..Len(Tail(replay)) : Tail(replay)[i] = replay[i + 1] /\ i + 1 \in 1..Len(replay)
      BY <1>7 DEF ReplayEvent
    <2>4. \A r \in Reporters : add'[r] = add[r]
      BY <1>7 DEF ReplayEvent
    <2>5. \A u \in Tasks : add'[u].pc # "idle" => Resolved(add'[u].leg)
      <3>1. add'["payer"].leg = Head(replay)
        BY <1>7 DEF ReplayEvent
      <3>2. Resolved(Head(replay))
        BY <2>2
      <3>3. \A u \in Tasks \ {"payer"} : add'[u] = add[u]
        BY <1>7 DEF ReplayEvent
      <3> QED
        BY <3>1, <3>2, <3>3
    <2>6. \A i \in 1..Len(replay') : Resolved(replay'[i])
      BY <1>7, <2>3 DEF ReplayEvent
    <2>7. buffered' = buffered
      BY <1>7 DEF ReplayEvent
    <2> QED
      BY <2>1, <2>4, <2>5, <2>6, <2>7
  <1>8. CASE ReplayReturn
    BY <1>8 DEF ReplayReturn, Idle, Resolved
  <1>9. CASE PayReturns
    BY <1>9 DEF PayReturns, Resolved
  <1>10. ASSUME NEW l \in Legs, ResolveLeg(l) PROVE EventsAreResolved'
    <2>1. \A k \in Legs : Resolved(k) => Resolved(k)'
      BY LegStable DEF Resolved
    <2> QED
      BY <1>10, <2>1 DEF ResolveLeg
  <1>11. ASSUME NEW r \in Reporters, StartReport(r) PROVE EventsAreResolved'
    BY <1>11 DEF StartReport, Resolved, LegOf
  <1>12. ASSUME NEW r \in Reporters, FinishReport(r) PROVE EventsAreResolved'
    BY <1>12 DEF FinishReport, Idle, LegOf, Resolved
  <1>13. ASSUME NEW t \in Tasks, Flush(t) PROVE EventsAreResolved'
    BY <1>13 DEF Flush, Resolved
  <1>14. ASSUME NEW t \in Tasks, RouteEvent(t) PROVE EventsAreResolved'
    BY <1>14 DEF RouteEvent, Resolved
  <1>15. ASSUME NEW t \in Tasks, BufferEvent(t) PROVE EventsAreResolved'
    BY <1>15 DEF BufferEvent, Resolved
  <1>16. ASSUME NEW t \in Tasks, RecordMppLeg(t) PROVE EventsAreResolved'
    <2>1. \A k : Resolved(k)' <=> Resolved(k)
      BY <1>16 DEF RecordMppLeg, Resolved
    <2>2. \A u \in Tasks : add'[u].leg = add[u].leg /\ (add'[u].pc # "idle" => add[u].pc # "idle")
      BY <1>16 DEF RecordMppLeg
    <2>3. buffered' = buffered /\ replay' = replay
      BY <1>16 DEF RecordMppLeg
    <2> QED
      BY <2>1, <2>2, <2>3
  <1>17. ASSUME NEW t \in Tasks, RecordReturn(t) PROVE EventsAreResolved'
    BY <1>17 DEF RecordReturn, Resolved
  <1>18. ASSUME NEW t \in Tasks, PushEvent(t) PROVE EventsAreResolved'
    <2>1. \A k : Resolved(k)' <=> Resolved(k)
      BY <1>18 DEF PushEvent, Resolved
    <2>2. \A u \in Tasks : add'[u].leg = add[u].leg /\ (add'[u].pc # "idle" => add[u].pc # "idle")
      BY <1>18 DEF PushEvent
    <2>3. buffered' = buffered /\ replay' = replay
      BY <1>18 DEF PushEvent
    <2> QED
      BY <2>1, <2>2, <2>3
  <1>19. CASE CrashRestart
    BY <1>19 DEF CrashRestart, Idle, LegOf, Resolved
  <1>20. CASE UNCHANGED vars
    BY <1>20 DEF vars, Resolved
  <1> QED
    BY <1>1, <1>2, <1>3, <1>4, <1>5, <1>6, <1>7, <1>8, <1>9, <1>10,
       <1>11, <1>12, <1>13, <1>14, <1>15, <1>16, <1>17, <1>18, <1>19,
       <1>20
       DEF Next, PayerStep, AddEventStep, Terminated

\* set_preimage changes only the entry of a plain payment, and only its preimage.
LEMMA SetPreimageFrame ==
  ASSUME TypeOK, NEW r \in Reporters, StartReport(r), NEW k \in Legs
  PROVE  \/ mem'[k] = mem[k]
         \/ /\ mem[k].ty = "payment" /\ k = LegOf(r) /\ Succeeded(k)
            /\ mem'[k] = [mem[k] EXCEPT !.preimage = leg[k].preimage]
  <1> DEFINE l == LegOf(r)
             e == [mem[l] EXCEPT !.preimage = leg[l].preimage]
  <1>1. CASE SetsPreimage(l)
    <2>1. mem' = [mem EXCEPT ![l] = e]
      BY <1>1 DEF StartReport, DoSet
    <2> QED
      BY <1>1, <2>1 DEF TypeOK, SetsPreimage, Succeeded
  <1>2. CASE ~SetsPreimage(l)
    BY <1>2 DEF StartReport
  <1> QED
    BY <1>1, <1>2


\* The caller of `pay` adds events only in finish_mpp_setup: kept by every step.
LEMMA PayerStepKept ==
  ASSUME TypeOK, PayerAddsInReplay, [Next]_vars
  PROVE  PayerAddsInReplay'
  <1> USE DEF TypeOK, PayerAddsInReplay, AddCall, Tasks, Reporters
  <1>1. CASE BeginMppSetup
    BY <1>1 DEF BeginMppSetup
  <1>2. CASE PayPartial
    BY <1>2 DEF PayPartial
  <1>3. CASE PayLightning
    BY <1>3 DEF PayLightning
  <1>4. CASE RegisterSurface
    BY <1>4 DEF RegisterSurface
  <1>5. CASE RegisterLightning
    BY <1>5 DEF RegisterLightning
  <1>6. CASE FinishMppSetup
    BY <1>6 DEF FinishMppSetup
  <1>7. CASE ReplayEvent
    BY <1>7 DEF ReplayEvent
  <1>8. CASE ReplayReturn
    BY <1>8 DEF ReplayReturn, Idle
  <1>9. CASE PayReturns
    BY <1>9 DEF PayReturns
  <1>10. ASSUME NEW l \in Legs, ResolveLeg(l) PROVE PayerAddsInReplay'
    BY <1>10 DEF ResolveLeg
  <1>11. ASSUME NEW r \in Reporters, StartReport(r) PROVE PayerAddsInReplay'
    BY <1>11 DEF StartReport
  <1>12. ASSUME NEW r \in Reporters, FinishReport(r) PROVE PayerAddsInReplay'
    BY <1>12 DEF FinishReport, Idle
  <1>13. ASSUME NEW t \in Tasks, Flush(t) PROVE PayerAddsInReplay'
    BY <1>13 DEF Flush
  <1>14. ASSUME NEW t \in Tasks, RouteEvent(t) PROVE PayerAddsInReplay'
    BY <1>14 DEF RouteEvent
  <1>15. ASSUME NEW t \in Tasks, BufferEvent(t) PROVE PayerAddsInReplay'
    BY <1>15 DEF BufferEvent
  <1>16. ASSUME NEW t \in Tasks, RecordMppLeg(t) PROVE PayerAddsInReplay'
    BY <1>16 DEF RecordMppLeg
  <1>17. ASSUME NEW t \in Tasks, RecordReturn(t) PROVE PayerAddsInReplay'
    BY <1>17 DEF RecordReturn
  <1>18. ASSUME NEW t \in Tasks, PushEvent(t) PROVE PayerAddsInReplay'
    BY <1>18 DEF PushEvent
  <1>19. CASE CrashRestart
    BY <1>19 DEF CrashRestart, Idle
  <1>20. CASE UNCHANGED vars
    BY <1>20 DEF vars
  <1> QED
    BY <1>1, <1>2, <1>3, <1>4, <1>5, <1>6, <1>7, <1>8, <1>9, <1>10,
       <1>11, <1>12, <1>13, <1>14, <1>15, <1>16, <1>17, <1>18, <1>19,
       <1>20
       DEF Next, PayerStep, AddEventStep, Terminated

\* Before registration the payment has no metadata: kept by every step.
LEMMA RegisteredStep ==
  ASSUME TypeOK, NotYetRegistered, [Next]_vars
  PROVE  NotYetRegistered'
  <1> USE DEF NotYetRegistered, Blank
  <1>1. CASE BeginMppSetup
    BY <1>1 DEF BeginMppSetup
  <1>2. CASE PayPartial
    BY <1>2 DEF PayPartial
  <1>3. CASE PayLightning
    BY <1>3 DEF PayLightning
  <1>4. CASE RegisterSurface
    BY <1>4 DEF RegisterSurface
  <1>5. CASE RegisterLightning
    BY <1>5 DEF RegisterLightning
  <1>6. CASE FinishMppSetup
    BY <1>6 DEF FinishMppSetup
  <1>7. CASE ReplayEvent
    BY <1>7 DEF ReplayEvent
  <1>8. CASE ReplayReturn
    BY <1>8 DEF ReplayReturn
  <1>9. CASE PayReturns
    BY <1>9 DEF PayReturns
  <1>10. ASSUME NEW l \in Legs, ResolveLeg(l) PROVE NotYetRegistered'
    BY <1>10 DEF ResolveLeg
  <1>11. ASSUME NEW r \in Reporters, StartReport(r) PROVE NotYetRegistered'
    <2>1. "trusted" \in Legs /\ payer' = payer
      BY <1>11 DEF StartReport, Legs
    <2>2. mem'["trusted"] = mem["trusted"] \/ mem["trusted"].ty = "payment"
      BY <1>11, <2>1, SetPreimageFrame
    <2> QED
      BY <2>1, <2>2
  <1>12. ASSUME NEW r \in Reporters, FinishReport(r) PROVE NotYetRegistered'
    BY <1>12 DEF FinishReport
  <1>13. ASSUME NEW t \in Tasks, Flush(t) PROVE NotYetRegistered'
    BY <1>13 DEF Flush
  <1>14. ASSUME NEW t \in Tasks, RouteEvent(t) PROVE NotYetRegistered'
    BY <1>14 DEF RouteEvent
  <1>15. ASSUME NEW t \in Tasks, BufferEvent(t) PROVE NotYetRegistered'
    BY <1>15 DEF BufferEvent
  <1>16. ASSUME NEW t \in Tasks, RecordMppLeg(t) PROVE NotYetRegistered'
    BY <1>16 DEF RecordMppLeg, Recordable
  <1>17. ASSUME NEW t \in Tasks, RecordReturn(t) PROVE NotYetRegistered'
    BY <1>17 DEF RecordReturn
  <1>18. ASSUME NEW t \in Tasks, PushEvent(t) PROVE NotYetRegistered'
    BY <1>18 DEF PushEvent
  <1>19. CASE CrashRestart
    BY <1>19 DEF CrashRestart
  <1>20. CASE UNCHANGED vars
    BY <1>20 DEF vars
  <1> QED
    BY <1>1, <1>2, <1>3, <1>4, <1>5, <1>6, <1>7, <1>8, <1>9, <1>10,
       <1>11, <1>12, <1>13, <1>14, <1>15, <1>16, <1>17, <1>18, <1>19,
       <1>20
       DEF Next, PayerStep, AddEventStep, Terminated

\* The record lock is held exactly while a leg's result is being written, and the
\* snapshot being written is the latest entry: kept by every step.
LEMMA LockStep ==
  ASSUME TypeOK, PayerAddsInReplay, NotYetRegistered, LockHeldByRecorder, RecordSnapshotIsLatest, [Next]_vars
  PROVE  (LockHeldByRecorder /\ RecordSnapshotIsLatest)'
  <1> USE DEF TypeOK, LockHeldByRecorder, RecordSnapshotIsLatest, AddCall, Tasks, Reporters, Landed, Free
  <1>1. CASE BeginMppSetup
    BY <1>1 DEF BeginMppSetup
  <1>2. CASE PayPartial
    BY <1>2 DEF PayPartial
  <1>3. CASE PayLightning
    BY <1>3 DEF PayLightning, DoSet, Blank, NotYetRegistered
  <1>4. CASE RegisterSurface
    BY <1>4 DEF RegisterSurface, DoSet, Blank, NotYetRegistered
  <1>5. CASE RegisterLightning
    BY <1>5 DEF RegisterLightning, DoSet, PayerAddsInReplay, Legs
  <1>6. CASE FinishMppSetup
    BY <1>6 DEF FinishMppSetup
  <1>7. CASE ReplayEvent
    BY <1>7 DEF ReplayEvent
  <1>8. CASE ReplayReturn
    BY <1>8 DEF ReplayReturn, Idle
  <1>9. CASE PayReturns
    BY <1>9 DEF PayReturns
  <1>10. ASSUME NEW l \in Legs, ResolveLeg(l) PROVE (LockHeldByRecorder /\ RecordSnapshotIsLatest)'
    BY <1>10 DEF ResolveLeg
  <1>11. ASSUME NEW r \in Reporters, StartReport(r) PROVE (LockHeldByRecorder /\ RecordSnapshotIsLatest)'
    <2>1. \A u \in Tasks : (add'[u].pc = "recorded" <=> add[u].pc = "recorded")
                           /\ (add'[u].pc = "recorded" => pend'[u] = pend[u])
      BY <1>11 DEF StartReport, DoSet
    <2>2. lock' = lock
      BY <1>11 DEF StartReport
    <2>3. mem["trusted"].ty = "mpp" => mem'["trusted"] = mem["trusted"]
      BY <1>11, SetPreimageFrame DEF Legs
    <2> QED
      BY <2>1, <2>2, <2>3
  <1>12. ASSUME NEW r \in Reporters, FinishReport(r) PROVE (LockHeldByRecorder /\ RecordSnapshotIsLatest)'
    BY <1>12 DEF FinishReport, Idle, LegOf
  <1>13. ASSUME NEW t \in Tasks, Flush(t) PROVE (LockHeldByRecorder /\ RecordSnapshotIsLatest)'
    BY <1>13 DEF Flush
  <1>14. ASSUME NEW t \in Tasks, RouteEvent(t) PROVE (LockHeldByRecorder /\ RecordSnapshotIsLatest)'
    BY <1>14 DEF RouteEvent
  <1>15. ASSUME NEW t \in Tasks, BufferEvent(t) PROVE (LockHeldByRecorder /\ RecordSnapshotIsLatest)'
    BY <1>15 DEF BufferEvent
  <1>16. ASSUME NEW t \in Tasks, RecordMppLeg(t) PROVE (LockHeldByRecorder /\ RecordSnapshotIsLatest)'
    <2> DEFINE e == Recorded(mem["trusted"], add[t].leg, leg[add[t].leg])
    <2>1. CASE Recordable(add[t].leg)
      <3>1. lock = Free /\ lock' = t /\ add'[t].pc = "recorded"
        BY <1>16, <2>1 DEF RecordMppLeg
      <3>2. \A u \in Tasks \ {t} : add'[u] = add[u] /\ add'[u].pc # "recorded"
        BY <1>16, <3>1 DEF RecordMppLeg
      <3>3. pend'[t] = WriteOf("trusted", e) /\ mem'["trusted"] = e
        BY <1>16, <2>1 DEF RecordMppLeg, DoSet, Legs
      <3>4. e.ty = "mpp"
        BY <2>1 DEF Recorded, Recordable, Entry, Legs
      <3> QED
        BY <3>1, <3>2, <3>3, <3>4 DEF WriteOf
    <2>2. CASE ~Recordable(add[t].leg)
      BY <1>16, <2>2 DEF RecordMppLeg
    <2> QED
      BY <2>1, <2>2
  <1>17. ASSUME NEW t \in Tasks, RecordReturn(t) PROVE (LockHeldByRecorder /\ RecordSnapshotIsLatest)'
    BY <1>17 DEF RecordReturn
  <1>18. ASSUME NEW t \in Tasks, PushEvent(t) PROVE (LockHeldByRecorder /\ RecordSnapshotIsLatest)'
    <2>1. \A u \in Tasks : (add'[u].pc = "recorded" <=> add[u].pc = "recorded")
      BY <1>18 DEF PushEvent
    <2>2. lock' = lock /\ mem' = mem /\ pend' = pend
      BY <1>18 DEF PushEvent
    <2> QED
      BY <2>1, <2>2
  <1>19. CASE CrashRestart
    BY <1>19 DEF CrashRestart, Idle, LegOf
  <1>20. CASE UNCHANGED vars
    BY <1>20 DEF vars
  <1> QED
    BY <1>1, <1>2, <1>3, <1>4, <1>5, <1>6, <1>7, <1>8, <1>9, <1>10,
       <1>11, <1>12, <1>13, <1>14, <1>15, <1>16, <1>17, <1>18, <1>19,
       <1>20
       DEF Next, PayerStep, AddEventStep, Terminated

-----------------------------------------------------------------------------
(***************************************************************************)
(* Soundness of the entries: what is accumulated is what the legs did.     *)
(***************************************************************************)

\* A fresh entry claims nothing.
LEMMA BlankSound == \A ty : EntrySound(Blank(ty))
  BY DEF EntrySound, Blank, Legs

\* Recording a decided leg keeps the entry sound.
LEMMA RecordedSound ==
  ASSUME TypeOK, NEW s \in Entry, EntrySound(s), NEW l \in Legs, Resolved(l)
  PROVE  EntrySound(Recorded(s, l, leg[l]))
  <1> DEFINE e == Recorded(s, l, leg[l])
  <1> SUFFICES EntrySound(e)
    OBVIOUS
  <1>1. CASE leg[l].st = "succeeded"
    <2>1. /\ e.fee = [s.fee EXCEPT ![l] = leg[l].fee]
          /\ e.preimage = leg[l].preimage
          /\ e.failed = s.failed
      BY <1>1 DEF Recorded, Entry
    <2> HIDE DEF e
    <2>2. s.fee \in [Legs -> Fees \cup {NoFee}]
      BY DEF Entry
    <2> QED
      BY <1>1, <2>1, <2>2 DEF EntrySound, Succeeded
  <1>2. CASE leg[l].st = "failed"
    <2>1. e.fee = s.fee /\ e.preimage = s.preimage
      BY <1>2 DEF Recorded, Entry
    <2> HIDE DEF e
    <2> QED
      BY <1>2, <2>1 DEF EntrySound, Succeeded
  <1> QED
    BY <1>1, <1>2 DEF Resolved

\* The outcome taken from a sound entry is sound.
LEMMA OutcomeOfSound ==
  ASSUME TypeOK, NEW s \in Entry, EntrySound(s), NEW l \in Legs, Resolved(l)
  PROVE  OutcomeSound(OutcomeOf(Recorded(s, l, leg[l])))
  <1> DEFINE e == Recorded(s, l, leg[l])
  <1>1. EntrySound(e)
    BY RecordedSound
  <1> SUFFICES OutcomeSound(OutcomeOf(e))
    OBVIOUS
  <1>2. e.finalized = (e.failed \/ \A x \in Legs : e.fee[x] # NoFee)
    BY DEF Recorded, Entry, LegState, Legs, TypeOK
  <1> HIDE DEF e
  <1>3. CASE ~e.finalized
    BY <1>3 DEF OutcomeOf, OutcomeSound
  <1>4. CASE e.finalized /\ e.failed
    BY <1>1, <1>4 DEF OutcomeOf, OutcomeSound, EntrySound, NoOutcome
  <1>5. CASE e.finalized /\ ~e.failed
    <2>1. \A x \in Legs : Succeeded(x) /\ e.fee[x] = leg[x].fee
      BY <1>1, <1>2, <1>5 DEF EntrySound
    <2>2. \E x \in Legs : e.preimage = leg[x].preimage
      BY <1>1, <1>2, <1>5 DEF EntrySound, Legs
    <2> QED
      BY <1>5, <2>1, <2>2 DEF OutcomeOf, OutcomeSound, Legs
  <1> QED
    BY <1>3, <1>4, <1>5

\* Decided legs do not change, so what was sound stays sound.
LEMMA SoundStable ==
  ASSUME TypeOK, NotYetSent, [Next]_vars
  PROVE  /\ \A e \in Entry : EntrySound(e) => EntrySound(e)'
         /\ \A c \in Outcome : OutcomeSound(c) => OutcomeSound(c)'
  <1>1. \A k \in Legs : leg[k].st \in {"succeeded", "failed"} => leg'[k] = leg[k]
    BY LegStable DEF Resolved
  <1>2. \A e \in Entry : EntrySound(e) => EntrySound(e)'
    BY <1>1 DEF EntrySound, Succeeded
  <1>3. \A c \in Outcome : OutcomeSound(c) => OutcomeSound(c)'
    BY <1>1 DEF OutcomeSound, Succeeded, Legs
  <1> QED
    BY <1>2, <1>3

\* Every entry after the step claims only what the legs had done before it.
NewEntriesAreSound ==
  /\ \A k \in Legs : EntrySound(mem'[k]) /\ EntrySound(disk'[k])
  /\ \A u \in Tasks : EntrySound(pend'[u].entry)

\* Whatever a step stores, in memory, on disk or in a pending write, claims only
\* what the legs had already done before the step.
LEMMA NewEntriesSound ==
  ASSUME TypeOK, EventsAreResolved, EntriesAreSound, [Next]_vars
  PROVE  NewEntriesAreSound
  <1> USE DEF TypeOK, EntriesAreSound, NewEntriesAreSound
  <1>1. CASE BeginMppSetup
    <2>1. mem' = mem /\ disk' = disk /\ pend' = pend
      BY <1>1 DEF BeginMppSetup
    <2> QED
      BY <2>1
  <1>2. CASE PayPartial
    <2>1. mem' = mem /\ disk' = disk /\ pend' = pend
      BY <1>2 DEF PayPartial
    <2> QED
      BY <2>1
  <1>3. CASE PayLightning
    <2>1. CASE mem' = mem /\ pend' = pend
      BY <1>3, <2>1 DEF PayLightning
    <2>2. CASE DoSet("payer", "trusted", Blank("payment"))
      BY <1>3, <2>2, BlankSound DEF PayLightning, DoSet, WriteOf
    <2> QED
      BY <1>3, <2>1, <2>2 DEF PayLightning
  <1>4. CASE RegisterSurface
    <2>1. mem' = [mem EXCEPT !["trusted"] = Blank("mpp")] /\ pend' = [pend EXCEPT !["payer"] = WriteOf("trusted", Blank("mpp"))]
          /\ disk' = disk
      BY <1>4 DEF RegisterSurface, DoSet
    <2> QED
      BY <2>1, BlankSound DEF WriteOf
  <1>5. CASE RegisterLightning
    <2>1. mem' = [mem EXCEPT !["lightning"] = Blank("mpp")] /\ pend' = [pend EXCEPT !["payer"] = WriteOf("lightning", Blank("mpp"))]
          /\ disk' = disk
      BY <1>5 DEF RegisterLightning, DoSet
    <2> QED
      BY <2>1, BlankSound DEF WriteOf
  <1>6. CASE FinishMppSetup
    <2>1. mem' = mem /\ disk' = disk /\ pend' = pend
      BY <1>6 DEF FinishMppSetup
    <2> QED
      BY <2>1
  <1>7. CASE ReplayEvent
    <2>1. mem' = mem /\ disk' = disk /\ pend' = pend
      BY <1>7 DEF ReplayEvent
    <2> QED
      BY <2>1
  <1>8. CASE ReplayReturn
    <2>1. mem' = mem /\ disk' = disk /\ pend' = pend
      BY <1>8 DEF ReplayReturn
    <2> QED
      BY <2>1
  <1>9. CASE PayReturns
    <2>1. mem' = mem /\ disk' = disk /\ pend' = pend
      BY <1>9 DEF PayReturns
    <2> QED
      BY <2>1
  <1>10. ASSUME NEW l \in Legs, ResolveLeg(l) PROVE NewEntriesAreSound
    <2>1. mem' = mem /\ disk' = disk /\ pend' = pend
      BY <1>10 DEF ResolveLeg
    <2> QED
      BY <2>1
  <1>11. ASSUME NEW r \in Reporters, StartReport(r) PROVE NewEntriesAreSound
    <2> DEFINE l == LegOf(r)
               e == [mem[l] EXCEPT !.preimage = leg[l].preimage]
    <2>1. CASE ~SetsPreimage(l)
      BY <1>11, <2>1 DEF StartReport
    <2>2. CASE SetsPreimage(l)
      <3>1. l \in Legs /\ mem[l] \in Entry /\ EntrySound(mem[l])
        BY DEF LegOf, Legs
      <3>2. e.fee = mem[l].fee /\ e.failed = mem[l].failed /\ e.preimage = leg[l].preimage
        BY <3>1 DEF Entry
      <3>3. EntrySound(e)
        <4> HIDE DEF e
        <4> QED
          BY <2>2, <3>1, <3>2 DEF EntrySound, SetsPreimage, Succeeded
      <3>4. mem' = [mem EXCEPT ![l] = e] /\ pend' = [pend EXCEPT ![r] = WriteOf(l, e)]
            /\ disk' = disk
        BY <1>11, <2>2 DEF StartReport, DoSet
      <3> HIDE DEF e
      <3> QED
        BY <3>3, <3>4 DEF WriteOf
    <2> QED
      BY <2>1, <2>2
  <1>12. ASSUME NEW r \in Reporters, FinishReport(r) PROVE NewEntriesAreSound
    <2>1. mem' = mem /\ disk' = disk /\ pend' = pend
      BY <1>12 DEF FinishReport
    <2> QED
      BY <2>1
  <1>13. ASSUME NEW t \in Tasks, Flush(t) PROVE NewEntriesAreSound
    <2>1. disk' = [disk EXCEPT ![pend[t].key] = pend[t].entry] /\ mem' = mem
          /\ pend' = [pend EXCEPT ![t] = NoWrite]
      BY <1>13 DEF Flush
    <2>2. EntrySound(NoWrite.entry)
      BY BlankSound DEF NoWrite
    <2> QED
      BY <2>1, <2>2
  <1>14. ASSUME NEW t \in Tasks, RouteEvent(t) PROVE NewEntriesAreSound
    <2>1. mem' = mem /\ disk' = disk /\ pend' = pend
      BY <1>14 DEF RouteEvent
    <2> QED
      BY <2>1
  <1>15. ASSUME NEW t \in Tasks, BufferEvent(t) PROVE NewEntriesAreSound
    <2>1. mem' = mem /\ disk' = disk /\ pend' = pend
      BY <1>15 DEF BufferEvent
    <2> QED
      BY <2>1
  <1>16. ASSUME NEW t \in Tasks, RecordMppLeg(t) PROVE NewEntriesAreSound
    <2> DEFINE l == add[t].leg
               e == Recorded(mem["trusted"], l, leg[l])
    <2>1. CASE ~Recordable(l)
      BY <1>16, <2>1 DEF RecordMppLeg
    <2>2. CASE Recordable(l)
      <3>1. l \in Legs /\ Resolved(l) /\ mem["trusted"] \in Entry /\ EntrySound(mem["trusted"])
        BY <1>16 DEF RecordMppLeg, EventsAreResolved, AddCall, Legs
      <3>2. EntrySound(e)
        BY <3>1, RecordedSound
      <3>3. mem' = [mem EXCEPT !["trusted"] = e]
            /\ pend' = [pend EXCEPT ![t] = WriteOf("trusted", e)] /\ disk' = disk
        BY <1>16, <2>2 DEF RecordMppLeg, DoSet
      <3> HIDE DEF e
      <3> QED
        BY <3>2, <3>3 DEF WriteOf
    <2> QED
      BY <2>1, <2>2
  <1>17. ASSUME NEW t \in Tasks, RecordReturn(t) PROVE NewEntriesAreSound
    <2>1. mem' = mem /\ disk' = disk /\ pend' = pend
      BY <1>17 DEF RecordReturn
    <2> QED
      BY <2>1
  <1>18. ASSUME NEW t \in Tasks, PushEvent(t) PROVE NewEntriesAreSound
    <2>1. mem' = mem /\ disk' = disk /\ pend' = pend
      BY <1>18 DEF PushEvent
    <2> QED
      BY <2>1
  <1>19. CASE CrashRestart
    <2>1. EntrySound(NoWrite.entry)
      BY BlankSound DEF NoWrite
    <2> QED
      BY <1>19, <2>1 DEF CrashRestart
  <1>20. CASE UNCHANGED vars
    BY <1>20 DEF vars
  <1> QED
    BY <1>1, <1>2, <1>3, <1>4, <1>5, <1>6, <1>7, <1>8, <1>9, <1>10,
       <1>11, <1>12, <1>13, <1>14, <1>15, <1>16, <1>17, <1>18, <1>19,
       <1>20
       DEF Next, PayerStep, AddEventStep, Terminated

\* Entries stay sound: kept by every step.
LEMMA EntriesStep ==
  ASSUME TypeOK, NotYetSent, EventsAreResolved, EntriesAreSound, [Next]_vars
  PROVE  EntriesAreSound'
  <1>1. TypeOK'
    BY NextType
  <1>2. /\ \A k \in Legs : mem'[k] \in Entry /\ disk'[k] \in Entry
        /\ \A u \in Tasks : pend'[u].entry \in Entry
    BY <1>1 DEF TypeOK, Write
  <1>3. /\ \A k \in Legs : EntrySound(mem'[k]) /\ EntrySound(disk'[k])
        /\ \A u \in Tasks : EntrySound(pend'[u].entry)
    BY NewEntriesSound DEF NewEntriesAreSound
  <1>4. \A e \in Entry : EntrySound(e) => EntrySound(e)'
    BY SoundStable
  <1> QED
    BY <1>2, <1>3, <1>4 DEF EntriesAreSound

\* Every outcome after the step is true of the legs before it.
NewOutcomesAreSound ==
  /\ \A u \in Tasks : OutcomeSound(add'[u].out)
  /\ \A u \in Tasks : add'[u].pc = "pushCombined" => add'[u].out # NoOutcome
  /\ \A i \in 1..Len(combined') :
        combined'[i] # NoOutcome /\ OutcomeSound(combined'[i])

\* Whatever outcome a step computes or pushes is true of the legs before the step.
LEMMA NewOutcomesSound ==
  ASSUME TypeOK, EventsAreResolved, EntriesAreSound, OutcomesAreSound, CombinedSound, [Next]_vars
  PROVE  NewOutcomesAreSound
  <1> USE DEF TypeOK, OutcomesAreSound, CombinedSound, AddCall, NewOutcomesAreSound
  <1>1. CASE BeginMppSetup
    <2>1. combined' = combined /\ \A u \in Tasks : add'[u].out = add[u].out /\ (add'[u].pc = "pushCombined" => add[u].pc = "pushCombined")
      BY <1>1 DEF BeginMppSetup
    <2> QED
      BY <2>1
  <1>2. CASE PayPartial
    <2>1. combined' = combined /\ \A u \in Tasks : add'[u].out = add[u].out /\ (add'[u].pc = "pushCombined" => add[u].pc = "pushCombined")
      BY <1>2 DEF PayPartial
    <2> QED
      BY <2>1
  <1>3. CASE PayLightning
    <2>1. combined' = combined /\ \A u \in Tasks : add'[u].out = add[u].out /\ (add'[u].pc = "pushCombined" => add[u].pc = "pushCombined")
      BY <1>3 DEF PayLightning
    <2> QED
      BY <2>1
  <1>4. CASE RegisterSurface
    <2>1. combined' = combined /\ \A u \in Tasks : add'[u].out = add[u].out /\ (add'[u].pc = "pushCombined" => add[u].pc = "pushCombined")
      BY <1>4 DEF RegisterSurface
    <2> QED
      BY <2>1
  <1>5. CASE RegisterLightning
    <2>1. combined' = combined /\ \A u \in Tasks : add'[u].out = add[u].out /\ (add'[u].pc = "pushCombined" => add[u].pc = "pushCombined")
      BY <1>5 DEF RegisterLightning
    <2> QED
      BY <2>1
  <1>6. CASE FinishMppSetup
    <2>1. combined' = combined /\ \A u \in Tasks : add'[u].out = add[u].out /\ (add'[u].pc = "pushCombined" => add[u].pc = "pushCombined")
      BY <1>6 DEF FinishMppSetup
    <2> QED
      BY <2>1
  <1>7. CASE ReplayEvent
    <2>1. combined' = combined /\ \A u \in Tasks : add'[u].out = add[u].out /\ (add'[u].pc = "pushCombined" => add[u].pc = "pushCombined")
      BY <1>7 DEF ReplayEvent
    <2> QED
      BY <2>1
  <1>8. CASE ReplayReturn
    <2>1. combined' = combined /\ \A u \in Tasks : add'[u] = add[u] \/ (add'[u].out = NoOutcome /\ add'[u].pc = "idle")
      BY <1>8 DEF ReplayReturn, Idle
    <2>2. OutcomeSound(NoOutcome)
      BY DEF OutcomeSound
    <2> QED
      BY <2>1, <2>2
  <1>9. CASE PayReturns
    <2>1. combined' = combined /\ \A u \in Tasks : add'[u].out = add[u].out /\ (add'[u].pc = "pushCombined" => add[u].pc = "pushCombined")
      BY <1>9 DEF PayReturns
    <2> QED
      BY <2>1
  <1>10. ASSUME NEW l \in Legs, ResolveLeg(l) PROVE NewOutcomesAreSound
    <2>1. combined' = combined /\ \A u \in Tasks : add'[u].out = add[u].out /\ (add'[u].pc = "pushCombined" => add[u].pc = "pushCombined")
      BY <1>10 DEF ResolveLeg
    <2> QED
      BY <2>1
  <1>11. ASSUME NEW r \in Reporters, StartReport(r) PROVE NewOutcomesAreSound
    <2>1. combined' = combined /\ \A u \in Tasks : add'[u].out = add[u].out /\ (add'[u].pc = "pushCombined" => add[u].pc = "pushCombined")
      BY <1>11 DEF StartReport
    <2> QED
      BY <2>1
  <1>12. ASSUME NEW r \in Reporters, FinishReport(r) PROVE NewOutcomesAreSound
    <2>1. combined' = combined /\ \A u \in Tasks : add'[u] = add[u] \/ (add'[u].out = NoOutcome /\ add'[u].pc = "idle")
      BY <1>12 DEF FinishReport, Idle
    <2>2. OutcomeSound(NoOutcome)
      BY DEF OutcomeSound
    <2> QED
      BY <2>1, <2>2
  <1>13. ASSUME NEW t \in Tasks, Flush(t) PROVE NewOutcomesAreSound
    <2>1. combined' = combined /\ \A u \in Tasks : add'[u].out = add[u].out /\ (add'[u].pc = "pushCombined" => add[u].pc = "pushCombined")
      BY <1>13 DEF Flush
    <2> QED
      BY <2>1
  <1>14. ASSUME NEW t \in Tasks, RouteEvent(t) PROVE NewOutcomesAreSound
    <2>1. combined' = combined /\ \A u \in Tasks : add'[u].out = add[u].out /\ (add'[u].pc = "pushCombined" => add[u].pc = "pushCombined")
      BY <1>14 DEF RouteEvent
    <2> QED
      BY <2>1
  <1>15. ASSUME NEW t \in Tasks, BufferEvent(t) PROVE NewOutcomesAreSound
    <2>1. combined' = combined /\ \A u \in Tasks : add'[u].out = add[u].out /\ (add'[u].pc = "pushCombined" => add[u].pc = "pushCombined")
      BY <1>15 DEF BufferEvent
    <2> QED
      BY <2>1
  <1>16. ASSUME NEW t \in Tasks, RecordMppLeg(t) PROVE NewOutcomesAreSound
    <2> DEFINE l == add[t].leg
               e == Recorded(mem["trusted"], l, leg[l])
    <2>1. l \in Legs /\ Resolved(l) /\ mem["trusted"] \in Entry /\ EntrySound(mem["trusted"])
      BY <1>16 DEF RecordMppLeg, EventsAreResolved, EntriesAreSound, Legs
    <2>2. OutcomeSound(OutcomeOf(e))
      BY <2>1, OutcomeOfSound
    <2> HIDE DEF e
    <2>3. combined' = combined /\ \A u \in Tasks :
             /\ add'[u].out = add[u].out \/ add'[u].out = OutcomeOf(e)
             /\ add'[u].pc = "pushCombined" => add[u].pc = "pushCombined" /\ add'[u].out = add[u].out
      <3>1. CASE Recordable(l)
        <4>1. add' = [add EXCEPT ![t].pc = "recorded", ![t].out = OutcomeOf(e)]
          BY <1>16, <3>1 DEF RecordMppLeg, e
        <4> QED
          BY <1>16, <4>1 DEF RecordMppLeg
      <3>2. CASE ~Recordable(l)
        <4>1. add' = [add EXCEPT ![t].pc = "ok"] /\ combined' = combined
          BY <1>16, <3>2 DEF RecordMppLeg
        <4> QED
          BY <4>1
      <3> QED
        BY <3>1, <3>2
    <2> QED
      BY <2>2, <2>3
  <1>17. ASSUME NEW t \in Tasks, RecordReturn(t) PROVE NewOutcomesAreSound
    <2>1. combined' = combined /\ \A u \in Tasks : add'[u].out = add[u].out
             /\ (add'[u].pc = "pushCombined" =>
                   add[u].pc = "pushCombined" \/ add[u].out # NoOutcome)
      BY <1>17 DEF RecordReturn
    <2> QED
      BY <2>1
  <1>18. ASSUME NEW t \in Tasks, PushEvent(t) PROVE NewOutcomesAreSound
    <2>1. \A u \in Tasks : add'[u].out = add[u].out
             /\ (add'[u].pc = "pushCombined" => add[u].pc = "pushCombined")
      <3>1. add' = [add EXCEPT ![t].pc = "ok"] \/ add' = [add EXCEPT ![t].pc = "err"]
        BY <1>18 DEF PushEvent
      <3>2. add \in [Tasks -> AddCall]
        BY DEF TypeOK
      <3> QED
        BY <3>1, <3>2, MoveFacts
    <2>2. CASE add[t].pc = "pushRaw"
      <3>1. combined' = combined
        BY <1>18, <2>2 DEF PushEvent
      <3> QED
        BY <2>1, <3>1
    <2>3. CASE add[t].pc = "pushCombined"
      <3>1. combined' = Append(combined, add[t].out)
        BY <1>18, <2>3 DEF PushEvent
      <3>2. \A i \in 1..Len(combined') :
               combined'[i] = add[t].out \/ (i \in 1..Len(combined) /\ combined'[i] = combined[i])
        BY <3>1
      <3>3. add[t].out # NoOutcome /\ OutcomeSound(add[t].out)
        BY <2>3
      <3> QED
        BY <2>1, <3>2, <3>3
    <2> QED
      BY <1>18, <2>2, <2>3 DEF PushEvent
  <1>19. CASE CrashRestart
    <2>1. combined' = combined /\ \A u \in Tasks : add'[u] = add[u] \/ (add'[u].out = NoOutcome /\ add'[u].pc = "idle")
      BY <1>19 DEF CrashRestart, Idle
    <2>2. OutcomeSound(NoOutcome)
      BY DEF OutcomeSound
    <2> QED
      BY <2>1, <2>2
  <1>20. CASE UNCHANGED vars
    BY <1>20 DEF vars
  <1> QED
    BY <1>1, <1>2, <1>3, <1>4, <1>5, <1>6, <1>7, <1>8, <1>9, <1>10,
       <1>11, <1>12, <1>13, <1>14, <1>15, <1>16, <1>17, <1>18, <1>19,
       <1>20
       DEF Next, PayerStep, AddEventStep, Terminated

\* Outcomes stay true of the legs: kept by every step.
LEMMA OutcomesStep ==
  ASSUME TypeOK, NotYetSent, EventsAreResolved, EntriesAreSound,
         OutcomesAreSound, CombinedSound, [Next]_vars
  PROVE  (OutcomesAreSound /\ CombinedSound)'
  <1>1. TypeOK'
    BY NextType
  <1>2. /\ \A u \in Tasks : add'[u].out \in Outcome
        /\ \A i \in 1..Len(combined') : combined'[i] \in Outcome
    BY <1>1 DEF TypeOK, AddCall
  <1>3. NewOutcomesAreSound
    BY NewOutcomesSound
  <1>4. \A c \in Outcome : OutcomeSound(c) => OutcomeSound(c)'
    BY SoundStable
  <1> QED
    BY <1>2, <1>3, <1>4 DEF OutcomesAreSound, CombinedSound, NewOutcomesAreSound, NoOutcome

-----------------------------------------------------------------------------
(***************************************************************************)
(* The combined event is decided once.                                     *)
(***************************************************************************)

\* A step that touches neither the finalized flags nor the tasks that decide.
HolderFrame ==
  /\ mem'["trusted"].finalized = mem["trusted"].finalized
  /\ disk' = disk /\ combined' = combined /\ staleWrite' = staleWrite
  /\ \A u \in Tasks :
       /\ Holding(u)' => Holding(u)
       /\ add'[u].pc = "pushCombined" => add[u].pc = "pushCombined"
       /\ add'[u].pc = "recorded" => add[u].pc = "recorded" /\ pend'[u] = pend[u]

\* Such a step keeps both parts of the invariant.
LEMMA FrameKeepsHolder ==
  ASSUME OneHolder, FinalizedOnDiskFirst, HolderFrame
  PROVE  OneHolder' /\ FinalizedOnDiskFirst'
  BY DEF OneHolder, FinalizedOnDiskFirst, HolderFrame, Landed

\* At most one task holds the combined event, and disk knows of it before it is
\* pushed: kept by every step.
LEMMA HolderStep ==
  ASSUME TypeOK, PayerAddsInReplay, NotYetRegistered, LockHeldByRecorder, RecordSnapshotIsLatest, OutcomesAreSound, OneHolder, FinalizedOnDiskFirst, [Next]_vars
  PROVE  OneHolder' /\ FinalizedOnDiskFirst'
  <1> USE DEF TypeOK, AddCall
  <1>1. CASE BeginMppSetup
    <2>1. HolderFrame
      BY <1>1 DEF BeginMppSetup, HolderFrame, Holding
    <2> QED
      BY <2>1, FrameKeepsHolder
  <1>2. CASE PayPartial
    <2>1. HolderFrame
      BY <1>2 DEF PayPartial, HolderFrame, Holding
    <2> QED
      BY <2>1, FrameKeepsHolder
  <1>3. CASE PayLightning
    <2>1. CASE mem'["trusted"] = mem["trusted"] /\ pend' = pend
      <3>1. HolderFrame
        BY <1>3, <2>1 DEF PayLightning, HolderFrame, Holding
      <3> QED
        BY <3>1, FrameKeepsHolder
    <2>2. CASE DoSet("payer", "trusted", Blank("payment"))
      <3>1. mem["trusted"].finalized = FALSE
        BY <1>3 DEF PayLightning, NotYetRegistered, Blank
      <3>2. mem'["trusted"].finalized = FALSE
        BY <2>2 DEF DoSet, Blank, Legs
      <3>3. add["payer"].pc = "idle"
        BY <1>3 DEF PayLightning, PayerAddsInReplay
      <3>4. HolderFrame
        BY <1>3, <2>2, <3>1, <3>2, <3>3 DEF PayLightning, DoSet, HolderFrame, Holding
      <3> QED
        BY <3>4, FrameKeepsHolder
    <2> QED
      BY <1>3, <2>1, <2>2 DEF PayLightning
  <1>4. CASE RegisterSurface
    <2>1. CASE mem'["trusted"] = mem["trusted"] /\ pend' = pend
      <3>1. HolderFrame
        BY <1>4, <2>1 DEF RegisterSurface, HolderFrame, Holding
      <3> QED
        BY <3>1, FrameKeepsHolder
    <2>2. CASE DoSet("payer", "trusted", Blank("mpp"))
      <3>1. mem["trusted"].finalized = FALSE
        BY <1>4 DEF RegisterSurface, NotYetRegistered, Blank
      <3>2. mem'["trusted"].finalized = FALSE
        BY <2>2 DEF DoSet, Blank, Legs
      <3>3. add["payer"].pc = "idle"
        BY <1>4 DEF RegisterSurface, PayerAddsInReplay
      <3>4. HolderFrame
        BY <1>4, <2>2, <3>1, <3>2, <3>3 DEF RegisterSurface, DoSet, HolderFrame, Holding
      <3> QED
        BY <3>4, FrameKeepsHolder
    <2> QED
      BY <1>4, <2>1, <2>2 DEF RegisterSurface
  <1>5. CASE RegisterLightning
    <2>1. HolderFrame
      BY <1>5 DEF RegisterLightning, HolderFrame, Holding, DoSet, PayerAddsInReplay
    <2> QED
      BY <2>1, FrameKeepsHolder
  <1>6. CASE FinishMppSetup
    <2>1. HolderFrame
      BY <1>6 DEF FinishMppSetup, HolderFrame, Holding
    <2> QED
      BY <2>1, FrameKeepsHolder
  <1>7. CASE ReplayEvent
    <2>1. HolderFrame
      BY <1>7 DEF ReplayEvent, HolderFrame, Holding
    <2> QED
      BY <2>1, FrameKeepsHolder
  <1>8. CASE ReplayReturn
    <2>1. HolderFrame
      BY <1>8 DEF ReplayReturn, HolderFrame, Holding, Idle
    <2> QED
      BY <2>1, FrameKeepsHolder
  <1>9. CASE PayReturns
    <2>1. HolderFrame
      BY <1>9 DEF PayReturns, HolderFrame, Holding
    <2> QED
      BY <2>1, FrameKeepsHolder
  <1>10. ASSUME NEW l \in Legs, ResolveLeg(l) PROVE OneHolder' /\ FinalizedOnDiskFirst'
    <2>1. HolderFrame
      BY <1>10 DEF ResolveLeg, HolderFrame, Holding
    <2> QED
      BY <2>1, FrameKeepsHolder
  <1>11. ASSUME NEW r \in Reporters, StartReport(r) PROVE OneHolder' /\ FinalizedOnDiskFirst'
    <2>1. mem'["trusted"].finalized = mem["trusted"].finalized
      BY <1>11, SetPreimageFrame DEF Legs, Entry
    <2>2. \A u \in Tasks : u # r => add'[u] = add[u] /\ pend'[u] = pend[u]
      BY <1>11 DEF StartReport, DoSet
    <2>3. add'[r].pc = "route"
      BY <1>11 DEF StartReport, Tasks
    <2>4. disk' = disk /\ combined' = combined /\ staleWrite' = staleWrite
      BY <1>11 DEF StartReport
    <2>5. HolderFrame
      BY <2>1, <2>2, <2>3, <2>4 DEF HolderFrame, Holding
    <2> QED
      BY <2>5, FrameKeepsHolder
  <1>12. ASSUME NEW r \in Reporters, FinishReport(r) PROVE OneHolder' /\ FinalizedOnDiskFirst'
    <2>1. HolderFrame
      BY <1>12 DEF FinishReport, HolderFrame, Holding, Idle
    <2> QED
      BY <2>1, FrameKeepsHolder
  <1>13. ASSUME NEW t \in Tasks, Flush(t) PROVE OneHolder' /\ FinalizedOnDiskFirst'
    <2>1. add' = add /\ mem' = mem /\ combined' = combined
          /\ pend' = [pend EXCEPT ![t] = NoWrite]
          /\ disk' = [disk EXCEPT ![pend[t].key] = pend[t].entry]
      BY <1>13 DEF Flush
    <2>2. OneHolder'
      BY <2>1 DEF OneHolder, Holding
    <2>3. CASE staleWrite'
      BY <2>2, <2>3 DEF FinalizedOnDiskFirst
    <2>4. CASE ~staleWrite'
      <3>1. ~staleWrite /\ mem[pend[t].key] = pend[t].entry
        BY <1>13, <2>4 DEF Flush
      <3>2. CASE pend[t].key = "trusted"
        <4>1. disk'["trusted"] = mem["trusted"]
          BY <2>1, <3>1, <3>2 DEF Legs
        <4> QED
          BY <2>1, <2>2, <3>1, <4>1 DEF FinalizedOnDiskFirst, OneHolder, Holding, OutcomesAreSound
      <3>3. CASE pend[t].key # "trusted"
        <4>1. disk'["trusted"] = disk["trusted"]
          BY <2>1, <3>3
        <4>2. add[t].pc # "recorded"
          BY <1>13, <3>3 DEF RecordSnapshotIsLatest, Flush
        <4>3. \A u \in Tasks : add[u].pc = "recorded" => (Landed(u)' <=> Landed(u))
          BY <2>1, <4>2 DEF Landed
        <4> QED
          BY <2>1, <2>2, <3>1, <4>1, <4>3 DEF FinalizedOnDiskFirst, Holding
      <3> QED
        BY <3>2, <3>3
    <2> QED
      BY <2>3, <2>4
  <1>14. ASSUME NEW t \in Tasks, RouteEvent(t) PROVE OneHolder' /\ FinalizedOnDiskFirst'
    <2>1. HolderFrame
      BY <1>14 DEF RouteEvent, HolderFrame, Holding
    <2> QED
      BY <2>1, FrameKeepsHolder
  <1>15. ASSUME NEW t \in Tasks, BufferEvent(t) PROVE OneHolder' /\ FinalizedOnDiskFirst'
    <2>1. HolderFrame
      BY <1>15 DEF BufferEvent, HolderFrame, Holding
    <2> QED
      BY <2>1, FrameKeepsHolder
  <1>16. ASSUME NEW t \in Tasks, RecordMppLeg(t) PROVE OneHolder' /\ FinalizedOnDiskFirst'
    <2> DEFINE l == add[t].leg
               e == Recorded(mem["trusted"], l, leg[l])
    <2>1. CASE ~Recordable(l)
      <3>1. mem' = mem /\ pend' = pend /\ disk' = disk /\ combined' = combined
            /\ staleWrite' = staleWrite /\ add' = [add EXCEPT ![t].pc = "ok"]
        BY <1>16, <2>1 DEF RecordMppLeg
      <3>2. HolderFrame
        BY <3>1 DEF HolderFrame, Holding
      <3> QED
        BY <3>2, FrameKeepsHolder
    <2>2. CASE Recordable(l)
      <3>1. /\ mem'["trusted"] = e /\ pend'[t] = WriteOf("trusted", e)
            /\ disk' = disk /\ combined' = combined /\ staleWrite' = staleWrite
            /\ add' = [add EXCEPT ![t].pc = "recorded", ![t].out = OutcomeOf(e)]
            /\ lock = Free /\ ~mem["trusted"].finalized
        BY <1>16, <2>2 DEF RecordMppLeg, DoSet, Recordable, Legs
      <3>2. OutcomeOf(e) # NoOutcome => e.finalized
        BY DEF OutcomeOf
      <3> HIDE DEF e
      <3>3. \A u \in Tasks : ~Holding(u) /\ add[u].pc # "recorded"
        BY <3>1 DEF OneHolder, LockHeldByRecorder, Free, Tasks, Reporters
      <3>4. \A u \in Tasks : u # t => add'[u] = add[u]
        BY <3>1
      <3>5. add'[t].pc = "recorded" /\ add'[t].out = OutcomeOf(e)
        BY <3>1
      <3>6. \A u \in Tasks : Holding(u)' => u = t /\ e.finalized
        BY <3>2, <3>3, <3>4, <3>5 DEF Holding
      <3>7. \A u \in Tasks : add'[u].pc # "pushCombined"
        BY <3>3, <3>4, <3>5 DEF Holding, OutcomesAreSound
      <3>8. \A u \in Tasks : add'[u].pc = "recorded" => u = t
        BY <3>3, <3>4
      <3>9. ~Landed(t)'
        BY <3>1 DEF Landed, NoWrite, WriteOf
      <3>10. OneHolder'
        BY <3>1, <3>6 DEF OneHolder
      <3>11. FinalizedOnDiskFirst'
        BY <3>1, <3>7, <3>8, <3>9 DEF FinalizedOnDiskFirst
      <3> QED
        BY <3>10, <3>11
    <2> QED
      BY <2>1, <2>2
  <1>17. ASSUME NEW t \in Tasks, RecordReturn(t) PROVE OneHolder' /\ FinalizedOnDiskFirst'
    <2>1. mem' = mem /\ pend' = pend /\ disk' = disk /\ combined' = combined
          /\ staleWrite' = staleWrite /\ Landed(t) /\ add[t].pc = "recorded"
      BY <1>17 DEF RecordReturn
    <2>2. \A u \in Tasks : /\ add'[u].out = add[u].out /\ (u # t => add'[u] = add[u])
                           /\ add'[t].pc = IF add[t].out = NoOutcome THEN "ok" ELSE "pushCombined"
      BY <1>17 DEF RecordReturn
    <2>3. \A u \in Tasks : Holding(u)' => Holding(u)
      BY <2>1, <2>2 DEF Holding
    <2>4. Holding(t) /\ ~staleWrite => disk["trusted"].finalized
      BY <2>1 DEF OneHolder, FinalizedOnDiskFirst
    <2>5. \A u \in Tasks : add'[u].pc = "pushCombined" => add[u].pc = "pushCombined" \/ (u = t /\ Holding(t))
      BY <2>1, <2>2 DEF Holding
    <2>6. \A u \in Tasks : add'[u].pc = "recorded" => add[u].pc = "recorded"
      BY <2>2
    <2>7. OneHolder'
      BY <2>1, <2>3 DEF OneHolder
    <2>8. FinalizedOnDiskFirst'
      BY <2>1, <2>3, <2>4, <2>5, <2>6 DEF FinalizedOnDiskFirst, Landed
    <2> QED
      BY <2>7, <2>8
  <1>18. ASSUME NEW t \in Tasks, PushEvent(t) PROVE OneHolder' /\ FinalizedOnDiskFirst'
    <2>1. mem' = mem /\ pend' = pend /\ disk' = disk /\ staleWrite' = staleWrite
      BY <1>18 DEF PushEvent
    <2>2. \A u \in Tasks : (u # t => add'[u] = add[u]) /\ add'[t].pc \in {"ok", "err"}
      BY <1>18 DEF PushEvent
    <2>3. CASE add[t].pc = "pushRaw"
      <3>1. combined' = combined
        BY <1>18, <2>3 DEF PushEvent
      <3>2. HolderFrame
        BY <2>1, <2>2, <3>1 DEF HolderFrame, Holding
      <3> QED
        BY <3>2, FrameKeepsHolder
    <2>4. CASE add[t].pc = "pushCombined"
      <3>1. combined' = Append(combined, add[t].out)
        BY <1>18, <2>4 DEF PushEvent
      <3>2. Holding(t)
        BY <2>4 DEF Holding, OutcomesAreSound
      <3>3. \A u \in Tasks : ~Holding(u)'
        <4>1. ~Holding(t)'
          BY <2>2 DEF Holding
        <4>2. \A u \in Tasks : u # t => (Holding(u)' <=> Holding(u))
          BY <2>2 DEF Holding
        <4> QED
          BY <3>2, <4>1, <4>2 DEF OneHolder
      <3>4. \A u \in Tasks : (add'[u].pc = "pushCombined" => add[u].pc = "pushCombined")
                             /\ (add'[u].pc = "recorded" => add[u].pc = "recorded")
        BY <2>2
      <3>5. ~staleWrite => Len(combined') <= 1
        BY <3>1, <3>2 DEF FinalizedOnDiskFirst
      <3>6. ~staleWrite => mem["trusted"].finalized /\ disk["trusted"].finalized
        BY <2>4, <3>2 DEF FinalizedOnDiskFirst, OneHolder
      <3>7. OneHolder'
        BY <3>3 DEF OneHolder
      <3>8. FinalizedOnDiskFirst'
        BY <2>1, <3>3, <3>4, <3>5, <3>6 DEF FinalizedOnDiskFirst, Landed
      <3> QED
        BY <3>7, <3>8
    <2> QED
      BY <1>18, <2>3, <2>4 DEF PushEvent
  <1>19. CASE CrashRestart
    <2>1. \A u \in Tasks : add'[u].pc = "idle"
      BY <1>19 DEF CrashRestart, Idle
    <2>2. mem' = disk /\ disk' = disk /\ combined' = combined /\ staleWrite' = staleWrite
      BY <1>19 DEF CrashRestart
    <2> QED
      BY <2>1, <2>2 DEF OneHolder, FinalizedOnDiskFirst, Holding
  <1>20. CASE UNCHANGED vars
    BY <1>20 DEF vars, OneHolder, FinalizedOnDiskFirst, Holding, Landed
  <1> QED
    BY <1>1, <1>2, <1>3, <1>4, <1>5, <1>6, <1>7, <1>8, <1>9, <1>10,
       <1>11, <1>12, <1>13, <1>14, <1>15, <1>16, <1>17, <1>18, <1>19,
       <1>20
       DEF Next, PayerStep, AddEventStep, Terminated

-----------------------------------------------------------------------------
\* The inductive invariant holds in every reachable state.
THEOREM MppInvariant == Spec => []MppInv
  <1>1. Init => MppInv
    <2> SUFFICES ASSUME Init PROVE MppInv
      OBVIOUS
    <2>1. TypeOK
      BY InitType
    <2>2. NotYetSent /\ EventsAreResolved
      BY DEF Init, NotYetSent, EventsAreResolved, Unresolved, Idle, LegOf, Legs, Tasks, Reporters
    <2>3. EntriesAreSound
      BY BlankSound DEF Init, EntriesAreSound, NoWrite
    <2>4. OutcomesAreSound /\ CombinedSound
      BY DEF Init, OutcomesAreSound, CombinedSound, OutcomeSound, Idle
    <2>5. PayerAddsInReplay /\ NotYetRegistered
      BY DEF Init, PayerAddsInReplay, NotYetRegistered, Idle, Tasks, Legs
    <2>6. LockHeldByRecorder /\ RecordSnapshotIsLatest
      BY DEF Init, LockHeldByRecorder, RecordSnapshotIsLatest, Idle, Tasks, Reporters, Free
    <2>7. OneHolder
      BY DEF Init, OneHolder, Holding, Idle
    <2>8. FinalizedOnDiskFirst
      BY DEF Init, FinalizedOnDiskFirst, Holding, Idle, Blank, Legs
    <2> QED
      BY <2>1, <2>2, <2>3, <2>4, <2>5, <2>6, <2>7, <2>8 DEF MppInv
  <1>2. MppInv /\ [Next]_vars => MppInv'
    <2> SUFFICES ASSUME MppInv, [Next]_vars PROVE MppInv'
      OBVIOUS
    <2> USE DEF MppInv
    <2>1. TypeOK'
      BY NextType
    <2>2. NotYetSent' /\ EventsAreResolved'
      BY SentStep, ResolvedStep
    <2>3. EntriesAreSound'
      BY EntriesStep
    <2>4. (OutcomesAreSound /\ CombinedSound)'
      BY OutcomesStep
    <2>5. PayerAddsInReplay' /\ NotYetRegistered'
      BY PayerStepKept, RegisteredStep
    <2>6. (LockHeldByRecorder /\ RecordSnapshotIsLatest)'
      BY LockStep
    <2>7. OneHolder' /\ FinalizedOnDiskFirst'
      BY HolderStep
    <2> QED
      BY <2>1, <2>2, <2>3, <2>4, <2>5, <2>6, <2>7
  <1> QED
    BY <1>1, <1>2, PTL DEF Spec

\* The events surfaced by record_mpp_leg are true: a combined success means
\* both legs settled, with the fees they paid; a combined failure that one
\* failed.  For any number of crashes, redeliveries and failing writes.
THEOREM CombinedIsSound == Spec => []CombinedSound
  BY MppInvariant, PTL DEF MppInv

\* However often the process restarts and LDK redelivers, a second combined
\* event needs a KV write that was overtaken by a newer one.
THEOREM CombinedAtMostOnce == Spec => []AtMostOneUnlessStale
  <1>1. MppInv => AtMostOneUnlessStale
    BY DEF MppInv, FinalizedOnDiskFirst, AtMostOneUnlessStale
  <1> QED
    BY <1>1, MppInvariant, PTL

\* The finalized flag is on disk before the combined event can be seen.
THEOREM FinalizedBeforeSurfaced == Spec => []FinalizedIsDurable
  <1>1. MppInv => FinalizedIsDurable
    BY DEF MppInv, FinalizedOnDiskFirst, FinalizedIsDurable
  <1> QED
    BY <1>1, MppInvariant, PTL

\* mpp_record_lock does what its comment says: the snapshot record_mpp_leg
\* writes always reflects the latest in-memory mutation.
THEOREM RecordedSnapshots == Spec => []RecordSnapshotIsLatest
  BY MppInvariant, PTL DEF MppInv
=============================================================================
