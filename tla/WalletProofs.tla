----------------------------- MODULE WalletProofs -----------------------------
(***************************************************************************)
(* What TLAPS proves of `Wallet::pay` and `list_transactions` (WalletPay), *)
(* for any calls, instructions and amounts.                                *)
(***************************************************************************)
EXTENDS WalletPay, WellFoundedInduction, TLAPS

(***************************************************************************)
(* Wallet::pay.  The types.                                                *)
(***************************************************************************)

Types == {"bolt11", "bolt12", "onchain"}
Ids == ({"trusted"} \X Nat) \cup ({"self"} \X SentIds)
PCs == {"idle", "try", "estimated", "insert", "splice", "upsert", "leg", "surface", "legs",
        "ok", "err", "dropped"}
Balances == [trusted : Nat, lightning : Nat, onchain : Nat]

QuoteRec == [req : Reqs, ty : Types, amt : 1..Amount]
MeltRec == [q : Nat, st : {"started", "pending", "paid", "failed", "forgotten"}, told : BOOLEAN]
SentRec == [req : Reqs, ty : Types \cup {"splice"}, amt : Nat, st : {"pending", "completed", "failed"},
            told : BOOLEAN]
Entry == [ty : {"payment"}, preimage : BOOLEAN] \cup [ty : {"mpp"}, surface : Ids] \cup [ty : {"pending"}]

\* A call's place, at the end or at a method of a pass.
Places == {End} \cup ((1..5) \X Nat)

CallRec == [pc : PCs,
            methods : Instructions \cup {<<>>},
            at : Places,
            saw : Balances \cup {None},
            id : Ids \cup {None},
            leg : Ids \cup {None}]

\* The wallets' payments, and what is recorded of them.
WalletTypes ==
    /\ quotes \in Seq(QuoteRec)
    /\ melts \in Seq(MeltRec)
    /\ \A i \in DOMAIN melts : melts[i].q \in DOMAIN quotes
    /\ sent \in [DOMAIN sent -> SentRec] /\ DOMAIN sent \subseteq SentIds
    /\ mem \in [DOMAIN mem -> Entry] /\ DOMAIN mem \subseteq Ids
    /\ \A k \in DOMAIN mem : mem[k].ty = "pending" => k[1] = "self"

\* The balances, and the request whose payment changes them.
FundsTypes ==
    /\ funds \in Balances
    /\ uri # None => uri.amt \in Nat /\ uri.from \in {"trusted", "lightning"}

\* A call that tries something is at a method that the pass is for.
Placed(c) ==
    /\ call[c].at \in (1..5) \X DOMAIN call[c].methods
    /\ call[c].methods[call[c].at[2]][1] \in Passes[call[c].at[1]].tys

CallTypes ==
    /\ call \in [Calls -> CallRec]
    /\ \A c \in Calls :
          /\ call[c].pc # "idle" => call[c].methods \in Instructions /\ call[c].saw \in Balances
          /\ call[c].at # End => Placed(c)
          /\ call[c].pc \in {"estimated", "leg"} => call[c].at # End
          /\ call[c].pc = "leg" => /\ Passes[call[c].at[1]].via = "mpp"
                                   /\ call[c].saw.trusted < Amount

PayTypes == WalletTypes /\ FundsTypes /\ CallTypes

(***************************************************************************)
(* The inductive invariants.                                               *)
(***************************************************************************)

\* What a call has started: a payment of the trusted wallet, one of the
\* lightning wallet, or both legs of a split.
StartedInv ==
    \A c \in Calls :
        LET me == call[c] IN
        /\ me.pc \in {"insert", "leg", "surface", "legs"} =>
              \E q \in DOMAIN quotes : me.id = Trusted(q)
        /\ me.pc = "ok" => \/ \E q \in DOMAIN quotes : me.id = Trusted(q)
                           \/ \E x \in SentIds : me.id = SelfCustodial(x) /\ me.leg = None
        /\ me.pc \in {"splice", "upsert"} => \E x \in SentIds : me.id = SelfCustodial(x)
        /\ me.pc = "splice" => me.id = SelfCustodial(ByCall(c))
        /\ me.pc \in {"surface", "legs"} => me.leg # None
        /\ me.pc \notin {"surface", "legs", "ok", "dropped"} => me.leg = None
        /\ me.leg # None => \E r \in Reqs : me.leg = SelfCustodial(ByHash(r))

\* Splice outs have the ids of calls.
SpliceInv == splices \subseteq {SelfCustodial(ByCall(c)) : c \in Calls}

\* Once the first leg of a split is recorded, its entry stays a split's, unless
\* the id is inserted again.
SplitCalls ==
    \A c \in Calls : call[c].pc = "legs" =>
        call[c].id \in reinserted \/ TypeIn(mem, call[c].id) = "mpp"

\* The entries of a split name its quote's id: the trusted leg's own, which is
\* there before the lightning leg's.
SplitEntries ==
    \A k \in DOMAIN mem : mem[k].ty = "mpp" =>
        \E q \in DOMAIN quotes :
            /\ mem[k].surface = Trusted(q)
            /\ k[1] = "trusted" => k = Trusted(q)
            /\ k[1] = "self" => Trusted(q) \in reinserted \/ TypeIn(mem, Trusted(q)) = "mpp"

SplitInv == SplitCalls /\ SplitEntries

\* A payment that pay has returned is recorded, and the leg of a split as one.
ReturnedInv ==
    \A c \in Calls :
        /\ call[c].pc \in {"legs", "ok"} => call[c].id \in DOMAIN mem
        /\ call[c].pc = "ok" /\ Alone(c) =>
              /\ call[c].id[1] = "self" => mem[call[c].id].ty = "payment"
              /\ call[c].leg # None => TypeIn(mem, call[c].leg) = "mpp"


(***************************************************************************)
(* Lemmas about ids, maps, sequences and the maximum of a set.             *)
(***************************************************************************)

\* The ids of payments tell the wallet and the payment.
LEMMA IdsApart ==
    /\ \A p, q : Trusted(p) = Trusted(q) => p = q
    /\ \A x, y : SelfCustodial(x) = SelfCustodial(y) => x = y
    /\ \A q, x : Trusted(q) # SelfCustodial(x)
    /\ \A q : Trusted(q)[1] = "trusted" /\ Trusted(q)[2] = q
    /\ \A x : SelfCustodial(x)[1] = "self" /\ SelfCustodial(x)[2] = x
    /\ \A c, d : ByCall(c) = ByCall(d) => c = d
    /\ \A r, c : ByHash(r) # ByCall(c)
  BY DEF Trusted, SelfCustodial, ByCall, ByHash

\* The ids there are.
LEMMA IdsAre ==
    /\ \A q \in Nat : Trusted(q) \in Ids
    /\ \A x \in SentIds : SelfCustodial(x) \in Ids
    /\ \A id \in Ids : \/ \E q \in Nat : id = Trusted(q)
                       \/ \E x \in SentIds : id = SelfCustodial(x)
    /\ None \notin Ids
  <1>1. ASSUME NEW id \in Ids
        PROVE  \/ \E q \in Nat : id = Trusted(q)
               \/ \E x \in SentIds : id = SelfCustodial(x)
    BY DEF Ids, Trusted, SelfCustodial
  <1>2. None \notin Ids
    BY PayAssumption DEF Ids
  <1>3. /\ \A q \in Nat : Trusted(q) \in Ids
        /\ \A x \in SentIds : SelfCustodial(x) \in Ids
    BY DEF Ids, Trusted, SelfCustodial
  <1> QED
    BY <1>1, <1>2, <1>3

\* A sequence that grows by an element.
LEMMA AppendAdds ==
    ASSUME NEW S, NEW s \in Seq(S), NEW e \in S
    PROVE  /\ Append(s, e) \in Seq(S) /\ Len(Append(s, e)) = Len(s) + 1 /\ Len(s) + 1 \in Nat
           /\ Len(s) + 1 \notin DOMAIN s /\ DOMAIN Append(s, e) = DOMAIN s \cup {Len(s) + 1}
           /\ Append(s, e)[Len(s) + 1] = e
           /\ \A i \in DOMAIN s : Append(s, e)[i] = s[i]
  OBVIOUS

\* A map with an entry has the types of its parts.
LEMMA WithType ==
    ASSUME NEW S, NEW f, f \in [DOMAIN f -> S], NEW k, NEW v \in S
    PROVE  With(f, k, v) \in [DOMAIN With(f, k, v) -> S]
  BY DEF With

\* A set of numbers up to a bound has a greatest one.
LEMMA MaxIn ==
    ASSUME NEW n \in Nat, NEW D \in SUBSET (0..n), D # {}
    PROVE  Max(D) \in D
  <1> DEFINE T == {n - x : x \in D}
  <1>1. T \subseteq Nat /\ T # {}
    <2>1. \A x \in D : n - x \in Nat
      OBVIOUS
    <2>2. PICK x \in D : TRUE
      OBVIOUS
    <2>3. n - x \in T
      OBVIOUS
    <2> QED
      BY <2>1, <2>3
  <1>2. PICK m \in T : \A y \in T : ~(<<y, m>> \in OpToRel(<, Nat))
    <2> HIDE DEF T
    <2> QED
      BY <1>1, WFMin, NatLessThanWellFounded
  <1>3. \A y \in T : m <= y
    <2> SUFFICES ASSUME NEW y \in T, y < m PROVE FALSE
      BY <1>1
    <2>1. <<y, m>> \in OpToRel(<, Nat)
      BY <1>1 DEF OpToRel
    <2> QED
      BY <1>2, <2>1
  <1>4. \E x \in D : \A y \in D : x >= y
    BY <1>3
  <1> QED
    BY <1>4 DEF Max

(***************************************************************************)
(* What each step does to the call that takes it.                          *)
(***************************************************************************)

\* Call c alone moves, for the same request.
Moves(c, p) ==
    /\ call' \in [Calls -> CallRec]
    /\ \A e \in Calls \ {c} : call'[e] = call[e]
    /\ call'[c].pc = p
    /\ call'[c].methods = call[c].methods /\ call'[c].saw = call[c].saw

\* A call that is replaced as a whole.
LEMMA CallPut ==
    ASSUME call \in [Calls -> CallRec], NEW c \in Calls, NEW d \in CallRec,
           call' = [call EXCEPT ![c] = d]
    PROVE  /\ call' \in [Calls -> CallRec] /\ call'[c] = d
           /\ \A e \in Calls \ {c} : call'[e] = call[e]
  OBVIOUS

\* A call that goes on keeps its place and what it has started.
LEMMA StepCall ==
    ASSUME CallTypes, NEW c \in Calls, NEW p \in PCs, Step(c, p)
    PROVE  /\ Moves(c, p) /\ call'[c].at = call[c].at
           /\ call'[c].id = call[c].id /\ call'[c].leg = call[c].leg
  <1>0. call \in [Calls -> CallRec]
    BY DEF CallTypes
  <1>1. PICK d : d = [call[c] EXCEPT !.pc = p]
    OBVIOUS
  <1>2. d \in CallRec
    BY <1>0, <1>1 DEF CallRec
  <1>3. call' = [call EXCEPT ![c] = d]
    BY <1>0, <1>1 DEF Step
  <1>4. /\ call' \in [Calls -> CallRec] /\ call'[c] = d
        /\ \A e \in Calls \ {c} : call'[e] = call[e]
    BY <1>0, <1>2, <1>3, CallPut
  <1> QED
    BY <1>0, <1>1, <1>4 DEF Moves, CallRec

\* A call that has started a payment notes its id.
LEMMA StartedCall ==
    ASSUME CallTypes, NEW c \in Calls, NEW p \in PCs, NEW id \in Ids, Started(c, p, id)
    PROVE  /\ Moves(c, p) /\ call'[c].at = call[c].at
           /\ call'[c].id = id /\ call'[c].leg = call[c].leg
  <1>0. call \in [Calls -> CallRec]
    BY DEF CallTypes
  <1>1. PICK d : d = [call[c] EXCEPT !.pc = p, !.id = id]
    OBVIOUS
  <1>2. d \in CallRec
    BY <1>0, <1>1 DEF CallRec
  <1>3. call' = [call EXCEPT ![c] = d]
    BY <1>0, <1>1 DEF Started
  <1>4. /\ call' \in [Calls -> CallRec] /\ call'[c] = d
        /\ \A e \in Calls \ {c} : call'[e] = call[e]
    BY <1>0, <1>2, <1>3, CallPut
  <1> QED
    BY <1>0, <1>1, <1>4 DEF Moves, CallRec

\* A call that has started the lightning leg of a split notes its id.
LEMMA LegCall ==
    ASSUME CallTypes, NEW c \in Calls, NEW id \in Ids,
           call' = [call EXCEPT ![c].pc = "surface", ![c].leg = id]
    PROVE  /\ Moves(c, "surface") /\ call'[c].at = call[c].at
           /\ call'[c].id = call[c].id /\ call'[c].leg = id
  <1>0. call \in [Calls -> CallRec]
    BY DEF CallTypes
  <1>1. PICK d : d = [call[c] EXCEPT !.pc = "surface", !.leg = id]
    OBVIOUS
  <1>2. d \in CallRec
    <2>1. "surface" \in PCs
      BY DEF PCs
    <2> QED
      BY <1>0, <1>1, <2>1 DEF CallRec
  <1>3. call' = [call EXCEPT ![c] = d]
    BY <1>0, <1>1
  <1>4. /\ call' \in [Calls -> CallRec] /\ call'[c] = d
        /\ \A e \in Calls \ {c} : call'[e] = call[e]
    BY <1>0, <1>2, <1>3, CallPut
  <1> QED
    BY <1>0, <1>1, <1>4 DEF Moves, CallRec

\* Where a call goes on is the end or a method of the pass it comes to.
LEMMA NextTryIs ==
    ASSUME NEW methods \in Instructions \cup {<<>>}, NEW at, NEW a \in NextTry(methods, at)
    PROVE  /\ a \in Places
           /\ a # End => /\ a \in (1..5) \X DOMAIN methods
                         /\ methods[a[2]][1] \in Passes[a[1]].tys
  <1>1. DOMAIN methods \subseteq Nat
    <2>1. CASE methods \in Instructions
      <3>1. methods \in Seq({"bolt11", "bolt12", "onchain"} \X Reqs)
        BY <2>1, PayAssumption
      <3> QED
        BY <3>1
    <2>2. CASE methods = <<>>
      BY <2>2
    <2> QED
      BY <2>1, <2>2
  <1>2. a = End \/ a \in Tries(methods)
    BY DEF NextTry
  <1> QED
    BY <1>1, <1>2 DEF Tries, Places

\* A call that leaves a try goes to a method that the next pass is for.
LEMMA SkipCall ==
    ASSUME CallTypes, NEW c \in Calls, Skip(c)
    PROVE  /\ Moves(c, "try") /\ call'[c].id = call[c].id /\ call'[c].leg = call[c].leg
           /\ call'[c].at # End =>
                 /\ call'[c].at \in (1..5) \X DOMAIN call[c].methods
                 /\ call[c].methods[call'[c].at[2]][1] \in Passes[call'[c].at[1]].tys
  <1>0. call \in [Calls -> CallRec] /\ call[c].methods \in Instructions \cup {<<>>}
    BY DEF CallTypes, CallRec
  <1>a. PICK a \in NextTry(call[c].methods, call[c].at) :
           call' = [call EXCEPT ![c].pc = "try", ![c].at = a]
    BY DEF Skip
  <1>b. /\ a \in Places
        /\ a # End => /\ a \in (1..5) \X DOMAIN call[c].methods
                      /\ call[c].methods[a[2]][1] \in Passes[a[1]].tys
    BY <1>0, NextTryIs
  <1>1. PICK d : d = [call[c] EXCEPT !.pc = "try", !.at = a]
    OBVIOUS
  <1>2. d \in CallRec
    <2>1. "try" \in PCs
      BY DEF PCs
    <2> QED
      BY <1>0, <1>1, <1>b, <2>1 DEF CallRec
  <1>3. call' = [call EXCEPT ![c] = d]
    BY <1>0, <1>1, <1>a
  <1>4. /\ call' \in [Calls -> CallRec] /\ call'[c] = d
        /\ \A e \in Calls \ {c} : call'[e] = call[e]
    BY <1>0, <1>2, <1>3, CallPut
  <1>5. d.pc = "try" /\ d.at = a /\ d.methods = call[c].methods /\ d.saw = call[c].saw
        /\ d.id = call[c].id /\ d.leg = call[c].leg
    BY <1>0, <1>1 DEF CallRec
  <1> QED
    BY <1>0, <1>b, <1>4, <1>5 DEF Moves

\* A call begins with methods and balances that exist.
LEMMA StartCall ==
    ASSUME CallTypes, FundsTypes, NEW c \in Calls, StartPay(c)
    PROVE  /\ call' \in [Calls -> CallRec] /\ \A e \in Calls \ {c} : call'[e] = call[e]
           /\ call'[c].pc = "try" /\ call'[c].leg = None
           /\ call'[c].methods \in Instructions /\ call'[c].saw \in Balances
           /\ call'[c].at # End =>
                 /\ call'[c].at \in (1..5) \X DOMAIN call'[c].methods
                 /\ call'[c].methods[call'[c].at[2]][1] \in Passes[call'[c].at[1]].tys
  <1>0. call \in [Calls -> CallRec] /\ funds \in Balances
    BY DEF CallTypes, FundsTypes
  <1>a. PICK m \in Instructions : \E a \in NextTry(m, End) :
           call' = [call EXCEPT ![c] = [pc |-> "try", methods |-> m, at |-> a, saw |-> funds,
                                        id |-> None, leg |-> None]]
    BY DEF StartPay
  <1>c. PICK a \in NextTry(m, End) :
           call' = [call EXCEPT ![c] = [pc |-> "try", methods |-> m, at |-> a, saw |-> funds,
                                        id |-> None, leg |-> None]]
    BY <1>a
  <1>b. /\ a \in Places
        /\ a # End => /\ a \in (1..5) \X DOMAIN m
                      /\ m[a[2]][1] \in Passes[a[1]].tys
    BY NextTryIs
  <1>1. PICK d : d = [pc |-> "try", methods |-> m, at |-> a, saw |-> funds, id |-> None, leg |-> None]
    OBVIOUS
  <1>2. d \in CallRec
    <2>1. "try" \in PCs
      BY DEF PCs
    <2> QED
      BY <1>0, <1>1, <1>b, <2>1 DEF CallRec
  <1>3. call' = [call EXCEPT ![c] = d]
    BY <1>1, <1>c
  <1>4. /\ call' \in [Calls -> CallRec] /\ call'[c] = d
        /\ \A e \in Calls \ {c} : call'[e] = call[e]
    BY <1>0, <1>2, <1>3, CallPut
  <1>5. d.pc = "try" /\ d.at = a /\ d.methods = m /\ d.saw = funds /\ d.leg = None
    BY <1>1
  <1> QED
    BY <1>0, <1>b, <1>4, <1>5


(***************************************************************************)
(* The steps, each as what it does to the calls and to the payments.       *)
(***************************************************************************)

\* A quote is added, and a melt of a quote is started.
Quoted(q, r) ==
    /\ q \in Nat /\ q \notin DOMAIN quotes /\ r \in QuoteRec
    /\ quotes' \in Seq(QuoteRec) /\ DOMAIN quotes' = DOMAIN quotes \cup {q}
    /\ quotes'[q] = r /\ \A p \in DOMAIN quotes : quotes'[p] = quotes[p]

Melted(q) ==
    \E i \in Nat : /\ i \notin DOMAIN melts /\ melts' \in Seq(MeltRec)
                   /\ DOMAIN melts' = DOMAIN melts \cup {i}
                   /\ melts'[i].q = q /\ melts'[i].st = "started" /\ ~melts'[i].told
                   /\ \A j \in DOMAIN melts : melts'[j] = melts[j]

\* A call starts, goes on to another try, returns an error or is dropped.
Quieted(c) ==
    /\ call' \in [Calls -> CallRec] /\ \A e \in Calls \ {c} : call'[e] = call[e]
    /\ \/ /\ call'[c].pc = "dropped" /\ call[c].pc # "idle" /\ call'[c].leg = call[c].leg
       \/ /\ call'[c].pc \in {"try", "estimated", "err"}
          /\ call[c].pc \in {"idle", "try", "estimated"} /\ call'[c].leg \in {call[c].leg, None}
    /\ quotes' = quotes \/ \E q, r : Quoted(q, r)
    /\ UNCHANGED <<melts, sent, splices, mem, reinserted>>

\* The trusted wallet pays by a quote it has, or by a new one.
Reused(c, q) ==
    /\ call[c].pc = "estimated" /\ Moves(c, "insert")
    /\ call'[c].id = Trusted(q) /\ call'[c].leg = call[c].leg
    /\ q \in Active /\ quotes[q].req \in ReqsOf(c) /\ Melted(q)
    /\ UNCHANGED <<quotes, sent, splices, mem, reinserted>>

Begun(c, p, q, r) ==
    /\ call[c].pc \in {"try", "estimated"} /\ Moves(c, p)
    /\ call'[c].id = Trusted(q) /\ call'[c].leg = call[c].leg
    /\ Quoted(q, r) /\ r.req \in ReqsOf(c) /\ Melted(q)
    /\ \/ p = "insert" /\ r.amt = Amount
       \/ p = "leg" /\ r.amt = call[c].saw.trusted /\ r.amt < Amount
    /\ UNCHANGED <<sent, splices, mem, reinserted>>

\* The lightning wallet sends.
SentAs(x, amt) ==
    /\ sent' \in [DOMAIN sent' -> SentRec] /\ DOMAIN sent' = DOMAIN sent \cup {x}
    /\ sent'[x].amt = amt /\ sent'[x].st = "pending" /\ ~sent'[x].told
    /\ \A y \in DOMAIN sent : y # x => sent'[y] = sent[y]
    /\ UNCHANGED <<quotes, melts, splices, mem, reinserted>>

SentWhole(c, x) ==
    /\ call[c].pc = "try" /\ Moves(c, "upsert")
    /\ call'[c].id = SelfCustodial(x) /\ call'[c].leg = call[c].leg
    /\ x = ByCall(c) \/ \E r \in Reqs : x = ByHash(r)
    /\ SentAs(x, Amount)

SentLeg(c, r) ==
    /\ call[c].pc = "leg" /\ Moves(c, "surface")
    /\ call'[c].id = call[c].id /\ call'[c].leg = SelfCustodial(ByHash(r))
    /\ SentAs(ByHash(r), Amount - call[c].saw.trusted)

\* A splice is begun, and written.
Spliced(c) ==
    /\ call[c].pc = "try" /\ Moves(c, "splice")
    /\ call'[c].id = SelfCustodial(ByCall(c)) /\ call'[c].leg = call[c].leg
    /\ SentAs(ByCall(c), Amount)

SpliceWritten(c) ==
    /\ call[c].pc = "splice" /\ Moves(c, "upsert")
    /\ call'[c].id = call[c].id /\ call'[c].leg = call[c].leg
    /\ splices' = splices \cup {call[c].id}
    /\ UNCHANGED <<quotes, melts, sent, mem, reinserted>>

\* Metadata is written.
Recorded(c, p, id, e) ==
    /\ Moves(c, p) /\ call'[c].id = call[c].id /\ call'[c].leg = call[c].leg
    /\ mem' = With(mem, id, e) /\ reinserted \subseteq reinserted'
    /\ UNCHANGED <<quotes, melts, sent, splices>>

RecordedPlain(c) ==
    /\ \/ call[c].pc \in {"insert", "upsert"} /\ Recorded(c, "ok", call[c].id, Plain)
       \/ call[c].pc = "leg" /\ Recorded(c, "try", call[c].id, Plain)
    /\ call[c].pc # "upsert" /\ call[c].id \in DOMAIN mem => call[c].id \in reinserted'

Split(c) == [ty |-> "mpp", surface |-> call[c].id]

RecordedSplit(c) ==
    \/ call[c].pc = "surface" /\ Recorded(c, "legs", call[c].id, Split(c))
    \/ call[c].pc = "legs" /\ Recorded(c, "ok", call[c].leg, Split(c))

\* Payments settle, or fail.
Settled ==
    /\ melts' \in Seq(MeltRec) /\ DOMAIN melts' = DOMAIN melts
    /\ \A i \in DOMAIN melts :
          /\ melts'[i].q = melts[i].q /\ melts'[i].told = melts[i].told
          /\ melts'[i].st # melts[i].st => melts[i].st \in {"started", "pending"}
    /\ sent' \in [DOMAIN sent' -> SentRec] /\ DOMAIN sent' = DOMAIN sent
    /\ \A x \in DOMAIN sent :
          /\ sent'[x].amt = sent[x].amt /\ sent'[x].told = sent[x].told
          /\ sent'[x].st # sent[x].st => sent[x].st = "pending"
    /\ UNCHANGED <<quotes, splices, mem, call, reinserted>>

\* Nothing of this changes.
Ledger == <<quotes, melts, sent, splices, mem, call, reinserted>>

\* Each call's step is one of these.
CallStep(c) ==
    \/ Quieted(c) \/ (\E q : Reused(c, q)) \/ (\E p, q, r : Begun(c, p, q, r))
    \/ (\E x \in SentIds : SentWhole(c, x)) \/ (\E r \in Reqs : SentLeg(c, r))
    \/ Spliced(c) \/ SpliceWritten(c) \/ RecordedPlain(c) \/ RecordedSplit(c)

\* A new melt quote.
LEMMA AppendQuote ==
    ASSUME WalletTypes, NEW r \in QuoteRec, quotes' = Append(quotes, r)
    PROVE  Quoted(Len(quotes'), r)
  <1>1. quotes \in Seq(QuoteRec)
    BY DEF WalletTypes
  <1> QED
    BY <1>1, AppendAdds DEF Quoted

\* A new attempt to pay a quote.
LEMMA AppendMelt ==
    ASSUME WalletTypes, NEW q \in Nat, melts' = Append(melts, Melt(q))
    PROVE  Melted(q)
  <1>1. melts \in Seq(MeltRec) /\ Melt(q) \in MeltRec
    BY DEF WalletTypes, MeltRec, Melt
  <1>2. Melt(q).q = q /\ Melt(q).st = "started" /\ ~Melt(q).told
    BY DEF Melt
  <1>3. Len(melts) \in Nat
    BY <1>1
  <1> QED
    BY <1>1, <1>2, <1>3, AppendAdds DEF Melted

\* What a call tries is one of its methods.
LEMMA TryIs ==
    ASSUME CallTypes, NEW c \in Calls, call[c].pc # "idle", call[c].at # End
    PROVE  /\ Try(c).req \in ReqsOf(c) /\ Try(c).req \in Reqs /\ Try(c).ty \in Types
           /\ Passes[call[c].at[1]].via = "mpp" => Try(c).ty = "bolt11"
  <1>1. call[c].methods \in Instructions /\ Placed(c)
    BY DEF CallTypes
  <1>2. PICK m : m = call[c].methods
    OBVIOUS
  <1>3. PICK i : i = call[c].at[2]
    OBVIOUS
  <1>4. m \in Instructions /\ m \in Seq({"bolt11", "bolt12", "onchain"} \X Reqs) /\ i \in DOMAIN m
    BY <1>1, <1>2, <1>3, PayAssumption DEF Placed
  <1>5. m[i] \in {"bolt11", "bolt12", "onchain"} \X Reqs
    BY <1>4
  <1>6. Try(c).ty = m[i][1] /\ Try(c).req = m[i][2]
    BY <1>2, <1>3 DEF Try
  <1>7. m[i][2] \in ReqsOf(c)
    BY <1>2, <1>4 DEF ReqsOf
  <1>8. ASSUME Passes[call[c].at[1]].via = "mpp" PROVE m[i][1] = "bolt11"
    <2>1. PICK n \in 1..5 : n = call[c].at[1]
      BY <1>1 DEF Placed
    <2>2. n = 3
      BY <1>8, <2>1 DEF Passes
    <2>3. m[i][1] \in Passes[3].tys
      BY <1>1, <1>2, <1>3, <2>1, <2>2 DEF Placed
    <2> QED
      BY <2>3 DEF Passes
  <1> QED
    BY <1>5, <1>6, <1>7, <1>8 DEF Types

\* A quote is for a request of the call and for a part of the amount.
LEMMA QuoteType ==
    ASSUME CallTypes, NEW c \in Calls, call[c].pc # "idle", call[c].at # End, NEW a \in 1..Amount
    PROVE  /\ Quote(c, a) \in QuoteRec /\ Quote(c, a).amt = a /\ Quote(c, a).req \in ReqsOf(c)
  BY TryIs DEF Quote, QuoteRec

\* The tries that come to nothing, and the start and the end of a call.
LEMMA QuietSteps ==
    ASSUME PayTypes, NEW c \in Calls,
           \/ StartPay(c) \/ SkipTrusted(c) \/ EstimateTrusted(c) \/ SkipLightning(c) \/ SkipMpp(c)
           \/ ReturnErr(c) \/ Drop(c)
    PROVE  Quieted(c)
  <1> USE DEF PayTypes
  <1>1. CASE StartPay(c)
    <2>1. UNCHANGED <<quotes, melts, sent, splices, mem, reinserted>> /\ call[c].pc = "idle"
      BY <1>1 DEF StartPay
    <2> QED
      BY <1>1, <2>1, StartCall DEF Quieted
  <1>2. ASSUME Skip(c), call[c].pc \in {"try", "estimated"},
               quotes' = quotes \/ \E q, r : Quoted(q, r),
               UNCHANGED <<melts, sent, splices, mem, reinserted>>
        PROVE  Quieted(c)
    BY <1>2, SkipCall DEF Quieted, Moves
  <1>3. ASSUME NEW p \in {"estimated", "err"}, Step(c, p), call[c].pc = "try",
               quotes' = quotes \/ \E q, r : Quoted(q, r),
               UNCHANGED <<melts, sent, splices, mem, reinserted>>
        PROVE  Quieted(c)
    <2>1. p \in PCs
      BY DEF PCs
    <2> QED
      BY <1>3, <2>1, StepCall DEF Quieted, Moves
  <1>4. CASE SkipTrusted(c) \/ SkipLightning(c) \/ SkipMpp(c)
    BY <1>2, <1>4 DEF SkipTrusted, SkipLightning, SkipMpp, Trying
  <1>5. CASE EstimateTrusted(c)
    <2>1. /\ call[c].pc = "try" /\ call[c].at # End
          /\ UNCHANGED <<melts, sent, splices, mem, reinserted>>
      BY <1>5 DEF EstimateTrusted, Trying
    <2>2. CASE Step(c, "estimated") /\ UNCHANGED quotes
      BY <1>3, <2>1, <2>2
    <2>3. CASE quotes' = Append(quotes, Quote(c, Amount)) /\ (Step(c, "estimated") \/ Skip(c))
      <3>1. Amount \in 1..Amount
        BY PayAssumption
      <3>2. Quote(c, Amount) \in QuoteRec
        BY <2>1, <3>1, QuoteType
      <3>3. \E q, r : Quoted(q, r)
        BY <2>3, <3>2, AppendQuote
      <3> QED
        BY <1>2, <1>3, <2>1, <2>3, <3>3
    <2> QED
      BY <1>5, <2>2, <2>3 DEF EstimateTrusted
  <1>6. CASE ReturnErr(c)
    BY <1>3, <1>6 DEF ReturnErr
  <1>7. CASE Drop(c)
    <2>1. "dropped" \in PCs
      BY DEF PCs
    <2>2. Step(c, "dropped") /\ call[c].pc # "idle"
      BY <1>7 DEF Drop
    <2>3. UNCHANGED <<quotes, melts, sent, splices, mem, reinserted>>
      BY <1>7 DEF Drop
    <2> QED
      BY <2>1, <2>2, <2>3, StepCall DEF Quieted, Moves
  <1> QED
    BY <1>1, <1>4, <1>5, <1>6, <1>7


\* The trusted wallet is asked to pay.
LEMMA PaySteps ==
    ASSUME PayTypes, NEW c \in Calls, PayTrusted(c) \/ PayPartial(c)
    PROVE  Quieted(c) \/ (\E q : Reused(c, q)) \/ (\E p, q, r : Begun(c, p, q, r))
  <1> USE DEF PayTypes
  <1>0. /\ Amount \in 1..Amount /\ "insert" \in PCs /\ "leg" \in PCs
        /\ UNCHANGED <<sent, splices, mem, reinserted>> /\ call[c].pc \in {"try", "estimated"}
    BY PayAssumption DEF PCs, PayTrusted, PayPartial, Trying
  <1>1. call[c].at # End /\ call[c].saw \in Balances
    BY DEF PayTrusted, PayPartial, Trying, CallTypes
  <1>2. CASE Skip(c) /\ UNCHANGED <<quotes, melts>>
    BY <1>0, <1>2, SkipCall DEF Quieted, Moves
  <1>3. ASSUME NEW q \in ReusableQuote(c), melts' = Append(melts, Melt(q)),
               Started(c, "insert", Trusted(q)), UNCHANGED quotes, call[c].pc = "estimated"
        PROVE  Reused(c, q)
    <2>1. q \in Active /\ q \in Nat /\ quotes[q].req = Try(c).req
      BY DEF ReusableQuote, Active, WalletTypes
    <2>2. Trusted(q) \in Ids
      BY <2>1, IdsAre
    <2>3. Melted(q)
      BY <1>3, <2>1, AppendMelt
    <2>4. quotes[q].req \in ReqsOf(c)
      BY <1>1, <1>3, <2>1, TryIs
    <2>5. Moves(c, "insert") /\ call'[c].id = Trusted(q) /\ call'[c].leg = call[c].leg
      BY <1>0, <1>3, <2>2, StartedCall
    <2> QED
      BY <1>0, <1>3, <2>1, <2>3, <2>4, <2>5 DEF Reused
  <1>4. ASSUME NEW p \in {"insert", "leg"}, NEW a \in 1..Amount,
               quotes' = Append(quotes, Quote(c, a)), melts' = Append(melts, Melt(Len(quotes'))),
               Started(c, p, Trusted(Len(quotes'))),
               \/ p = "insert" /\ a = Amount
               \/ p = "leg" /\ a = call[c].saw.trusted /\ a < Amount
        PROVE  \E q, r : Begun(c, p, q, r)
    <2>1. PICK q : q = Len(quotes')
      OBVIOUS
    <2>2. /\ Quote(c, a) \in QuoteRec /\ Quote(c, a).amt = a /\ Quote(c, a).req \in ReqsOf(c)
      BY <1>0, <1>1, QuoteType
    <2>3. Quoted(q, Quote(c, a))
      BY <1>4, <2>1, <2>2, AppendQuote
    <2>4. q \in Nat /\ Trusted(q) \in Ids
      BY <2>3, IdsAre DEF Quoted
    <2>5. Melted(q)
      BY <1>4, <2>1, <2>4, AppendMelt
    <2>6. Moves(c, p) /\ call'[c].id = Trusted(q) /\ call'[c].leg = call[c].leg
      BY <1>0, <1>4, <2>1, <2>4, StartedCall
    <2>7. Begun(c, p, q, Quote(c, a))
      BY <1>0, <1>4, <2>2, <2>3, <2>5, <2>6 DEF Begun
    <2> QED
      BY <2>7
  <1>5. CASE PayTrusted(c)
    <2>1. call[c].pc = "estimated"
      BY <1>5 DEF PayTrusted
    <2>2. CASE \E q \in ReusableQuote(c) :
                 /\ melts' = Append(melts, Melt(q))
                 /\ Started(c, "insert", Trusted(q)) /\ UNCHANGED quotes
      BY <1>3, <2>1, <2>2
    <2>3. CASE /\ quotes' = Append(quotes, Quote(c, Amount)) /\ melts' = Append(melts, Melt(Len(quotes')))
               /\ Started(c, "insert", Trusted(Len(quotes')))
      BY <1>0, <1>4, <2>3
    <2> QED
      BY <1>2, <1>5, <2>2, <2>3 DEF PayTrusted
  <1>6. CASE PayPartial(c)
    <2>2. call[c].saw.trusted \in 1..Amount /\ call[c].saw.trusted < Amount
      BY <1>1, <1>6, PayAssumption DEF PayPartial, CanSplit, Balances
    <2>3. CASE /\ quotes' = Append(quotes, Quote(c, call[c].saw.trusted))
               /\ melts' = Append(melts, Melt(Len(quotes')))
               /\ Started(c, "leg", Trusted(Len(quotes')))
      BY <1>4, <2>2, <2>3
    <2> QED
      BY <1>2, <1>6, <2>3 DEF PayPartial
  <1> QED
    BY <1>5, <1>6

\* A lightning payment is sent under the id of its call or hash.
LEMMA SendIs ==
    ASSUME PayTypes, NEW c \in Calls, call[c].pc # "idle", call[c].at # End, NEW amt \in Nat,
           NEW ty \in Types \cup {"splice"}, sent' = With(sent, LightningId(c), Sent(c, ty, amt)),
           UNCHANGED <<quotes, melts, splices, mem, reinserted>>
    PROVE  SentAs(LightningId(c), amt)
  <1> USE DEF PayTypes
  <1>1. Sent(c, ty, amt) \in SentRec
    BY TryIs DEF Sent, SentRec
  <1>2. sent \in [DOMAIN sent -> SentRec]
    BY DEF WalletTypes
  <1>3. sent' \in [DOMAIN sent' -> SentRec]
    BY <1>1, <1>2, WithType
  <1>4. Sent(c, ty, amt).amt = amt /\ Sent(c, ty, amt).st = "pending" /\ ~Sent(c, ty, amt).told
    BY DEF Sent
  <1>5. /\ DOMAIN sent' = DOMAIN sent \cup {LightningId(c)} /\ sent'[LightningId(c)] = Sent(c, ty, amt)
        /\ \A y \in DOMAIN sent : y # LightningId(c) => sent'[y] = sent[y]
    BY DEF With
  <1> QED
    BY <1>3, <1>4, <1>5 DEF SentAs

\* The lightning wallet is asked to pay.
LEMMA SendSteps ==
    ASSUME PayTypes, NEW c \in Calls,
           PayLightning(c) \/ WriteSpliceOut(c) \/ UpsertLightning(c) \/ PayUnderpaying(c)
    PROVE  CallStep(c)
  <1> USE DEF PayTypes
  <1>0. {"upsert", "splice", "ok", "try", "legs"} \subseteq PCs
    BY DEF PCs
  <1>1. CASE PayLightning(c)
    <2>1. /\ call[c].pc = "try" /\ call[c].at # End
          /\ UNCHANGED <<quotes, melts, splices, mem, reinserted>>
      BY <1>1 DEF PayLightning, Trying
    <2>2. LightningId(c) \in SentIds /\ SelfCustodial(LightningId(c)) \in Ids
      <3>1. Try(c).req \in Reqs
        BY <2>1, TryIs
      <3> QED
        BY <3>1, IdsAre DEF LightningId, SentIds
    <2>3. CASE Skip(c) /\ UNCHANGED <<funds, sent>>
      BY <2>1, <2>3, SkipCall DEF Quieted, Moves, CallStep
    <2>6. ASSUME NEW ty \in Types \cup {"splice"},
                 sent' = With(sent, LightningId(c), Sent(c, ty, Amount))
          PROVE  SentAs(LightningId(c), Amount)
      BY <2>1, <2>6, SendIs, PayAssumption
    <2>7. Try(c).ty \in Types /\ "onchain" \in Types
      BY <2>1, TryIs DEF Types
    <2>4. CASE /\ \E ty \in {Try(c).ty, "onchain"} : sent' = With(sent, LightningId(c), Sent(c, ty, Amount))
               /\ Started(c, "upsert", SelfCustodial(LightningId(c)))
      <3>1. SentAs(LightningId(c), Amount)
        BY <2>4, <2>6, <2>7
      <3>2. /\ Moves(c, "upsert") /\ call'[c].id = SelfCustodial(LightningId(c))
            /\ call'[c].leg = call[c].leg
        BY <1>0, <2>2, <2>4, StartedCall
      <3>3. LightningId(c) = ByCall(c) \/ \E r \in Reqs : LightningId(c) = ByHash(r)
        BY <2>1, TryIs DEF LightningId
      <3>4. SentWhole(c, LightningId(c))
        BY <2>1, <3>1, <3>2, <3>3 DEF SentWhole
      <3> QED
        BY <2>2, <3>4 DEF CallStep
    <2>5. CASE /\ Try(c).ty = "onchain" /\ sent' = With(sent, LightningId(c), Sent(c, "splice", Amount))
               /\ Started(c, "splice", SelfCustodial(LightningId(c)))
      <3>1. LightningId(c) = ByCall(c)
        BY <2>5 DEF LightningId
      <3>2. /\ Moves(c, "splice") /\ call'[c].id = SelfCustodial(LightningId(c))
            /\ call'[c].leg = call[c].leg
        BY <1>0, <2>2, <2>5, StartedCall
      <3>3. SentAs(ByCall(c), Amount)
        BY <2>5, <2>6, <3>1
      <3> QED
        BY <2>1, <3>1, <3>2, <3>3 DEF Spliced, CallStep
    <2> QED
      BY <1>1, <2>3, <2>4, <2>5 DEF PayLightning, Send
  <1>2. CASE WriteSpliceOut(c)
    <2>1. Step(c, "upsert") /\ call[c].pc = "splice" /\ splices' = splices \cup {call[c].id}
      BY <1>2 DEF WriteSpliceOut
    <2>2. UNCHANGED <<quotes, melts, sent, mem, reinserted>>
      BY <1>2 DEF WriteSpliceOut
    <2>3. Moves(c, "upsert") /\ call'[c].id = call[c].id /\ call'[c].leg = call[c].leg
      BY <1>0, <2>1, StepCall
    <2> QED
      BY <2>1, <2>2, <2>3 DEF SpliceWritten, CallStep
  <1>3. CASE UpsertLightning(c)
    <2>1. Step(c, "ok") /\ call[c].pc = "upsert" /\ mem' = With(mem, call[c].id, Plain)
      BY <1>3 DEF UpsertLightning, Record
    <2>2. UNCHANGED <<quotes, melts, sent, splices, reinserted>>
      BY <1>3 DEF UpsertLightning
    <2>3. Moves(c, "ok") /\ call'[c].id = call[c].id /\ call'[c].leg = call[c].leg
      BY <1>0, <2>1, StepCall
    <2> QED
      BY <2>1, <2>2, <2>3 DEF Recorded, RecordedPlain, CallStep
  <1>4. CASE PayUnderpaying(c)
    <2>1. /\ call[c].pc = "leg" /\ UNCHANGED <<quotes, melts, splices>>
      BY <1>4 DEF PayUnderpaying
    <2>2. /\ call[c].at # End /\ Passes[call[c].at[1]].via = "mpp"
          /\ call[c].saw \in Balances /\ call[c].saw.trusted < Amount
      BY <2>1 DEF CallTypes
    <2>3. PICK r \in Reqs : LightningId(c) = ByHash(r)
      BY <2>1, <2>2, TryIs DEF LightningId
    <2>4. CASE /\ sent' = With(sent, LightningId(c), Sent(c, Try(c).ty, LightningPortion(c)))
               /\ UNCHANGED <<mem, reinserted>>
               /\ call' = [call EXCEPT ![c].pc = "surface", ![c].leg = SelfCustodial(LightningId(c))]
      <3>1. LightningPortion(c) = Amount - call[c].saw.trusted /\ LightningPortion(c) \in Nat
        BY <2>2, PayAssumption DEF LightningPortion, Balances
      <3>2. SentAs(LightningId(c), LightningPortion(c))
        BY <2>1, <2>2, <2>4, <3>1, SendIs, TryIs
      <3>3. SelfCustodial(LightningId(c)) \in Ids
        BY <2>3, IdsAre DEF SentIds
      <3>4. /\ Moves(c, "surface") /\ call'[c].id = call[c].id
            /\ call'[c].leg = SelfCustodial(LightningId(c))
        BY <2>4, <3>3, LegCall
      <3>5. SentLeg(c, r)
        BY <2>1, <2>3, <3>1, <3>2, <3>4 DEF SentLeg
      <3> QED
        BY <3>5 DEF CallStep
    <2>5. CASE Skip(c) /\ Insert(call[c].id, Plain) /\ UNCHANGED <<funds, sent>>
      <3>1. /\ mem' = With(mem, call[c].id, Plain) /\ reinserted \subseteq reinserted'
            /\ call[c].id \in DOMAIN mem => call[c].id \in reinserted'
        BY <2>5 DEF Insert, Record
      <3> QED
        BY <2>1, <2>5, <3>1, SkipCall DEF Recorded, RecordedPlain, CallStep
    <2> QED
      BY <1>4, <2>4, <2>5 DEF PayUnderpaying, Send
  <1> QED
    BY <1>1, <1>2, <1>3, <1>4

\* The metadata of a trusted payment, and of a split.
LEMMA RecordSteps ==
    ASSUME PayTypes, NEW c \in Calls, InsertTrusted(c) \/ InsertSurface(c) \/ UpsertLeg(c)
    PROVE  RecordedPlain(c) \/ RecordedSplit(c)
  <1> USE DEF PayTypes
  <1>0. {"ok", "legs"} \subseteq PCs
    BY DEF PCs
  <1>1. UNCHANGED <<quotes, melts, sent, splices>> /\ reinserted \subseteq reinserted'
    BY DEF InsertTrusted, InsertSurface, UpsertLeg, Insert
  <1>2. ASSUME NEW p \in {"ok", "legs"}, Step(c, p)
        PROVE  Moves(c, p) /\ call'[c].id = call[c].id /\ call'[c].leg = call[c].leg
    BY <1>0, <1>2, StepCall
  <1>3. CASE InsertTrusted(c)
    <2>1. /\ Step(c, "ok") /\ call[c].pc = "insert" /\ mem' = With(mem, call[c].id, Plain)
          /\ call[c].id \in DOMAIN mem => call[c].id \in reinserted'
      BY <1>3 DEF InsertTrusted, Insert, Record
    <2> QED
      BY <1>1, <1>2, <2>1 DEF Recorded, RecordedPlain
  <1>4. CASE InsertSurface(c)
    <2>1. Step(c, "legs") /\ call[c].pc = "surface" /\ mem' = With(mem, call[c].id, Split(c))
      BY <1>4 DEF InsertSurface, Insert, Record, MppMetadata, Split
    <2> QED
      BY <1>1, <1>2, <2>1 DEF Recorded, RecordedSplit
  <1>5. CASE UpsertLeg(c)
    <2>1. Step(c, "ok") /\ call[c].pc = "legs" /\ mem' = With(mem, call[c].leg, Split(c))
      BY <1>5 DEF UpsertLeg, Record, MppMetadata, Split
    <2> QED
      BY <1>1, <1>2, <2>1 DEF Recorded, RecordedSplit
  <1> QED
    BY <1>3, <1>4, <1>5


(***************************************************************************)
(* The steps of the wallets and the network.                               *)
(***************************************************************************)

\* The mint, LDK and the receiver settle payments without a report.
LEMMA SettleSteps ==
    ASSUME WalletTypes,
           \/ \E i \in DOMAIN melts : PrepareMelt(i) \/ FailMelt(i)
           \/ \E x \in DOMAIN sent : FailSent(x)
           \/ \E r \in Requests : Claim(r) \/ Settle(r)
    PROVE  Settled
  <1>0. /\ melts \in Seq(MeltRec) /\ sent \in [DOMAIN sent -> SentRec]
    BY DEF WalletTypes
  <1>1. UNCHANGED <<quotes, splices, mem, call, reinserted>>
    BY DEF PrepareMelt, FailMelt, FailSent, Claim, Settle, Pay
  <1>2. ASSUME NEW i \in DOMAIN melts, NEW v \in {"pending", "failed", "forgotten"},
               melts[i].st \in {"started", "pending"}, melts' = [melts EXCEPT ![i].st = v]
        PROVE  /\ melts' \in Seq(MeltRec) /\ DOMAIN melts' = DOMAIN melts
               /\ \A j \in DOMAIN melts :
                     /\ melts'[j].q = melts[j].q /\ melts'[j].told = melts[j].told
                     /\ melts'[j].st # melts[j].st => melts[j].st \in {"started", "pending"}
    <2>1. PICK m : m = [melts[i] EXCEPT !.st = v]
      OBVIOUS
    <2>2. m \in MeltRec /\ m.q = melts[i].q /\ m.told = melts[i].told
      <3>1. melts[i] \in MeltRec
        BY <1>0
      <3> QED
        BY <2>1, <3>1 DEF MeltRec
    <2>3. melts' = [melts EXCEPT ![i] = m]
      BY <1>0, <1>2, <2>1
    <2>4. melts' \in Seq(MeltRec) /\ DOMAIN melts' = DOMAIN melts
      BY <1>0, <2>2, <2>3
    <2>5. \A j \in DOMAIN melts : melts'[j] = IF j = i THEN m ELSE melts[j]
      BY <1>0, <2>3
    <2> QED
      BY <1>2, <2>2, <2>4, <2>5
  <1>3. ASSUME NEW x \in DOMAIN sent, sent[x].st = "pending", sent' = [sent EXCEPT ![x].st = "failed"]
        PROVE  /\ sent' \in [DOMAIN sent' -> SentRec] /\ DOMAIN sent' = DOMAIN sent
               /\ \A y \in DOMAIN sent :
                     /\ sent'[y].amt = sent[y].amt /\ sent'[y].told = sent[y].told
                     /\ sent'[y].st # sent[y].st => sent[y].st = "pending"
    <2>1. PICK m : m = [sent[x] EXCEPT !.st = "failed"]
      OBVIOUS
    <2>2. m \in SentRec /\ m.amt = sent[x].amt /\ m.told = sent[x].told
      BY <1>0, <2>1 DEF SentRec
    <2>3. sent' = [sent EXCEPT ![x] = m]
      BY <1>0, <1>3, <2>1
    <2>4. \A y \in DOMAIN sent : sent'[y] = IF y = x THEN m ELSE sent[y]
      BY <1>0, <2>3
    <2>5. sent' \in [DOMAIN sent' -> SentRec] /\ DOMAIN sent' = DOMAIN sent
      BY <1>0, <2>2, <2>3
    <2> QED
      BY <1>3, <2>2, <2>4, <2>5
  <1>4. ASSUME NEW ms \in SUBSET DOMAIN melts, NEW ss \in SUBSET DOMAIN sent, Pay(ms, ss),
               \A i \in ms : melts[i].st = "pending", \A x \in ss : sent[x].st = "pending"
        PROVE  Settled
    <2>1. /\ melts' = [i \in DOMAIN melts |-> IF i \in ms THEN [melts[i] EXCEPT !.st = "paid"] ELSE melts[i]]
          /\ sent' = [x \in DOMAIN sent |-> IF x \in ss THEN [sent[x] EXCEPT !.st = "completed"] ELSE sent[x]]
      BY <1>4 DEF Pay
    <2>2. ASSUME NEW i \in DOMAIN melts
          PROVE  /\ melts'[i] \in MeltRec
                 /\ melts'[i].q = melts[i].q /\ melts'[i].told = melts[i].told
                 /\ melts'[i].st # melts[i].st => melts[i].st \in {"started", "pending"}
      <3>1. melts[i] \in MeltRec
        BY <1>0
      <3> QED
        BY <1>4, <2>1, <3>1 DEF MeltRec
    <2>3. ASSUME NEW x \in DOMAIN sent
          PROVE  /\ sent'[x] \in SentRec
                 /\ sent'[x].amt = sent[x].amt /\ sent'[x].told = sent[x].told
                 /\ sent'[x].st # sent[x].st => sent[x].st = "pending"
      <3>1. sent[x] \in SentRec
        BY <1>0
      <3> QED
        BY <1>4, <2>1, <3>1 DEF SentRec
    <2>4. /\ melts' \in Seq(MeltRec) /\ DOMAIN melts' = DOMAIN melts
      <3>1. Len(melts) \in Nat /\ DOMAIN melts = 1..Len(melts)
        BY <1>0
      <3>2. melts' \in [1..Len(melts) -> MeltRec]
        BY <2>1, <2>2, <3>1
      <3> QED
        BY <3>1, <3>2
    <2>5. sent' \in [DOMAIN sent' -> SentRec] /\ DOMAIN sent' = DOMAIN sent
      BY <2>1, <2>3
    <2> QED
      BY <1>1, <2>2, <2>3, <2>4, <2>5 DEF Settled
  <1>5. CASE \E i \in DOMAIN melts : PrepareMelt(i) \/ FailMelt(i)
    <2>1. PICK i \in DOMAIN melts : PrepareMelt(i) \/ FailMelt(i)
      BY <1>5
    <2>2. PICK v \in {"pending", "failed", "forgotten"} : melts' = [melts EXCEPT ![i].st = v]
      BY <2>1 DEF PrepareMelt, FailMelt
    <2>3. melts[i].st \in {"started", "pending"} /\ UNCHANGED sent
      BY <2>1 DEF PrepareMelt, FailMelt
    <2> QED
      BY <1>0, <1>1, <1>2, <2>2, <2>3 DEF Settled
  <1>6. CASE \E x \in DOMAIN sent : FailSent(x)
    <2>1. PICK x \in DOMAIN sent : FailSent(x)
      BY <1>6
    <2>2. sent[x].st = "pending" /\ sent' = [sent EXCEPT ![x].st = "failed"] /\ UNCHANGED melts
      BY <2>1 DEF FailSent
    <2> QED
      BY <1>0, <1>1, <1>3, <2>2 DEF Settled
  <1>7. ASSUME NEW r \in Requests, Claim(r) PROVE Settled
    BY <1>4, <1>7 DEF Claim, MeltsFor, SentFor
  <1>8. ASSUME NEW r \in Requests, Settle(r) PROVE Settled
    <2>1. CASE \E i \in MeltsFor(r.req) : Pay({i}, {})
      BY <1>4, <2>1 DEF MeltsFor
    <2>2. CASE \E x \in SentFor(r.req) : Pay({}, {x})
      BY <1>4, <2>2 DEF SentFor
    <2> QED
      BY <1>8, <2>1, <2>2 DEF Settle
  <1> QED
    BY <1>5, <1>6, <1>7, <1>8

\* A result is reported: told, and the preimage set if there is a record.
MeltReported(i) ==
    /\ melts' \in Seq(MeltRec) /\ DOMAIN melts' = DOMAIN melts
    /\ melts[i].st \in {"paid", "failed"}
    /\ \A j \in DOMAIN melts : melts'[j].q = melts[j].q /\ melts'[j].st = melts[j].st
    /\ melts'[i].told /\ \A j \in DOMAIN melts : j # i => melts'[j].told = melts[j].told
    /\ mem' = IF melts[i].st = "paid" THEN set_preimage(Trusted(melts[i].q)) ELSE mem
    /\ UNCHANGED <<quotes, sent, splices, call, reinserted>>

SentReported(x) ==
    /\ sent' \in [DOMAIN sent' -> SentRec] /\ DOMAIN sent' = DOMAIN sent
    /\ sent[x].st \in {"completed", "failed"}
    /\ \A y \in DOMAIN sent : sent'[y].amt = sent[y].amt /\ sent'[y].st = sent[y].st
    /\ sent'[x].told /\ \A y \in DOMAIN sent : y # x => sent'[y].told = sent[y].told
    /\ mem' = IF sent[x].st = "completed" THEN set_preimage(SelfCustodial(x)) ELSE mem
    /\ UNCHANGED <<quotes, melts, splices, call, reinserted>>

\* The negotiation of a splice is reported: told, and a record reserved if there
\* is none.
Negotiated(x) ==
    /\ sent' \in [DOMAIN sent' -> SentRec] /\ DOMAIN sent' = DOMAIN sent
    /\ \/ mem' = mem
       \/ /\ SelfCustodial(x) \notin DOMAIN mem
          /\ mem' = With(mem, SelfCustodial(x), [ty |-> "pending"])
    /\ UNCHANGED <<quotes, melts, splices, call, reinserted>>

\* What the network and the handlers do.
OtherStep ==
    \/ Settled
    \/ \E i \in DOMAIN melts : MeltReported(i)
    \/ \E x \in DOMAIN sent : SentReported(x) \/ Negotiated(x)

\* A report changes one payment, and the entry under its id.
LEMMA ReportSteps ==
    ASSUME WalletTypes
    PROVE  /\ \A i \in DOMAIN melts : ReportMelt(i) => MeltReported(i)
           /\ \A x \in DOMAIN sent : ReportSent(x) => SentReported(x)
           /\ \A x \in DOMAIN sent : SpliceNegotiated(x) => Negotiated(x)
  <1>0. /\ melts \in Seq(MeltRec) /\ sent \in [DOMAIN sent -> SentRec]
    BY DEF WalletTypes
  <1>1. ASSUME NEW i \in DOMAIN melts, ReportMelt(i) PROVE MeltReported(i)
    <2>1. PICK m : m = [melts[i] EXCEPT !.told = TRUE]
      OBVIOUS
    <2>2. m \in MeltRec /\ m.q = melts[i].q /\ m.st = melts[i].st /\ m.told
      <3>1. melts[i] \in MeltRec
        BY <1>0
      <3> QED
        BY <2>1, <3>1 DEF MeltRec
    <2>3. melts' = [melts EXCEPT ![i] = m]
      BY <1>0, <1>1, <2>1 DEF ReportMelt
    <2>4. melts' \in Seq(MeltRec) /\ DOMAIN melts' = DOMAIN melts
      BY <1>0, <2>2, <2>3
    <2>5. \A j \in DOMAIN melts : melts'[j] = IF j = i THEN m ELSE melts[j]
      BY <1>0, <2>3
    <2>6. /\ melts[i].st \in {"paid", "failed"}
          /\ mem' = IF melts[i].st = "paid" THEN set_preimage(Trusted(melts[i].q)) ELSE mem
          /\ UNCHANGED <<quotes, sent, splices, call, reinserted>>
      BY <1>1 DEF ReportMelt
    <2> QED
      BY <2>2, <2>4, <2>5, <2>6 DEF MeltReported
  <1>2. ASSUME NEW x \in DOMAIN sent, ReportSent(x) PROVE SentReported(x)
    <2>1. PICK m : m = [sent[x] EXCEPT !.told = TRUE]
      OBVIOUS
    <2>2. m \in SentRec /\ m.amt = sent[x].amt /\ m.st = sent[x].st /\ m.told
      BY <1>0, <2>1 DEF SentRec
    <2>3. sent' = [sent EXCEPT ![x] = m]
      BY <1>0, <1>2, <2>1 DEF ReportSent
    <2>4. \A y \in DOMAIN sent : sent'[y] = IF y = x THEN m ELSE sent[y]
      BY <1>0, <2>3
    <2>5. sent' \in [DOMAIN sent' -> SentRec] /\ DOMAIN sent' = DOMAIN sent
      BY <1>0, <2>2, <2>3
    <2>6. /\ sent[x].st \in {"completed", "failed"}
          /\ mem' = IF sent[x].st = "completed" THEN set_preimage(SelfCustodial(x)) ELSE mem
          /\ UNCHANGED <<quotes, melts, splices, call, reinserted>>
      BY <1>2 DEF ReportSent
    <2> QED
      BY <2>2, <2>4, <2>5, <2>6 DEF SentReported
  <1>3. ASSUME NEW x \in DOMAIN sent, SpliceNegotiated(x) PROVE Negotiated(x)
    <2>1. PICK m : m = [sent[x] EXCEPT !.told = TRUE]
      OBVIOUS
    <2>2. m \in SentRec
      BY <1>0, <2>1 DEF SentRec
    <2>3. sent' = [sent EXCEPT ![x] = m]
      BY <1>0, <1>3, <2>1 DEF SpliceNegotiated
    <2>4. sent' \in [DOMAIN sent' -> SentRec] /\ DOMAIN sent' = DOMAIN sent
      BY <1>0, <2>2, <2>3
    <2>5. /\ mem' = IF SelfCustodial(x) \in DOMAIN mem THEN mem
                    ELSE With(mem, SelfCustodial(x), [ty |-> "pending"])
          /\ UNCHANGED <<quotes, melts, splices, call, reinserted>>
      BY <1>3 DEF SpliceNegotiated
    <2> QED
      BY <2>4, <2>5 DEF Negotiated
  <1> QED
    BY <1>1, <1>2, <1>3

\* Setting a preimage changes that field of that entry only.
LEMMA SetPreimageIs ==
    ASSUME WalletTypes, NEW id, NEW m, m = set_preimage(id)
    PROVE  /\ m \in [DOMAIN m -> Entry] /\ DOMAIN m = DOMAIN mem
           /\ \A k \in DOMAIN mem :
                 /\ m[k].ty = mem[k].ty
                 /\ k # id => m[k] = mem[k]
                 /\ mem[k].ty = "mpp" => m[k] = mem[k]
                 /\ mem[k].ty = "payment" /\ (k = id \/ mem[k].preimage) => m[k].preimage
  <1>0. mem \in [DOMAIN mem -> Entry]
    BY DEF WalletTypes
  <1>1. CASE id \in DOMAIN mem /\ mem[id].ty = "payment"
    <2>1. PICK e : e = [mem[id] EXCEPT !.preimage = TRUE]
      OBVIOUS
    <2>2. mem[id] \in [ty : {"payment"}, preimage : BOOLEAN]
      BY <1>0, <1>1 DEF Entry
    <2>3. e \in [ty : {"payment"}, preimage : BOOLEAN] /\ e.preimage
      BY <2>1, <2>2
    <2>4. m = [mem EXCEPT ![id] = e]
      BY <1>0, <1>1, <2>1 DEF set_preimage
    <2>5. e \in Entry /\ e.ty = "payment"
      BY <2>3 DEF Entry
    <2>6. \A k \in DOMAIN mem : m[k] = IF k = id THEN e ELSE mem[k]
      BY <1>0, <2>4
    <2>7. m \in [DOMAIN m -> Entry] /\ DOMAIN m = DOMAIN mem
      BY <1>0, <2>4, <2>5
    <2> QED
      BY <1>1, <2>3, <2>5, <2>6, <2>7
  <1>2. CASE ~(id \in DOMAIN mem /\ mem[id].ty = "payment")
    BY <1>0, <1>2 DEF set_preimage
  <1> QED
    BY <1>1, <1>2


(***************************************************************************)
(* The types are kept.                                                     *)
(***************************************************************************)

\* What a call must satisfy by itself.
CallOK(r) ==
    /\ r.pc # "idle" => r.methods \in Instructions /\ r.saw \in Balances
    /\ r.at # End => /\ r.at \in (1..5) \X DOMAIN r.methods
                     /\ r.methods[r.at[2]][1] \in Passes[r.at[1]].tys
    /\ r.pc \in {"estimated", "leg"} => r.at # End
    /\ r.pc = "leg" => Passes[r.at[1]].via = "mpp" /\ r.saw.trusted < Amount

\* The types of the calls, call by call.
LEMMA CallTypesIs == CallTypes <=> /\ call \in [Calls -> CallRec]
                                   /\ \A c \in Calls : CallOK(call[c])
  BY DEF CallTypes, CallOK, Placed

\* One call changes: the types of that one are left to show.
LEMMA CallTypesNext ==
    ASSUME CallTypes, NEW c \in Calls, call' \in [Calls -> CallRec],
           \A e \in Calls \ {c} : call'[e] = call[e], CallOK(call'[c])
    PROVE  CallTypes'
  <1>1. \A e \in Calls : CallOK(call'[e])
    <2> SUFFICES ASSUME NEW e \in Calls, e # c PROVE CallOK(call'[e])
      OBVIOUS
    <2>1. call'[e] = call[e] /\ CallOK(call[e])
      BY CallTypesIs
    <2> QED
      BY <2>1
  <1> QED
    BY <1>1 DEF CallTypes, CallOK, Placed

\* Each step of a call keeps the types of the calls.
LEMMA CallStepTypes ==
    ASSUME PayTypes, NEW c \in Calls,
           \/ StartPay(c) \/ SkipTrusted(c) \/ EstimateTrusted(c) \/ PayTrusted(c) \/ InsertTrusted(c)
           \/ SkipLightning(c) \/ PayLightning(c) \/ WriteSpliceOut(c) \/ UpsertLightning(c)
           \/ SkipMpp(c) \/ PayPartial(c) \/ PayUnderpaying(c) \/ InsertSurface(c) \/ UpsertLeg(c)
           \/ ReturnErr(c) \/ Drop(c)
    PROVE  CallTypes'
  <1> USE DEF PayTypes
  <1>0. CallOK(call[c])
    BY CallTypesIs
  <1>1. CASE StartPay(c)
    <2>1. CallOK(call'[c])
      BY <1>1, StartCall DEF CallOK
    <2> QED
      BY <1>1, <2>1, StartCall, CallTypesNext
  <1>2. ASSUME Skip(c), call[c].pc # "idle" PROVE CallTypes'
    <2>1. CallOK(call'[c])
      BY <1>0, <1>2, SkipCall DEF CallOK, Moves
    <2> QED
      BY <1>2, <2>1, SkipCall, CallTypesNext DEF Moves
  <1>3. ASSUME NEW p \in PCs \ {"idle", "leg"}, Step(c, p), call[c].pc # "idle",
               p = "estimated" => call[c].at # End
        PROVE  CallTypes'
    <2>1. CallOK(call'[c])
      BY <1>0, <1>3, StepCall DEF CallOK, Moves
    <2> QED
      BY <1>3, <2>1, StepCall, CallTypesNext DEF Moves
  <1>4. ASSUME NEW p \in PCs \ {"idle", "estimated"}, NEW id \in Ids, Started(c, p, id),
               call[c].pc # "idle",
               p = "leg" => /\ call[c].at # End /\ Passes[call[c].at[1]].via = "mpp"
                            /\ call[c].saw.trusted < Amount
        PROVE  CallTypes'
    <2>1. CallOK(call'[c])
      BY <1>0, <1>4, StartedCall DEF CallOK, Moves
    <2> QED
      BY <1>4, <2>1, StartedCall, CallTypesNext DEF Moves
  <1>5. /\ {"estimated", "insert", "splice", "upsert", "surface", "legs", "ok", "err", "dropped"}
             \subseteq PCs \ {"idle", "leg"}
        /\ {"insert", "splice", "upsert", "leg"} \subseteq PCs \ {"idle", "estimated"}
    BY DEF PCs
  <1>6. CASE SkipTrusted(c) \/ SkipLightning(c) \/ SkipMpp(c)
    BY <1>2, <1>6 DEF SkipTrusted, SkipLightning, SkipMpp, Trying
  <1>7. CASE EstimateTrusted(c)
    <2>1. call[c].pc = "try" /\ call[c].at # End /\ (Step(c, "estimated") \/ Skip(c))
      BY <1>7 DEF EstimateTrusted, Trying
    <2> QED
      BY <1>2, <1>3, <1>5, <2>1
  <1>8. CASE PayTrusted(c)
    <2>1. call[c].pc = "estimated"
      BY <1>8 DEF PayTrusted
    <2>2. CASE Skip(c)
      BY <1>2, <2>1, <2>2
    <2>3. ASSUME NEW q \in Nat, Started(c, "insert", Trusted(q)) PROVE CallTypes'
      BY <1>4, <1>5, <2>1, <2>3, IdsAre
    <2>4. CASE \E q \in ReusableQuote(c) : Started(c, "insert", Trusted(q))
      BY <2>3, <2>4 DEF ReusableQuote, Active, WalletTypes
    <2>5. CASE quotes' = Append(quotes, Quote(c, Amount)) /\ Started(c, "insert", Trusted(Len(quotes')))
      <3>1. Amount \in 1..Amount /\ call[c].at # End
        BY <1>0, <2>1, PayAssumption DEF CallOK
      <3>2. Quote(c, Amount) \in QuoteRec
        BY <2>1, <3>1, QuoteType
      <3>3. Len(quotes') \in Nat
        BY <2>5, <3>2, AppendQuote DEF Quoted
      <3> QED
        BY <2>3, <2>5, <3>3
    <2> QED
      BY <1>8, <2>2, <2>4, <2>5 DEF PayTrusted
  <1>9. CASE InsertTrusted(c) \/ UpsertLightning(c) \/ WriteSpliceOut(c) \/ InsertSurface(c) \/ UpsertLeg(c)
    <2>1. \E p \in {"ok", "upsert", "legs"} : Step(c, p) /\ call[c].pc # "idle"
      BY <1>9 DEF InsertTrusted, UpsertLightning, WriteSpliceOut, InsertSurface, UpsertLeg
    <2> QED
      BY <1>3, <1>5, <2>1
  <1>10. CASE PayLightning(c)
    <2>1. call[c].pc = "try" /\ call[c].at # End
      BY <1>10 DEF PayLightning, Trying
    <2>2. SelfCustodial(LightningId(c)) \in Ids
      BY <2>1, TryIs, IdsAre DEF LightningId, SentIds
    <2>3. Skip(c) \/ \E p \in {"upsert", "splice"} : Started(c, p, SelfCustodial(LightningId(c)))
      BY <1>10 DEF PayLightning
    <2> QED
      BY <1>2, <1>4, <1>5, <2>1, <2>2, <2>3
  <1>11. CASE PayPartial(c)
    <2>1. /\ call[c].pc = "try" /\ call[c].at # End /\ Passes[call[c].at[1]].via = "mpp"
          /\ call[c].saw.trusted < Amount /\ call[c].saw.trusted > 0 /\ call[c].saw \in Balances
      BY <1>0, <1>11 DEF PayPartial, Trying, CanSplit, CallOK
    <2>2. CASE Skip(c)
      BY <1>2, <2>1, <2>2
    <2>3. CASE /\ quotes' = Append(quotes, Quote(c, call[c].saw.trusted))
               /\ Started(c, "leg", Trusted(Len(quotes')))
      <3>1. call[c].saw.trusted \in 1..Amount
        BY <2>1, PayAssumption DEF Balances
      <3>2. Quote(c, call[c].saw.trusted) \in QuoteRec
        BY <2>1, <3>1, QuoteType
      <3>3. Len(quotes') \in Nat
        BY <2>3, <3>2, AppendQuote DEF Quoted
      <3> QED
        BY <1>4, <1>5, <2>1, <2>3, <3>3, IdsAre
    <2> QED
      BY <1>11, <2>2, <2>3 DEF PayPartial
  <1>12. CASE PayUnderpaying(c)
    <2>1. call[c].pc = "leg" /\ call[c].at # End
      BY <1>0, <1>12 DEF PayUnderpaying, CallOK
    <2>2. CASE Skip(c)
      BY <1>2, <2>1, <2>2
    <2>3. CASE call' = [call EXCEPT ![c].pc = "surface", ![c].leg = SelfCustodial(LightningId(c))]
      <3>1. SelfCustodial(LightningId(c)) \in Ids
        BY <2>1, TryIs, IdsAre DEF LightningId, SentIds
      <3>2. /\ Moves(c, "surface") /\ call'[c].at = call[c].at
        BY <2>3, <3>1, LegCall
      <3>3. CallOK(call'[c])
        BY <1>0, <2>1, <3>2 DEF CallOK, Moves
      <3> QED
        BY <3>2, <3>3, CallTypesNext DEF Moves
    <2> QED
      BY <1>12, <2>2, <2>3 DEF PayUnderpaying
  <1>13. CASE ReturnErr(c) \/ Drop(c)
    <2>1. \E p \in {"err", "dropped"} : Step(c, p) /\ call[c].pc # "idle"
      BY <1>13 DEF ReturnErr, Drop
    <2> QED
      BY <1>3, <1>5, <2>1
  <1> QED
    BY <1>1, <1>6, <1>7, <1>8, <1>9, <1>10, <1>11, <1>12, <1>13

\* The balances stay natural numbers.
LEMMA FundsStep ==
    ASSUME PayTypes, Next
    PROVE  FundsTypes'
  <1> USE DEF PayTypes
  <1>0. funds \in Balances /\ funds.trusted \in Nat /\ funds.lightning \in Nat /\ funds.onchain \in Nat
    BY DEF FundsTypes, Balances
  <1>1. ASSUME UNCHANGED <<funds, uri>> PROVE FundsTypes'
    BY <1>1 DEF FundsTypes
  <1>2. ASSUME UNCHANGED uri, NEW n \in Nat,
               \/ funds' = [funds EXCEPT !.trusted = n] \/ funds' = [funds EXCEPT !.lightning = n]
               \/ funds' = [funds EXCEPT !.onchain = n]
        PROVE  FundsTypes'
    BY <1>0, <1>2 DEF FundsTypes, Balances
  <1>3. CASE get_single_use_receive_uri
    <2>0. \A a \in 1..Amount : a \in Nat
      BY PayAssumption
    <2>1. PICK amt \in 1..Amount, online \in BOOLEAN, answer \in {"ok", "no liquidity", "error"} :
             LET from == ReceiveFrom(amt, funds.lightning, online, answer)
             IN  uri' = IF from = "error" THEN None ELSE [amt |-> amt, from |-> from]
      BY <1>3, Zenon DEF get_single_use_receive_uri
    <2>2. ReceiveFrom(amt, funds.lightning, online, answer) \in {"trusted", "lightning", "error"}
      BY DEF ReceiveFrom
    <2>3. UNCHANGED funds
      BY <1>3 DEF get_single_use_receive_uri
    <2>4. amt \in Nat
      BY <2>0, Zenon
    <2> QED
      BY <1>0, <2>1, <2>2, <2>3, <2>4 DEF FundsTypes
  <1>4. CASE Received
    <2>1. /\ uri.amt \in Nat /\ uri.from \in {"trusted", "lightning"} /\ uri' = None
          /\ funds' = [funds EXCEPT ![uri.from] = funds[uri.from] + uri.amt]
      BY <1>4 DEF Received, FundsTypes
    <2>2. CASE uri.from = "trusted"
      BY <1>0, <2>1, <2>2 DEF FundsTypes, Balances
    <2>3. CASE uri.from = "lightning"
      BY <1>0, <2>1, <2>3 DEF FundsTypes, Balances
    <2> QED
      BY <2>1, <2>2, <2>3
  <1>5. ASSUME NEW c \in Calls, PayLightning(c) PROVE FundsTypes'
    <2>1. UNCHANGED uri /\ Amount \in Nat
      BY <1>5, PayAssumption DEF PayLightning
    <2>2. CASE UNCHANGED funds
      BY <1>1, <2>1, <2>2
    <2>3. CASE Amount <= funds.lightning /\ funds' = [funds EXCEPT !.lightning = funds.lightning - Amount]
      <3>1. funds.lightning - Amount \in Nat
        BY <1>0, <2>1, <2>3
      <3> QED
        BY <1>2, <2>1, <2>3, <3>1
    <2>4. CASE Amount <= funds.onchain /\ funds' = [funds EXCEPT !.onchain = funds.onchain - Amount]
      <3>1. funds.onchain - Amount \in Nat
        BY <1>0, <2>1, <2>4
      <3> QED
        BY <1>2, <2>1, <2>4, <3>1
    <2> QED
      BY <1>5, <2>2, <2>3, <2>4 DEF PayLightning, Send
  <1>6. ASSUME NEW c \in Calls, PayUnderpaying(c) PROVE FundsTypes'
    <2>1. UNCHANGED uri /\ call[c].pc = "leg"
      BY <1>6 DEF PayUnderpaying
    <2>2. LightningPortion(c) \in Nat
      BY <2>1, PayAssumption DEF LightningPortion, CallTypes, Balances
    <2>3. CASE UNCHANGED funds
      BY <1>1, <2>1, <2>3
    <2>4. CASE /\ LightningPortion(c) <= funds.lightning
               /\ funds' = [funds EXCEPT !.lightning = funds.lightning - LightningPortion(c)]
      <3>1. funds.lightning - LightningPortion(c) \in Nat
        BY <1>0, <2>2, <2>4
      <3> QED
        BY <1>2, <2>1, <2>4, <3>1
    <2> QED
      BY <1>6, <2>3, <2>4 DEF PayUnderpaying, Send
  <1>7. ASSUME NEW i \in DOMAIN melts, PrepareMelt(i) \/ FailMelt(i) PROVE FundsTypes'
    <2>1. PICK a \in Nat : a = quotes[melts[i].q].amt
      <3>1. melts[i].q \in DOMAIN quotes /\ quotes \in Seq(QuoteRec)
        BY DEF WalletTypes
      <3>2. quotes[melts[i].q] \in QuoteRec
        BY <3>1
      <3> QED
        BY <3>2, PayAssumption DEF QuoteRec
    <2>2. UNCHANGED uri
      BY <1>7 DEF PrepareMelt, FailMelt
    <2>3. CASE UNCHANGED funds
      BY <1>1, <2>2, <2>3
    <2>4. CASE a <= funds.trusted /\ funds' = [funds EXCEPT !.trusted = funds.trusted - a]
      <3>1. funds.trusted - a \in Nat
        BY <1>0, <2>1, <2>4
      <3> QED
        BY <1>2, <2>2, <2>4, <3>1
    <2>5. CASE funds' = [funds EXCEPT !.trusted = funds.trusted + a]
      <3>1. funds.trusted + a \in Nat
        BY <1>0, <2>1, <2>5
      <3> QED
        BY <1>2, <2>2, <2>5, <3>1
    <2> QED
      BY <1>7, <2>1, <2>3, <2>4, <2>5 DEF PrepareMelt, FailMelt
  <1>8. ASSUME NEW x \in DOMAIN sent, FailSent(x) PROVE FundsTypes'
    <2>1. PICK a \in Nat : a = sent[x].amt
      BY DEF WalletTypes, SentRec
    <2>2. UNCHANGED uri /\ funds' = [funds EXCEPT !.lightning = funds.lightning + a]
      BY <1>8, <2>1 DEF FailSent
    <2>3. funds.lightning + a \in Nat
      BY <1>0, <2>1
    <2> QED
      BY <1>2, <2>2, <2>3
  <1>9. ASSUME NEW c \in Calls,
               \/ StartPay(c) \/ SkipTrusted(c) \/ EstimateTrusted(c) \/ PayTrusted(c) \/ InsertTrusted(c)
               \/ SkipLightning(c) \/ WriteSpliceOut(c) \/ UpsertLightning(c)
               \/ SkipMpp(c) \/ PayPartial(c) \/ InsertSurface(c) \/ UpsertLeg(c)
               \/ ReturnErr(c) \/ Drop(c)
        PROVE  UNCHANGED <<funds, uri>>
    BY <1>9 DEF StartPay, SkipTrusted, EstimateTrusted, PayTrusted, InsertTrusted, SkipLightning,
                WriteSpliceOut, UpsertLightning, SkipMpp, PayPartial, InsertSurface, UpsertLeg,
                ReturnErr, Drop
  <1>10. ASSUME \/ \E i \in DOMAIN melts : ReportMelt(i)
                \/ \E x \in DOMAIN sent : ReportSent(x) \/ SpliceNegotiated(x)
                \/ \E r \in Requests : Claim(r) \/ Settle(r)
         PROVE  UNCHANGED <<funds, uri>>
    BY <1>10 DEF ReportMelt, ReportSent, SpliceNegotiated, Claim, Settle, Pay
  <1> QED
    BY <1>1, <1>3, <1>4, <1>5, <1>6, <1>7, <1>8, <1>9, <1>10 DEF Next


\* Every step, as what it does to the calls and to the payments.
LEMMA Steps ==
    ASSUME PayTypes, Next
    PROVE  \/ UNCHANGED Ledger
           \/ \E c \in Calls : CallStep(c)
           \/ OtherStep
  <1>1. CASE get_single_use_receive_uri \/ Received
    BY <1>1 DEF get_single_use_receive_uri, Received, Ledger
  <1>2. ASSUME NEW c \in Calls,
               \/ StartPay(c) \/ SkipTrusted(c) \/ EstimateTrusted(c) \/ PayTrusted(c) \/ InsertTrusted(c)
               \/ SkipLightning(c) \/ PayLightning(c) \/ WriteSpliceOut(c) \/ UpsertLightning(c)
               \/ SkipMpp(c) \/ PayPartial(c) \/ PayUnderpaying(c) \/ InsertSurface(c) \/ UpsertLeg(c)
               \/ ReturnErr(c) \/ Drop(c)
        PROVE  CallStep(c)
    BY <1>2, QuietSteps, PaySteps, SendSteps, RecordSteps, Zenon DEF CallStep
  <1>3. CASE \/ \E i \in DOMAIN melts : PrepareMelt(i) \/ FailMelt(i)
             \/ \E x \in DOMAIN sent : FailSent(x)
             \/ \E r \in Requests : Claim(r) \/ Settle(r)
    BY <1>3, SettleSteps, Zenon DEF PayTypes, OtherStep
  <1>4. CASE \/ \E i \in DOMAIN melts : ReportMelt(i)
             \/ \E x \in DOMAIN sent : ReportSent(x) \/ SpliceNegotiated(x)
    BY <1>4, ReportSteps, Zenon DEF PayTypes, OtherStep
  <1> QED
    BY <1>1, <1>2, <1>3, <1>4, Zenon DEF Next

\* What the wallets and the metadata store hold keeps its types.
LEMMA CallWalletTypes ==
    ASSUME WalletTypes, StartedInv, NEW c \in Calls, CallStep(c)
    PROVE  WalletTypes'
  <1>0. /\ quotes \in Seq(QuoteRec) /\ melts \in Seq(MeltRec)
        /\ \A i \in DOMAIN melts : melts[i].q \in DOMAIN quotes
        /\ sent \in [DOMAIN sent -> SentRec] /\ DOMAIN sent \subseteq SentIds
        /\ mem \in [DOMAIN mem -> Entry] /\ DOMAIN mem \subseteq Ids
        /\ \A k \in DOMAIN mem : mem[k].ty = "pending" => k[1] = "self"
    BY DEF WalletTypes
  <1>1. CASE Quieted(c)
    <2>1. UNCHANGED <<melts, sent, splices, mem>>
      BY <1>1 DEF Quieted
    <2>2. quotes' \in Seq(QuoteRec) /\ DOMAIN quotes \subseteq DOMAIN quotes'
      BY <1>0, <1>1 DEF Quieted, Quoted
    <2> QED
      BY <1>0, <2>1, <2>2 DEF WalletTypes
  <1>2. ASSUME NEW q, Reused(c, q) PROVE WalletTypes'
    <2>1. UNCHANGED <<quotes, sent, splices, mem>> /\ q \in DOMAIN quotes /\ Melted(q)
      BY <1>2 DEF Reused, Active
    <2>2. melts' \in Seq(MeltRec) /\ \A i \in DOMAIN melts' : melts'[i].q \in DOMAIN quotes
      BY <1>0, <2>1 DEF Melted
    <2> QED
      BY <1>0, <2>1, <2>2 DEF WalletTypes
  <1>3. ASSUME NEW p, NEW q, NEW r, Begun(c, p, q, r) PROVE WalletTypes'
    <2>1. UNCHANGED <<sent, splices, mem>> /\ Quoted(q, r) /\ Melted(q)
      BY <1>3 DEF Begun
    <2>2. /\ quotes' \in Seq(QuoteRec) /\ DOMAIN quotes' = DOMAIN quotes \cup {q}
      BY <2>1 DEF Quoted
    <2>3. melts' \in Seq(MeltRec) /\ \A i \in DOMAIN melts' : melts'[i].q \in DOMAIN quotes'
      BY <1>0, <2>1, <2>2 DEF Melted
    <2> QED
      BY <1>0, <2>1, <2>2, <2>3 DEF WalletTypes
  <1>4. ASSUME NEW x \in SentIds, NEW a, SentAs(x, a) PROVE WalletTypes'
    BY <1>0, <1>4 DEF SentAs, WalletTypes
  <1>5. CASE Spliced(c) \/ SpliceWritten(c)
    <2>1. ByCall(c) \in SentIds
      BY DEF SentIds
    <2>2. CASE Spliced(c)
      BY <1>4, <2>1, <2>2 DEF Spliced
    <2>3. CASE SpliceWritten(c)
      BY <1>0, <2>3 DEF SpliceWritten, WalletTypes
    <2> QED
      BY <1>5, <2>2, <2>3
  <1>6. ASSUME NEW p, NEW id \in Ids, NEW e \in Entry, e.ty # "pending", Recorded(c, p, id, e)
        PROVE  WalletTypes'
    <2>1. /\ mem' \in [DOMAIN mem' -> Entry] /\ DOMAIN mem' = DOMAIN mem \cup {id}
          /\ mem'[id] = e /\ \A k \in DOMAIN mem : k # id => mem'[k] = mem[k]
      BY <1>0, <1>6 DEF Recorded, With
    <2>2. UNCHANGED <<quotes, melts, sent, splices>>
      BY <1>6 DEF Recorded
    <2>3. \A k \in DOMAIN mem' : mem'[k].ty = "pending" => k[1] = "self"
      BY <1>0, <1>6, <2>1
    <2> QED
      BY <1>0, <2>1, <2>2, <2>3 DEF WalletTypes
  <1>7. ASSUME call[c].pc \in {"insert", "upsert", "leg", "surface", "legs"} PROVE call[c].id \in Ids
    <2>1. DOMAIN quotes \subseteq Nat
      BY <1>0
    <2> QED
      BY <1>7, <2>1, IdsAre DEF StartedInv
  <1>8. CASE RecordedPlain(c)
    <2>1. Plain \in Entry /\ Plain.ty # "pending"
      BY DEF Plain, Entry
    <2> QED
      BY <1>6, <1>7, <1>8, <2>1 DEF RecordedPlain
  <1>9. CASE RecordedSplit(c)
    <2>1. call[c].pc \in {"surface", "legs"} /\ call[c].id \in Ids
      BY <1>7, <1>9 DEF RecordedSplit
    <2>2. Split(c) \in Entry /\ Split(c).ty # "pending"
      BY <2>1 DEF Split, Entry
    <2>3. call[c].leg \in Ids
      <3>1. PICK r \in Reqs : call[c].leg = SelfCustodial(ByHash(r))
        BY <2>1 DEF StartedInv
      <3> QED
        BY <3>1, IdsAre DEF SentIds
    <2> QED
      BY <1>6, <1>9, <2>1, <2>2, <2>3 DEF RecordedSplit
  <1>10. ASSUME NEW r \in Reqs, SentLeg(c, r) PROVE WalletTypes'
    <2>1. ByHash(r) \in SentIds
      BY DEF SentIds
    <2> QED
      BY <1>4, <1>10, <2>1 DEF SentLeg
  <1>11. ASSUME NEW x \in SentIds, SentWhole(c, x) PROVE WalletTypes'
    BY <1>4, <1>11 DEF SentWhole
  <1> QED
    BY <1>1, <1>2, <1>3, <1>5, <1>8, <1>9, <1>10, <1>11, Zenon DEF CallStep

\* Setting a preimage, or reserving a record, keeps the types of the records.
LEMMA OtherRecords ==
    ASSUME WalletTypes, OtherStep
    PROVE  /\ mem' \in [DOMAIN mem' -> Entry] /\ DOMAIN mem' \subseteq Ids
           /\ \A k \in DOMAIN mem' : mem'[k].ty = "pending" => k[1] = "self"
           /\ DOMAIN mem \subseteq DOMAIN mem'
           /\ \A k \in DOMAIN mem : mem'[k].ty = mem[k].ty /\ (mem[k].ty = "mpp" => mem'[k] = mem[k])
           /\ \A k \in DOMAIN mem' : k \notin DOMAIN mem => mem'[k].ty = "pending"
  <1>0. /\ mem \in [DOMAIN mem -> Entry] /\ DOMAIN mem \subseteq Ids /\ DOMAIN sent \subseteq SentIds
        /\ \A k \in DOMAIN mem : mem[k].ty = "pending" => k[1] = "self"
    BY DEF WalletTypes
  <1>1. CASE mem' = mem
    BY <1>0, <1>1
  <1>2. ASSUME NEW id, mem' = set_preimage(id)
        PROVE  /\ mem' \in [DOMAIN mem' -> Entry] /\ DOMAIN mem' = DOMAIN mem
               /\ \A k \in DOMAIN mem : mem'[k].ty = mem[k].ty /\ (mem[k].ty = "mpp" => mem'[k] = mem[k])
    BY <1>2, SetPreimageIs
  <1>3. ASSUME NEW x \in DOMAIN sent, SelfCustodial(x) \notin DOMAIN mem,
               mem' = With(mem, SelfCustodial(x), [ty |-> "pending"])
        PROVE  /\ mem' \in [DOMAIN mem' -> Entry] /\ DOMAIN mem' = DOMAIN mem \cup {SelfCustodial(x)}
               /\ mem'[SelfCustodial(x)].ty = "pending" /\ \A k \in DOMAIN mem : mem'[k] = mem[k]
               /\ SelfCustodial(x) \in Ids /\ SelfCustodial(x)[1] = "self"
    <2>1. [ty |-> "pending"] \in Entry
      BY DEF Entry
    <2>2. mem' \in [DOMAIN mem' -> Entry]
      BY <1>0, <1>3, <2>1, WithType
    <2>3. SelfCustodial(x) \in Ids /\ SelfCustodial(x)[1] = "self"
      BY <1>0, IdsAre, IdsApart
    <2> QED
      BY <1>3, <2>2, <2>3 DEF With
  <1>4. \/ mem' = mem \/ \E id : mem' = set_preimage(id)
        \/ \E x \in DOMAIN sent : /\ SelfCustodial(x) \notin DOMAIN mem
                                  /\ mem' = With(mem, SelfCustodial(x), [ty |-> "pending"])
    BY DEF OtherStep, Settled, MeltReported, SentReported, Negotiated
  <1> QED
    BY <1>0, <1>1, <1>2, <1>3, <1>4

\* Settling and reporting keep the types.
LEMMA OtherWalletTypes ==
    ASSUME WalletTypes, OtherStep
    PROVE  WalletTypes'
  <1>0. /\ quotes \in Seq(QuoteRec) /\ melts \in Seq(MeltRec)
        /\ \A i \in DOMAIN melts : melts[i].q \in DOMAIN quotes
        /\ sent \in [DOMAIN sent -> SentRec] /\ DOMAIN sent \subseteq SentIds
    BY DEF WalletTypes
  <1>1. /\ melts' \in Seq(MeltRec) /\ DOMAIN melts' = DOMAIN melts
        /\ \A i \in DOMAIN melts : melts'[i].q = melts[i].q
        /\ sent' \in [DOMAIN sent' -> SentRec] /\ DOMAIN sent' = DOMAIN sent /\ quotes' = quotes
    BY <1>0 DEF OtherStep, Settled, MeltReported, SentReported, Negotiated
  <1> QED
    BY <1>0, <1>1, OtherRecords DEF WalletTypes

\* What a call has started.
LEMMA StartedStep ==
    ASSUME WalletTypes, StartedInv, NEW c \in Calls, CallStep(c)
    PROVE  StartedInv'
  <1> DEFINE OK(e) ==
        /\ call'[e].pc \in {"insert", "leg", "surface", "legs"} =>
              \E q \in DOMAIN quotes' : call'[e].id = Trusted(q)
        /\ call'[e].pc = "ok" => \/ \E q \in DOMAIN quotes' : call'[e].id = Trusted(q)
                                 \/ \E x \in SentIds : call'[e].id = SelfCustodial(x) /\ call'[e].leg = None
        /\ call'[e].pc \in {"splice", "upsert"} => \E x \in SentIds : call'[e].id = SelfCustodial(x)
        /\ call'[e].pc = "splice" => call'[e].id = SelfCustodial(ByCall(e))
        /\ call'[e].pc \in {"surface", "legs"} => call'[e].leg # None
        /\ call'[e].pc \notin {"surface", "legs", "ok", "dropped"} => call'[e].leg = None
        /\ call'[e].leg # None => \E r \in Reqs : call'[e].leg = SelfCustodial(ByHash(r))
  <1>1. /\ DOMAIN quotes \subseteq DOMAIN quotes'
        /\ \A e \in Calls \ {c} : call'[e] = call[e]
    BY DEF CallStep, Quieted, Reused, Begun, SentWhole, SentLeg, SentAs, Spliced, SpliceWritten,
           RecordedPlain, RecordedSplit, Recorded, Quoted, Moves
  <1>2. \A e \in Calls \ {c} : OK(e)
    BY <1>1 DEF StartedInv
  <1>3. OK(c)
    <2>1. CASE Quieted(c)
      BY <2>1 DEF Quieted, StartedInv
    <2>2. ASSUME NEW q, Reused(c, q) PROVE OK(c)
      BY <2>2 DEF Reused, Moves, Active, StartedInv
    <2>3. ASSUME NEW p, NEW q, NEW r, Begun(c, p, q, r) PROVE OK(c)
      BY <2>3 DEF Begun, Quoted, Moves, StartedInv
    <2>4. ASSUME NEW x \in SentIds, SentWhole(c, x) PROVE OK(c)
      BY <2>4 DEF SentWhole, Moves, StartedInv
    <2>5. ASSUME NEW r \in Reqs, SentLeg(c, r) PROVE OK(c)
      <3>1. SelfCustodial(ByHash(r)) # None
        BY IdsAre DEF SentIds
      <3> QED
        BY <2>5, <3>1 DEF SentLeg, SentAs, Moves, StartedInv
    <2>6. CASE Spliced(c) \/ SpliceWritten(c)
      BY <2>6 DEF Spliced, SpliceWritten, Moves, StartedInv, SentIds
    <2>7. CASE RecordedPlain(c)
      BY <2>7 DEF RecordedPlain, Recorded, Moves, StartedInv
    <2>8. CASE RecordedSplit(c)
      BY <2>8 DEF RecordedSplit, Recorded, Moves, StartedInv
    <2> HIDE DEF OK
    <2> QED
      BY <2>1, <2>2, <2>3, <2>4, <2>5, <2>6, <2>7, <2>8, Zenon DEF CallStep
  <1> QED
    BY <1>2, <1>3 DEF StartedInv

\* What calls have started is left alone by the others.
LEMMA OtherStarted ==
    ASSUME StartedInv, UNCHANGED <<quotes, call>>
    PROVE  StartedInv'
  BY DEF StartedInv


(***************************************************************************)
(* The steps of a call, and the other calls.                               *)
(***************************************************************************)

\* What a call's step leaves alone: other calls, earlier quotes, the marks.
LEMMA CallStepFrame ==
    ASSUME WalletTypes, NEW c \in Calls, CallStep(c)
    PROVE  /\ \A e \in Calls \ {c} : call'[e] = call[e]
           /\ call'[c].pc # "idle"
           /\ DOMAIN quotes \subseteq DOMAIN quotes'
           /\ \A q \in DOMAIN quotes : quotes'[q] = quotes[q]
           /\ reinserted \subseteq reinserted'
           /\ \A e \in Calls \ {c} : ~Alone(e)'
           /\ Alone(c)' => Alone(c)
  <1>1. /\ \A e \in Calls \ {c} : call'[e] = call[e]
        /\ call'[c].pc # "idle"
        /\ DOMAIN quotes \subseteq DOMAIN quotes'
        /\ \A q \in DOMAIN quotes : quotes'[q] = quotes[q]
        /\ reinserted \subseteq reinserted'
    <2>1. CASE Quieted(c)
      BY <2>1 DEF Quieted, Quoted
    <2>2. ASSUME NEW q, Reused(c, q)
          PROVE  /\ \A e \in Calls \ {c} : call'[e] = call[e]
                 /\ call'[c].pc # "idle"
                 /\ quotes' = quotes /\ reinserted \subseteq reinserted'
      BY <2>2 DEF Reused, Moves
    <2>3. ASSUME NEW p, NEW q, NEW r, Begun(c, p, q, r)
          PROVE  /\ \A e \in Calls \ {c} : call'[e] = call[e]
                 /\ call'[c].pc # "idle"
                 /\ DOMAIN quotes \subseteq DOMAIN quotes'
                 /\ \A k \in DOMAIN quotes : quotes'[k] = quotes[k]
                 /\ reinserted \subseteq reinserted'
      BY <2>3 DEF Begun, Quoted, Moves
    <2>4. CASE \/ \E x \in SentIds : SentWhole(c, x)
               \/ \E r \in Reqs : SentLeg(c, r)
               \/ Spliced(c) \/ SpliceWritten(c)
      BY <2>4 DEF SentWhole, SentLeg, SentAs, Spliced, SpliceWritten, Moves
    <2>5. CASE RecordedPlain(c) \/ RecordedSplit(c)
      BY <2>5 DEF RecordedPlain, RecordedSplit, Recorded, Moves
    <2> QED
      BY <2>1, <2>2, <2>3, <2>4, <2>5 DEF CallStep
  <1>2. \A e \in Calls \ {c} : ~Alone(e)'
    BY <1>1 DEF Alone
  <1>3. Alone(c)' => Alone(c)
    BY <1>1 DEF Alone
  <1> QED
    BY <1>1, <1>2, <1>3

\* The trusted payment of a call is one of the wallet's.
LEMMA TrustedOf ==
    ASSUME StartedInv, NEW c \in Calls, NEW q, call[c].id = Trusted(q),
           call[c].pc \in {"insert", "leg", "surface", "legs", "ok"}
    PROVE  q \in DOMAIN quotes
  BY IdsApart DEF StartedInv

\* A splice out has the id of its call, whatever step a call takes.
LEMMA SpliceStep ==
    ASSUME StartedInv, SpliceInv, NEW c \in Calls, CallStep(c)
    PROVE  SpliceInv'
  <1>1. CASE SpliceWritten(c)
    <2>1. call[c].id = SelfCustodial(ByCall(c))
      BY <1>1 DEF SpliceWritten, StartedInv
    <2> QED
      BY <1>1, <2>1 DEF SpliceWritten, SpliceInv
  <1>2. CASE splices' = splices
    BY <1>2 DEF SpliceInv
  <1> QED
    BY <1>1, <1>2 DEF CallStep, Quieted, Reused, Begun, SentWhole, SentLeg, SentAs, Spliced,
                      RecordedPlain, RecordedSplit, Recorded


(***************************************************************************)
(* The splits.                                                             *)
(***************************************************************************)

\* What a step of a call does to the metadata.
LEMMA CallMem ==
    ASSUME NEW c \in Calls, CallStep(c)
    PROVE  \/ mem' = mem
           \/ RecordedPlain(c) /\ mem' = With(mem, call[c].id, Plain)
           \/ RecordedSplit(c) /\ \/ call[c].pc = "surface" /\ mem' = With(mem, call[c].id, Split(c))
                                  \/ call[c].pc = "legs" /\ mem' = With(mem, call[c].leg, Split(c))
  BY DEF CallStep, Quieted, Reused, Begun, SentWhole, SentLeg, SentAs, Spliced, SpliceWritten,
         RecordedPlain, RecordedSplit, Recorded

\* A plain record that is written over another one is marked.
LEMMA PlainOver ==
    ASSUME StartedInv, NEW c \in Calls, RecordedPlain(c), NEW q, call[c].id = Trusted(q),
           Trusted(q) \in DOMAIN mem
    PROVE  Trusted(q) \in reinserted'
  <1>1. call[c].pc # "upsert"
    <2> SUFFICES ASSUME call[c].pc = "upsert" PROVE FALSE
      OBVIOUS
    <2>1. PICK x \in SentIds : call[c].id = SelfCustodial(x)
      BY DEF StartedInv
    <2> QED
      BY <2>1, IdsApart
  <1> QED
    BY <1>1 DEF RecordedPlain

\* The entry of a trusted leg stays one, unless it is marked.
LEMMA SplitStays ==
    ASSUME WalletTypes, StartedInv, NEW c \in Calls, CallStep(c), NEW q,
           Trusted(q) \in reinserted \/ TypeIn(mem, Trusted(q)) = "mpp"
    PROVE  Trusted(q) \in reinserted' \/ TypeIn(mem', Trusted(q)) = "mpp"
  <1>1. CASE Trusted(q) \in reinserted
    BY <1>1, CallStepFrame
  <1>2. CASE TypeIn(mem, Trusted(q)) = "mpp" /\ mem' = mem
    BY <1>2
  <1>3. CASE TypeIn(mem, Trusted(q)) = "mpp" /\ RecordedPlain(c) /\ mem' = With(mem, call[c].id, Plain)
    <2>1. Trusted(q) \in DOMAIN mem
      BY <1>3 DEF TypeIn
    <2>2. CASE call[c].id = Trusted(q)
      BY <1>3, <2>1, <2>2, PlainOver
    <2>3. CASE call[c].id # Trusted(q)
      BY <1>3, <2>3 DEF With, TypeIn
    <2> QED
      BY <2>2, <2>3
  <1>4. ASSUME TypeIn(mem, Trusted(q)) = "mpp", NEW id, mem' = With(mem, id, Split(c))
        PROVE  TypeIn(mem', Trusted(q)) = "mpp"
    BY <1>4 DEF With, TypeIn, Split
  <1> QED
    BY <1>1, <1>2, <1>3, <1>4, CallMem

\* A call that has recorded the first leg of its split finds it so.
LEMMA CallSplits ==
    ASSUME WalletTypes, StartedInv, SplitInv, NEW c \in Calls, CallStep(c)
    PROVE  SplitCalls'
  <1> SUFFICES ASSUME NEW e \in Calls, call'[e].pc = "legs"
               PROVE  call'[e].id \in reinserted' \/ TypeIn(mem', call'[e].id) = "mpp"
    BY DEF SplitCalls
  <1>1. CASE e # c
    <2>1. call'[e] = call[e]
      BY <1>1, CallStepFrame
    <2>2. PICK q \in DOMAIN quotes : call[e].id = Trusted(q)
      BY <2>1 DEF StartedInv
    <2>3. Trusted(q) \in reinserted \/ TypeIn(mem, Trusted(q)) = "mpp"
      BY <2>1, <2>2 DEF SplitInv, SplitCalls
    <2> QED
      BY <2>1, <2>2, <2>3, SplitStays
  <1>2. CASE e = c
    <2>1. mem' = With(mem, call[c].id, Split(c)) /\ call'[c].id = call[c].id
      BY <1>2 DEF CallStep, Quieted, Reused, Begun, SentWhole, SentLeg, Spliced, SpliceWritten,
                  RecordedPlain, RecordedSplit, Recorded, Moves
    <2> QED
      BY <1>2, <2>1 DEF With, TypeIn, Split
  <1> QED
    BY <1>1, <1>2

\* Each entry of a split has the surface of its trusted leg.
LEMMA CallEntries ==
    ASSUME WalletTypes, StartedInv, SplitInv, NEW c \in Calls, CallStep(c)
    PROVE  SplitEntries'
  <1>0. \A k \in DOMAIN mem : mem[k].ty = "mpp" =>
           \E q \in DOMAIN quotes :
              /\ mem[k].surface = Trusted(q)
              /\ k[1] = "trusted" => k = Trusted(q)
              /\ k[1] = "self" => Trusted(q) \in reinserted \/ TypeIn(mem, Trusted(q)) = "mpp"
    BY DEF SplitInv, SplitEntries
  <1>1. DOMAIN quotes \subseteq DOMAIN quotes'
    BY CallStepFrame
  <1> SUFFICES ASSUME NEW k \in DOMAIN mem', mem'[k].ty = "mpp"
               PROVE  \E q \in DOMAIN quotes' :
                         /\ mem'[k].surface = Trusted(q)
                         /\ k[1] = "trusted" => k = Trusted(q)
                         /\ k[1] = "self" => Trusted(q) \in reinserted' \/ TypeIn(mem', Trusted(q)) = "mpp"
    BY DEF SplitEntries
  <1>2. CASE k \in DOMAIN mem /\ mem'[k] = mem[k]
    <2>1. PICK q \in DOMAIN quotes :
              /\ mem[k].surface = Trusted(q)
              /\ k[1] = "trusted" => k = Trusted(q)
              /\ k[1] = "self" => Trusted(q) \in reinserted \/ TypeIn(mem, Trusted(q)) = "mpp"
      BY <1>0, <1>2
    <2>2. k[1] = "self" => Trusted(q) \in reinserted' \/ TypeIn(mem', Trusted(q)) = "mpp"
      BY <2>1, SplitStays
    <2> QED
      BY <1>1, <1>2, <2>1, <2>2
  <1>3. CASE RecordedPlain(c) /\ mem' = With(mem, call[c].id, Plain)
    <2>1. k \in DOMAIN mem /\ mem'[k] = mem[k]
      BY <1>3 DEF With, Plain
    <2> QED
      BY <1>2, <2>1
  <1>4. ASSUME NEW id, mem' = With(mem, id, Split(c)), call[c].pc \in {"surface", "legs"},
               call[c].pc = "surface" => id = call[c].id, call[c].pc = "legs" => id = call[c].leg
        PROVE  \E q \in DOMAIN quotes' :
                  /\ mem'[k].surface = Trusted(q)
                  /\ k[1] = "trusted" => k = Trusted(q)
                  /\ k[1] = "self" => Trusted(q) \in reinserted' \/ TypeIn(mem', Trusted(q)) = "mpp"
    <2>1. PICK q \in DOMAIN quotes : call[c].id = Trusted(q)
      BY <1>4 DEF StartedInv
    <2>2. CASE k # id
      BY <1>2, <1>4, <2>2 DEF With
    <2>3. CASE k = id /\ call[c].pc = "surface"
      <3>1. mem'[k].surface = Trusted(q) /\ k = Trusted(q)
        BY <1>4, <2>1, <2>3 DEF With, Split
      <3>2. k[1] # "self"
        BY <3>1, IdsApart
      <3> QED
        BY <1>1, <3>1, <3>2
    <2>4. CASE k = id /\ call[c].pc = "legs"
      <3>1. mem'[k].surface = Trusted(q) /\ k = call[c].leg
        BY <1>4, <2>1, <2>4 DEF With, Split
      <3>2. \E r \in Reqs : call[c].leg = SelfCustodial(ByHash(r))
        BY <2>4 DEF StartedInv
      <3>3. k[1] = "self"
        BY <3>1, <3>2, IdsApart
      <3>4. Trusted(q) \in reinserted \/ TypeIn(mem, Trusted(q)) = "mpp"
        BY <2>1, <2>4 DEF SplitInv, SplitCalls
      <3>5. Trusted(q) \in reinserted' \/ TypeIn(mem', Trusted(q)) = "mpp"
        BY <3>4, SplitStays
      <3> QED
        BY <1>1, <3>1, <3>3, <3>5
    <2> QED
      BY <1>4, <2>2, <2>3, <2>4
  <1> QED
    BY <1>2, <1>3, <1>4, CallMem

\* A call's step keeps both parts of SplitInv.
LEMMA CallSplit ==
    ASSUME WalletTypes, StartedInv, SplitInv, NEW c \in Calls, CallStep(c)
    PROVE  SplitInv'
  BY CallSplits, CallEntries DEF SplitInv

\* The metadata but for the preimages and the records that are reserved.
SameTypes ==
    /\ DOMAIN mem \subseteq DOMAIN mem'
    /\ \A k \in DOMAIN mem : mem'[k].ty = mem[k].ty /\ (mem[k].ty = "mpp" => mem'[k] = mem[k])
    /\ \A k \in DOMAIN mem' : k \notin DOMAIN mem => mem'[k].ty = "pending"

\* Settling and reporting change no entry but for a preimage.
LEMMA OtherMem ==
    ASSUME WalletTypes, OtherStep
    PROVE  SameTypes /\ UNCHANGED <<quotes, splices, call, reinserted>>
  <1>1. SameTypes
    BY OtherRecords DEF SameTypes
  <1>2. UNCHANGED <<quotes, splices, call, reinserted>>
    BY DEF OtherStep, Settled, MeltReported, SentReported, Negotiated
  <1> QED
    BY <1>1, <1>2

\* Settling and reporting leave the splits alone.
LEMMA OtherSplit ==
    ASSUME SplitInv, SameTypes, UNCHANGED <<quotes, call, reinserted>>
    PROVE  SplitInv'
  <1>1. \A k : TypeIn(mem, k) = "mpp" => TypeIn(mem', k) = "mpp"
    BY DEF SameTypes, TypeIn
  <1>2. SplitCalls'
    BY <1>1 DEF SplitInv, SplitCalls
  <1>3. \A k \in DOMAIN mem' : mem'[k].ty = "mpp" => k \in DOMAIN mem /\ mem'[k] = mem[k]
    BY DEF SameTypes
  <1>4. SplitEntries'
    BY <1>1, <1>3 DEF SplitInv, SplitEntries
  <1> QED
    BY <1>2, <1>4 DEF SplitInv

\* What pay has returned.
LEMMA CallReturned ==
    ASSUME WalletTypes, StartedInv, ReturnedInv, NEW c \in Calls, CallStep(c)
    PROVE  ReturnedInv'
  <1>0. \A e \in Calls :
           /\ call[e].pc \in {"legs", "ok"} => call[e].id \in DOMAIN mem
    BY DEF ReturnedInv
  <1>s. SUFFICES ASSUME NEW e \in Calls
                 PROVE  /\ call'[e].pc \in {"legs", "ok"} => call'[e].id \in DOMAIN mem'
                        /\ call'[e].pc = "ok" /\ Alone(e)' =>
                              /\ call'[e].id[1] = "self" => mem'[call'[e].id].ty = "payment"
                              /\ call'[e].leg # None => TypeIn(mem', call'[e].leg) = "mpp"
    BY DEF ReturnedInv
  <1>1. DOMAIN mem \subseteq DOMAIN mem'
    BY CallMem DEF With
  <1>2. CASE e # c
    BY <1>0, <1>1, <1>2, CallStepFrame
  <1>3. CASE e = c /\ \/ Quieted(c) \/ (\E q : Reused(c, q)) \/ (\E p, q, r : Begun(c, p, q, r))
                      \/ (\E x \in SentIds : SentWhole(c, x)) \/ (\E r \in Reqs : SentLeg(c, r))
                      \/ Spliced(c) \/ SpliceWritten(c)
    BY <1>3 DEF Quieted, Reused, Begun, SentWhole, SentLeg, Spliced, SpliceWritten, Moves
  <1>4. CASE e = c /\ RecordedPlain(c)
    <2>1. /\ mem' = With(mem, call[e].id, Plain) /\ call'[e].id = call[e].id
          /\ call'[e].leg = call[e].leg
          /\ \/ call[e].pc \in {"insert", "upsert"} /\ call'[e].pc = "ok"
             \/ call'[e].pc = "try"
      BY <1>4 DEF RecordedPlain, Recorded, Moves
    <2>2. call[e].pc \in {"insert", "upsert"} => call[e].leg = None
      BY DEF StartedInv
    <2>3. call[e].id \in DOMAIN mem' /\ mem'[call[e].id].ty = "payment"
      BY <2>1 DEF With, Plain
    <2> QED
      BY <2>1, <2>2, <2>3
  <1>5. CASE e = c /\ RecordedSplit(c)
    <2>1. CASE call[e].pc = "surface"
      <3>1. /\ mem' = With(mem, call[e].id, Split(c)) /\ call'[e].id = call[e].id /\ call'[e].pc = "legs"
        BY <1>5, <2>1 DEF RecordedSplit, Recorded, Moves
      <3> QED
        BY <3>1 DEF With
    <2>2. CASE call[e].pc = "legs"
      <3>1. /\ mem' = With(mem, call[e].leg, Split(c)) /\ call'[e].id = call[e].id
            /\ call'[e].leg = call[e].leg
        BY <1>5, <2>2 DEF RecordedSplit, Recorded
      <3>2. call[e].id[1] = "trusted" /\ call[e].id \in DOMAIN mem
        BY <1>0, <2>2, IdsApart DEF StartedInv
      <3>3. TypeIn(mem', call[e].leg) = "mpp"
        BY <3>1 DEF With, TypeIn, Split
      <3> QED
        BY <1>1, <3>1, <3>2, <3>3
    <2> QED
      BY <1>5, <2>1, <2>2 DEF RecordedSplit
  <1> QED
    BY <1>2, <1>3, <1>4, <1>5 DEF CallStep

\* Settling and reporting leave the ids that were returned alone.
LEMMA OtherReturned ==
    ASSUME ReturnedInv, SameTypes, UNCHANGED call
    PROVE  ReturnedInv'
  <1>1. \A k : TypeIn(mem, k) = "mpp" => TypeIn(mem', k) = "mpp"
    BY DEF SameTypes, TypeIn
  <1>2. \A c : Alone(c)' <=> Alone(c)
    BY DEF Alone
  <1> QED
    BY <1>1, <1>2 DEF ReturnedInv, SameTypes


(***************************************************************************)
(* The invariant holds in every state.                                     *)
(***************************************************************************)

PayInv == PayTypes /\ StartedInv /\ SpliceInv /\ SplitInv /\ ReturnedInv

\* Every step keeps the types.
LEMMA TypesStep ==
    ASSUME PayTypes, StartedInv, Next
    PROVE  PayTypes'
  <1>1. FundsTypes'
    BY FundsStep
  <1>2. CallTypes'
    <2>1. ASSUME UNCHANGED call PROVE CallTypes'
      BY <2>1 DEF PayTypes, CallTypes, Placed
    <2>2. CASE get_single_use_receive_uri \/ Received
      BY <2>1, <2>2 DEF get_single_use_receive_uri, Received
    <2>3. CASE \/ \E i \in DOMAIN melts : PrepareMelt(i) \/ FailMelt(i) \/ ReportMelt(i)
               \/ \E x \in DOMAIN sent : FailSent(x) \/ ReportSent(x) \/ SpliceNegotiated(x)
               \/ \E r \in Requests : Claim(r) \/ Settle(r)
      BY <2>1, <2>3 DEF PrepareMelt, FailMelt, ReportMelt, FailSent, ReportSent, SpliceNegotiated,
                        Claim, Settle, Pay
    <2> QED
      BY <2>2, <2>3, CallStepTypes, Zenon DEF Next
  <1>3. WalletTypes'
    <2>1. CASE UNCHANGED Ledger
      BY <2>1 DEF Ledger, PayTypes, WalletTypes
    <2> QED
      BY <2>1, Steps, CallWalletTypes, OtherWalletTypes, Zenon DEF PayTypes
  <1> QED
    BY <1>1, <1>2, <1>3 DEF PayTypes

\* The invariant holds at first.
LEMMA PayInit == Init => PayInv
  <1> SUFFICES ASSUME Init PROVE PayInv
    OBVIOUS
  <1>0. /\ call = [c \in Calls |-> Idle] /\ quotes = <<>> /\ melts = <<>> /\ sent = <<>> /\ mem = <<>>
        /\ splices = {} /\ reinserted = {} /\ uri = None /\ funds \in Balances
    BY PayAssumption DEF Init, Balances
  <1>1. \A c \in Calls : call[c].pc = "idle" /\ call[c].leg = None /\ call[c].at = End
    BY <1>0 DEF Idle
  <1>2. CallTypes
    <2>1. Idle \in CallRec
      <3>1. "idle" \in PCs /\ End \in Places
        BY DEF PCs, Places
      <3> QED
        BY <3>1 DEF Idle, CallRec
    <2>2. call \in [Calls -> CallRec]
      BY <1>0, <2>1
    <2> QED
      BY <1>1, <2>2 DEF CallTypes
  <1>3. WalletTypes /\ FundsTypes
    <2>1. DOMAIN quotes = {} /\ DOMAIN melts = {} /\ DOMAIN sent = {} /\ DOMAIN mem = {}
      BY <1>0
    <2>2. quotes \in Seq(QuoteRec) /\ melts \in Seq(MeltRec)
      BY <1>0
    <2>3. sent \in [DOMAIN sent -> SentRec] /\ mem \in [DOMAIN mem -> Entry]
      BY <1>0, <2>1
    <2> QED
      BY <1>0, <2>1, <2>2, <2>3 DEF WalletTypes, FundsTypes
  <1>4. DOMAIN quotes = {} /\ DOMAIN melts = {} /\ DOMAIN sent = {} /\ DOMAIN mem = {}
    BY <1>0
  <1>5. StartedInv
    BY <1>1, <1>4 DEF StartedInv
  <1>6. SpliceInv /\ SplitInv /\ ReturnedInv
    BY <1>0, <1>1, <1>4 DEF SpliceInv, SplitInv, SplitCalls, SplitEntries, ReturnedInv
  <1> QED
    BY <1>2, <1>3, <1>5, <1>6 DEF PayInv, PayTypes

\* Every step keeps the invariant.
LEMMA PayStep ==
    ASSUME PayInv, [Next]_vars
    PROVE  PayInv'
  <1> USE DEF PayInv
  <1>1. CASE UNCHANGED Ledger /\ PayTypes'
    <2>1. UNCHANGED <<quotes, melts, sent, splices, mem, call, reinserted>>
      BY <1>1 DEF Ledger
    <2>2. SameTypes
      BY <2>1 DEF SameTypes
    <2>3. SpliceInv'
      BY <2>1 DEF SpliceInv
    <2> QED
      BY <1>1, <2>1, <2>2, <2>3, OtherStarted, OtherSplit, OtherReturned
  <1>2. CASE UNCHANGED vars
    <2>1. UNCHANGED Ledger /\ UNCHANGED <<funds, uri>>
      BY <1>2 DEF vars, Ledger
    <2>2. PayTypes'
      BY <2>1 DEF Ledger, PayTypes, WalletTypes, FundsTypes, CallTypes, Placed
    <2> QED
      BY <1>1, <2>1, <2>2
  <1>3. CASE Next
    <2>0. PayTypes' /\ WalletTypes
      BY <1>3, TypesStep DEF PayTypes
    <2>1. ASSUME NEW c \in Calls, CallStep(c) PROVE PayInv'
      BY <2>0, <2>1, StartedStep, SpliceStep, CallSplit, CallReturned
    <2>2. ASSUME OtherStep PROVE PayInv'
      <3>1. SameTypes /\ UNCHANGED <<quotes, splices, call, reinserted>>
        BY <2>0, <2>2, OtherMem
      <3>2. SpliceInv'
        BY <3>1 DEF SpliceInv
      <3> QED
        BY <2>0, <3>1, <3>2, OtherStarted, OtherSplit, OtherReturned
    <2> QED
      BY <1>1, <1>3, <2>0, <2>1, <2>2, Steps
  <1> QED
    BY <1>2, <1>3

\* PayInv is an invariant of pay.
LEMMA PayAlways == Spec => []PayInv
  BY PayInit, PayStep, PTL DEF Spec

\* The wallet, its payments, its balances and the calls of pay have their types
\* in every state.
THEOREM PayTypesHold == Spec => []TypeOK
  <1>1. Init => backend \in Backends
    BY DEF Init
  <1>2. [Next]_vars => UNCHANGED backend
    <2>1. \A c \in Calls :
             (\/ StartPay(c) \/ SkipTrusted(c) \/ EstimateTrusted(c) \/ PayTrusted(c) \/ InsertTrusted(c)
              \/ SkipLightning(c) \/ PayLightning(c) \/ WriteSpliceOut(c) \/ UpsertLightning(c)
              \/ SkipMpp(c) \/ PayPartial(c) \/ PayUnderpaying(c) \/ InsertSurface(c) \/ UpsertLeg(c)
              \/ ReturnErr(c) \/ Drop(c)) => UNCHANGED backend
      BY DEF StartPay, SkipTrusted, EstimateTrusted, PayTrusted, InsertTrusted, SkipLightning,
             PayLightning, WriteSpliceOut, UpsertLightning, SkipMpp, PayPartial, PayUnderpaying,
             InsertSurface, UpsertLeg, ReturnErr, Drop
    <2>2. \A i \in DOMAIN melts : PrepareMelt(i) \/ FailMelt(i) \/ ReportMelt(i) => UNCHANGED backend
      BY DEF PrepareMelt, FailMelt, ReportMelt
    <2>3. \A x \in DOMAIN sent : FailSent(x) \/ ReportSent(x) \/ SpliceNegotiated(x) => UNCHANGED backend
      BY DEF FailSent, ReportSent, SpliceNegotiated
    <2>4. \A r \in Requests : Claim(r) \/ Settle(r) => UNCHANGED backend
      BY DEF Claim, Settle, Pay
    <2>5. get_single_use_receive_uri \/ Received \/ UNCHANGED vars => UNCHANGED backend
      BY DEF get_single_use_receive_uri, Received, vars
    <2> QED
      BY <2>1, <2>2, <2>3, <2>4, <2>5, Zenon DEF Next
  <1>3. backend \in Backends /\ [Next]_vars => (backend \in Backends)'
    BY <1>2
  <1>4. PayInv /\ backend \in Backends => TypeOK
    <2> SUFFICES ASSUME PayTypes, backend \in Backends PROVE TypeOK
      BY DEF PayInv
    <2>1. \A w \in {"trusted", "lightning", "onchain"} : funds[w] \in Nat
      BY DEF PayTypes, FundsTypes, Balances
    <2>2. \A q \in DOMAIN quotes : quotes[q].amt \in 1..Amount
      <3>1. \A q \in DOMAIN quotes : quotes[q] \in QuoteRec
        BY DEF PayTypes, WalletTypes
      <3> QED
        BY <3>1 DEF QuoteRec
    <2>3. \A i \in DOMAIN melts : melts[i].q \in DOMAIN quotes /\ melts[i] \in MeltRec
      BY DEF PayTypes, WalletTypes
    <2>4. \A c \in Calls : call[c].pc \in PCs
      BY DEF PayTypes, CallTypes, CallRec
    <2> QED
      BY <2>1, <2>2, <2>3, <2>4 DEF TypeOK, MeltRec, PCs
  <1> QED
    BY <1>1, <1>3, <1>4, PayAlways, PTL DEF Spec

(***************************************************************************)
(* Wallet::list_transactions.                                              *)
(***************************************************************************)

AllPayments == TrustedPayments \cup LightningPayments

\* The wallets' payments, by their ids.
LEMMA TrustedPaymentIs ==
    ASSUME NEW p
    PROVE  p \in TrustedPayments <=>
              \E q \in DOMAIN quotes :
                 Attempts(q) # {} /\ p = Listed(Trusted(q), AttemptStatus(q), FALSE)
  BY DEF TrustedPayments

\* What the lightning wallet lists.
LEMMA LightningPaymentIs ==
    ASSUME NEW p
    PROVE  p \in LightningPayments <=>
              \E x \in DOMAIN sent :
                 /\ ~(sent[x].ty = "splice" /\ sent[x].st = "failed")
                 /\ p = Listed(SelfCustodial(x), sent[x].st, sent[x].ty \in {"onchain", "splice"})
  BY DEF LightningPayments

\* A payment of a wallet has an id of that wallet.
LEMMA PaymentIds ==
    ASSUME NEW p \in AllPayments
    PROVE  \/ \E q \in DOMAIN quotes : /\ p = Listed(Trusted(q), AttemptStatus(q), FALSE)
                                       /\ p.id = Trusted(q)
           \/ \E x \in DOMAIN sent :
                 /\ p = Listed(SelfCustodial(x), sent[x].st, sent[x].ty \in {"onchain", "splice"})
                 /\ p.id = SelfCustodial(x)
  <1>1. CASE p \in TrustedPayments
    <2>1. PICK q \in DOMAIN quotes : p = Listed(Trusted(q), AttemptStatus(q), FALSE)
      BY <1>1, TrustedPaymentIs
    <2>2. p.id = Trusted(q)
      BY <2>1 DEF Listed
    <2> QED
      BY <2>1, <2>2
  <1>2. CASE p \in LightningPayments
    <2>1. PICK x \in DOMAIN sent : p = Listed(SelfCustodial(x), sent[x].st, sent[x].ty \in {"onchain", "splice"})
      BY <1>2, LightningPaymentIs
    <2>2. p.id = SelfCustodial(x)
      BY <2>1 DEF Listed
    <2> QED
      BY <2>1, <2>2
  <1> QED
    BY <1>1, <1>2 DEF AllPayments

\* The wallets list one payment under an id.
LEMMA OneByOne ==
    ASSUME NEW p \in AllPayments, NEW r \in AllPayments, p.id = r.id
    PROVE  p = r
  <1>2. CASE \E q \in DOMAIN quotes : /\ p = Listed(Trusted(q), AttemptStatus(q), FALSE)
                                      /\ p.id = Trusted(q)
    <2>1. PICK q \in DOMAIN quotes : /\ p = Listed(Trusted(q), AttemptStatus(q), FALSE)
                                     /\ p.id = Trusted(q)
      BY <1>2
    <2>2. \A x : r.id # SelfCustodial(x)
      BY <2>1, IdsApart
    <2>3. PICK k \in DOMAIN quotes : /\ r = Listed(Trusted(k), AttemptStatus(k), FALSE)
                                     /\ r.id = Trusted(k)
      BY <2>2, PaymentIds
    <2>4. k = q
      BY <2>1, <2>3, IdsApart
    <2> QED
      BY <2>1, <2>3, <2>4
  <1>3. CASE \E x \in DOMAIN sent : /\ p = Listed(SelfCustodial(x), sent[x].st, sent[x].ty \in {"onchain", "splice"})
                                    /\ p.id = SelfCustodial(x)
    <2>1. PICK x \in DOMAIN sent : /\ p = Listed(SelfCustodial(x), sent[x].st, sent[x].ty \in {"onchain", "splice"})
                                   /\ p.id = SelfCustodial(x)
      BY <1>3
    <2>2. \A q : r.id # Trusted(q)
      BY <2>1, IdsApart
    <2>3. PICK y \in DOMAIN sent : /\ r = Listed(SelfCustodial(y), sent[y].st, sent[y].ty \in {"onchain", "splice"})
                                   /\ r.id = SelfCustodial(y)
      BY <2>2, PaymentIds
    <2>4. x = y
      BY <2>1, <2>3, IdsApart
    <2> QED
      BY <2>1, <2>3, <2>4
  <1> QED
    BY <1>2, <1>3, PaymentIds

\* The three kinds of transaction: a payment, a split and a splice out.
Shown(p) == \/ TypeIn(mem, p.id) = "payment"
            \/ TypeIn(mem, p.id) = "none" /\ SurfacedWithout(p)

LegsUnder(ps, s) == {p \in ps : TypeIn(mem, p.id) = "mpp" /\ mem[p.id].surface = s}

SplitUnder(s) == [id |-> s, from |-> "split",
                  status |-> MppStatus(LegsUnder(TrustedPayments, s), LegsUnder(LightningPayments, s))]

SpliceOut(s) == [id |-> s, from |-> "splice", status |-> "completed"]

\* What list_transactions makes of the payments.
LEMMA TransactionIs ==
    ASSUME WalletTypes, NEW e
    PROVE  e \in Transactions <=>
              \/ \E p \in AllPayments : Shown(p) /\ e = Single(p)
              \/ \E p \in AllPayments : TypeIn(mem, p.id) = "mpp" /\ e = SplitUnder(mem[p.id].surface)
              \/ \E s \in splices : e = SpliceOut(s)
  <1>1. \A id : TypeIn(mem, id) # "trigger"
    <2>1. \A id \in DOMAIN mem : mem[id].ty \in {"payment", "mpp", "pending"}
      BY DEF WalletTypes, Entry
    <2> QED
      BY <2>1 DEF TypeIn
  <1>2. Triggers(AllPayments, mem) = {}
    BY <1>1 DEF Triggers
  <1>3. e \in Own(AllPayments, mem) <=> \E p \in AllPayments : Shown(p) /\ e = Single(p)
    BY DEF Own, Shown
  <1>4. e \in Splits(TrustedPayments, LightningPayments, mem) <=>
           \E p \in AllPayments : TypeIn(mem, p.id) = "mpp" /\ e = SplitUnder(mem[p.id].surface)
    BY DEF Splits, SplitUnder, LegsUnder, AllPayments
  <1>5. Transactions = UNION {Own(AllPayments, mem), Triggers(AllPayments, mem),
                              Splits(TrustedPayments, LightningPayments, mem),
                              {SpliceOut(s) : s \in splices}}
    BY DEF Transactions, list_transactions, AllPayments, SpliceOut
  <1> QED
    BY <1>2, <1>3, <1>4, <1>5

\* The ids of the three sorts of transactions.
LEMMA TransactionIds ==
    /\ \A p : Single(p).id = p.id /\ Single(p).status = p.status /\ Single(p).from = "payment"
    /\ \A s : SplitUnder(s).id = s
    /\ \A s : SpliceOut(s).id = s /\ SpliceOut(s).from = "splice"
  BY DEF Single, SplitUnder, SpliceOut

\* A split is listed under the id of its quote, where a plain payment would be
\* listed only if that id was inserted again.
LEMMA SplitSurface ==
    ASSUME SplitInv, NEW p \in AllPayments, TypeIn(mem, p.id) = "mpp"
    PROVE  \E q \in DOMAIN quotes :
              /\ mem[p.id].surface = Trusted(q)
              /\ p.id[1] = "trusted" => p.id = Trusted(q)
              /\ Trusted(q) \in reinserted \/ TypeIn(mem, Trusted(q)) = "mpp"
  <1>1. p.id \in DOMAIN mem /\ mem[p.id].ty = "mpp"
    BY DEF TypeIn
  <1>2. PICK q \in DOMAIN quotes :
            /\ mem[p.id].surface = Trusted(q)
            /\ p.id[1] = "trusted" => p.id = Trusted(q)
            /\ p.id[1] = "self" => Trusted(q) \in reinserted \/ TypeIn(mem, Trusted(q)) = "mpp"
    BY <1>1 DEF SplitInv, SplitEntries
  <1>3. p.id[1] \in {"trusted", "self"}
    <2>1. (\E k : p.id = Trusted(k)) \/ (\E x : p.id = SelfCustodial(x))
      BY PaymentIds, Zenon
    <2> QED
      BY <2>1, IdsApart
  <1>4. Trusted(q) \in reinserted \/ TypeIn(mem, Trusted(q)) = "mpp"
    BY <1>2, <1>3
  <1> QED
    BY <1>2, <1>4

\* A splice out has the id of a call, and is no split.
LEMMA SpliceApart ==
    ASSUME SpliceInv, NEW s \in splices
    PROVE  /\ \E c \in Calls : s = SelfCustodial(ByCall(c))
           /\ \A q : s # Trusted(q)
  <1>1. PICK c \in Calls : s = SelfCustodial(ByCall(c))
    BY DEF SpliceInv
  <1>2. \A q : s # Trusted(q)
    BY <1>1, IdsApart
  <1> QED
    BY <1>1, <1>2

\* What is listed under an id: one payment, one split or one splice out, and
\* together only a payment and a splice out, unless the id was inserted again.
LEMMA NoIdTwice ==
    ASSUME PayInv, NEW e \in Transactions, NEW f \in Transactions, e.id = f.id,
           e.id \notin reinserted
    PROVE  e = f \/ {e.from, f.from} = {"payment", "splice"}
  <1> USE DEF PayInv
  <1>0. WalletTypes
    BY DEF PayTypes
  <1>1. ASSUME NEW t \in Transactions
        PROVE  \/ \E p \in AllPayments : Shown(p) /\ t = Single(p) /\ t.id = p.id /\ t.from = "payment"
               \/ \E q : /\ t = SplitUnder(Trusted(q)) /\ t.id = Trusted(q)
                         /\ Trusted(q) \in reinserted \/ TypeIn(mem, Trusted(q)) = "mpp"
               \/ \E s \in splices : t = SpliceOut(s) /\ t.id = s /\ t.from = "splice"
    BY <1>0, TransactionIs, TransactionIds, SplitSurface
  <1>2. ASSUME NEW p \in AllPayments, Shown(p), NEW q, p.id = Trusted(q), Trusted(q) \notin reinserted,
               Trusted(q) \in reinserted \/ TypeIn(mem, Trusted(q)) = "mpp"
        PROVE  FALSE
    BY <1>2 DEF Shown
  <1>3. ASSUME NEW p \in AllPayments, Shown(p), e = Single(p), e.id = p.id, e.from = "payment"
        PROVE  e = f \/ f.from = "splice"
    <2>1. ASSUME NEW r \in AllPayments, f = Single(r), f.id = r.id PROVE e = f
      BY <1>3, <2>1, OneByOne
    <2>2. ASSUME NEW q, f.id = Trusted(q), Trusted(q) \in reinserted \/ TypeIn(mem, Trusted(q)) = "mpp"
          PROVE  FALSE
      BY <1>2, <1>3, <2>2
    <2> QED
      BY <1>1, <2>1, <2>2
  <1>4. ASSUME NEW q, e = SplitUnder(Trusted(q)), e.id = Trusted(q),
               Trusted(q) \in reinserted \/ TypeIn(mem, Trusted(q)) = "mpp"
        PROVE  e = f
    <2>1. ASSUME NEW k, f = SplitUnder(Trusted(k)), f.id = Trusted(k) PROVE e = f
      BY <1>4, <2>1, IdsApart
    <2>2. ASSUME NEW s \in splices, f.id = s PROVE FALSE
      BY <1>4, <2>2, SpliceApart
    <2>3. ASSUME NEW p \in AllPayments, Shown(p), f.id = p.id PROVE FALSE
      BY <1>2, <1>4, <2>3
    <2> QED
      BY <1>1, <2>1, <2>2, <2>3
  <1>5. ASSUME NEW s \in splices, e = SpliceOut(s), e.id = s, e.from = "splice"
        PROVE  e = f \/ f.from = "payment"
    <2>1. ASSUME NEW k, f.id = Trusted(k) PROVE FALSE
      BY <1>5, <2>1, SpliceApart
    <2>2. ASSUME NEW t \in splices, f = SpliceOut(t), f.id = t PROVE e = f
      BY <1>5, <2>2
    <2> QED
      BY <1>1, <2>1, <2>2
  <1> QED
    BY <1>1, <1>3, <1>4, <1>5


\* list_transactions shows no id twice, and a payment that pay has returned
\* under the id it returned and not under the id of a leg, unless it is a splice
\* out or the id was inserted again.
THEOREM ListedOnceSafe == Spec => []ListedOnce
  <1>1. ASSUME PayInv, NEW c \in Calls, call[c].pc = "ok", Alone(c),
               NEW e \in Transactions, e.id \in {call[c].id, call[c].leg}
        PROVE  e.id = call[c].id
    <2>0. WalletTypes /\ StartedInv /\ SplitInv /\ SpliceInv /\ ReturnedInv
      BY <1>1 DEF PayInv, PayTypes
    <2> SUFFICES ASSUME e.id = call[c].leg PROVE FALSE
      BY <1>1
    <2>1. \/ \E p \in AllPayments : Shown(p) /\ e.id = p.id
          \/ \E q : e.id = Trusted(q)
          \/ \E d \in Calls : e.id = SelfCustodial(ByCall(d))
      <3>1. CASE \E p \in AllPayments : Shown(p) /\ e = Single(p)
        BY <3>1, TransactionIds
      <3>2. CASE \E p \in AllPayments : TypeIn(mem, p.id) = "mpp" /\ e = SplitUnder(mem[p.id].surface)
        BY <2>0, <3>2, TransactionIds, SplitSurface
      <3>3. CASE \E s \in splices : e = SpliceOut(s)
        BY <2>0, <3>3, TransactionIds, SpliceApart
      <3> QED
        BY <2>0, <3>1, <3>2, <3>3, TransactionIs
    <2>2. call[c].leg # None
      <3>1. ASSUME NEW p \in AllPayments PROVE p.id # None
        <4>1. (\E q \in DOMAIN quotes : p.id = Trusted(q)) \/ (\E x \in DOMAIN sent : p.id = SelfCustodial(x))
          BY PaymentIds, Zenon
        <4>2. DOMAIN quotes \subseteq Nat /\ DOMAIN sent \subseteq SentIds
          BY <2>0 DEF WalletTypes
        <4> QED
          BY <4>1, <4>2, IdsAre
      <3>2. ASSUME NEW d \in Calls PROVE SelfCustodial(ByCall(d)) # None
        BY IdsAre DEF SentIds
      <3>3. CASE \E p \in AllPayments : TypeIn(mem, p.id) = "mpp" /\ e = SplitUnder(mem[p.id].surface)
        <4>1. PICK q \in DOMAIN quotes : e.id = Trusted(q)
          BY <2>0, <3>3, TransactionIds, SplitSurface
        <4>2. q \in Nat
          BY <2>0 DEF WalletTypes
        <4> QED
          BY <4>1, <4>2, IdsAre
      <3>4. CASE \E p \in AllPayments : Shown(p) /\ e = Single(p)
        BY <3>1, <3>4, TransactionIds
      <3>5. CASE \E s \in splices : e = SpliceOut(s)
        BY <2>0, <3>2, <3>5, TransactionIds, SpliceApart
      <3> QED
        BY <2>0, <3>3, <3>4, <3>5, TransactionIs
    <2>3. PICK r \in Reqs : call[c].leg = SelfCustodial(ByHash(r))
      BY <2>0, <2>2 DEF StartedInv
    <2>4. TypeIn(mem, call[c].leg) = "mpp"
      BY <1>1, <2>0, <2>2 DEF ReturnedInv
    <2> QED
      BY <2>1, <2>3, <2>4, IdsApart DEF Shown
  <1>2. ASSUME PayInv, NEW c \in Calls, call[c].pc = "ok", Alone(c), WalletsList(call[c].id)
        PROVE  \E e \in Transactions : e.id = call[c].id
    <2>0. WalletTypes /\ StartedInv /\ SplitInv /\ ReturnedInv
      BY <1>2 DEF PayInv, PayTypes
    <2>1. PICK p \in AllPayments : p.id = call[c].id
      BY <1>2 DEF WalletsList, AllPayments
    <2>2. p.id \in DOMAIN mem /\ (p.id[1] = "self" => mem[p.id].ty = "payment")
      BY <1>2, <2>0, <2>1 DEF ReturnedInv
    <2>3. mem[p.id].ty \in {"payment", "mpp"}
      <3>1. mem[p.id].ty \in {"payment", "mpp", "pending"}
        BY <2>0, <2>2 DEF WalletTypes, Entry
      <3>2. mem[p.id].ty = "pending" => p.id[1] = "self"
        BY <2>0, <2>2 DEF WalletTypes
      <3> QED
        BY <2>2, <3>1, <3>2
    <2>4. CASE mem[p.id].ty = "payment"
      <3>1. Shown(p)
        BY <2>2, <2>4 DEF Shown, TypeIn
      <3>2. Single(p) \in Transactions
        BY <2>0, <3>1, TransactionIs
      <3> QED
        BY <2>1, <3>2, TransactionIds
    <2>5. CASE mem[p.id].ty = "mpp"
      <3>1. TypeIn(mem, p.id) = "mpp"
        BY <2>2, <2>5 DEF TypeIn
      <3>2. p.id[1] = "trusted"
        <4>1. (\E q : p.id = Trusted(q)) \/ (\E x : p.id = SelfCustodial(x))
          BY PaymentIds, Zenon
        <4> QED
          BY <2>2, <2>5, <4>1, IdsApart
      <3>3. mem[p.id].surface = p.id
        BY <2>0, <3>1, <3>2, SplitSurface
      <3>4. SplitUnder(p.id) \in Transactions
        BY <2>0, <3>1, <3>3, TransactionIs
      <3> QED
        BY <2>1, <3>4, TransactionIds
    <2> QED
      BY <2>3, <2>4, <2>5
  <1>3. PayInv => ListedOnce
    BY <1>1, <1>2, NoIdTwice DEF ListedOnce
  <1> QED
    BY <1>3, PayAlways, PTL

\* The attempt that counts is one of the attempts.
LEMMA StatusIs ==
    ASSUME WalletTypes, NEW q, Attempts(q) # {}
    PROVE  AttemptStatus(q) = "completed" <=> \E i \in Attempts(q) : melts[i].st = "paid"
  <1>1. melts \in Seq(MeltRec)
    BY DEF WalletTypes
  <1>2. Len(melts) \in Nat /\ DOMAIN melts \subseteq 0..Len(melts)
    BY <1>1
  <1>3. Attempts(q) \in SUBSET (0..Len(melts))
    BY <1>2 DEF Attempts
  <1>4. Max(Attempts(q)) \in Attempts(q)
    BY <1>2, <1>3, MaxIn
  <1>5. melts[Max(Attempts(q))].st # "completed"
    BY <1>4 DEF Attempts
  <1> QED
    BY <1>5 DEF AttemptStatus

\* The list shows a payment as completed if and only if it was paid: a retry
\* that fails does not hide the attempt that settled, and a split is completed
\* only when the receiver has claimed it.
THEOREM ListedTruthfullySafe == Spec => []ListedTruthfully
  <1>1. ASSUME PayInv, NEW q \in DOMAIN quotes, q \notin Active, TypeIn(mem, Trusted(q)) # "mpp"
        PROVE  \E e \in Transactions : e.id = Trusted(q) /\ e.status = "completed"
    <2>0. WalletTypes
      BY <1>1 DEF PayInv, PayTypes
    <2>1. PICK i \in DOMAIN melts : melts[i].q = q /\ melts[i].st = "paid"
      BY <1>1 DEF Active
    <2>2. i \in Attempts(q)
      BY <2>1 DEF Attempts
    <2>3. AttemptStatus(q) = "completed"
      BY <2>0, <2>1, <2>2, StatusIs
    <2>4. PICK p : p = Listed(Trusted(q), AttemptStatus(q), FALSE)
      OBVIOUS
    <2>5. p \in AllPayments
      BY <2>2, <2>4, TrustedPaymentIs DEF AllPayments
    <2>6. p.id = Trusted(q) /\ p.status = "completed"
      BY <2>3, <2>4 DEF Listed
    <2>7. TypeIn(mem, p.id) \in {"payment", "none"}
      <3>1. \A id \in DOMAIN mem : mem[id].ty \in {"payment", "mpp", "pending"}
        BY <2>0 DEF WalletTypes, Entry
      <3>2. \A id \in DOMAIN mem : mem[id].ty = "pending" => id[1] = "self"
        BY <2>0 DEF WalletTypes
      <3>3. p.id[1] # "self"
        BY <2>6, IdsApart
      <3> QED
        BY <1>1, <2>6, <3>1, <3>2, <3>3 DEF TypeIn
    <2>8. Shown(p)
      BY <2>6, <2>7 DEF Shown, SurfacedWithout
    <2>9. Single(p) \in Transactions
      BY <2>0, <2>5, <2>8, TransactionIs
    <2> QED
      BY <2>6, <2>9, TransactionIds
  <1>2. ASSUME PayInv, NEW e \in Transactions, e.status = "completed", e.id[1] = "trusted"
        PROVE  e.id[2] \notin Active
    <2>0. WalletTypes /\ SplitInv /\ SpliceInv
      BY <1>2 DEF PayInv, PayTypes
    <2>1. ASSUME NEW p \in TrustedPayments, p.status = "completed" PROVE p.id[2] \notin Active
      <3>1. PICK q \in DOMAIN quotes : Attempts(q) # {} /\ p = Listed(Trusted(q), AttemptStatus(q), FALSE)
        BY TrustedPaymentIs
      <3>2. p.id = Trusted(q) /\ AttemptStatus(q) = "completed"
        BY <2>1, <3>1 DEF Listed
      <3>3. PICK i \in Attempts(q) : melts[i].st = "paid"
        BY <2>0, <3>1, <3>2, StatusIs
      <3>4. q \notin Active
        BY <3>3 DEF Attempts, Active
      <3> QED
        BY <3>2, <3>4, IdsApart
    <2>2. ASSUME NEW p \in AllPayments, p.id[1] = "trusted" PROVE p \in TrustedPayments
      <3> SUFFICES ASSUME p \in LightningPayments PROVE FALSE
        BY DEF AllPayments
      <3>1. PICK x \in DOMAIN sent : p = Listed(SelfCustodial(x), sent[x].st, sent[x].ty \in {"onchain", "splice"})
        BY LightningPaymentIs
      <3>2. p.id = SelfCustodial(x)
        BY <3>1 DEF Listed
      <3> QED
        BY <2>2, <3>2, IdsApart
    <2>3. ASSUME NEW p \in AllPayments, e = Single(p) PROVE e.id[2] \notin Active
      BY <1>2, <2>1, <2>2, <2>3, TransactionIds
    <2>4. ASSUME NEW p \in AllPayments, TypeIn(mem, p.id) = "mpp", e = SplitUnder(mem[p.id].surface)
          PROVE  e.id[2] \notin Active
      <3>1. PICK s : s = mem[p.id].surface
        OBVIOUS
      <3>2. e.id = s /\ MppStatus(LegsUnder(TrustedPayments, s), LegsUnder(LightningPayments, s)) = "completed"
        BY <1>2, <2>4, <3>1 DEF SplitUnder
      <3>3. PICK l \in LegsUnder(TrustedPayments, s) : l.status = "completed"
        BY <3>2 DEF MppStatus
      <3>4. /\ l \in AllPayments /\ l \in TrustedPayments
            /\ TypeIn(mem, l.id) = "mpp" /\ mem[l.id].surface = s
        BY <3>3 DEF LegsUnder, AllPayments
      <3>5. l.id[1] = "trusted"
        <4>1. PICK q : l = Listed(Trusted(q), AttemptStatus(q), FALSE)
          BY <3>4, TrustedPaymentIs
        <4>2. l.id = Trusted(q)
          BY <4>1 DEF Listed
        <4> QED
          BY <4>2, IdsApart
      <3>6. l.id = s
        BY <2>0, <3>4, <3>5, SplitSurface
      <3> QED
        BY <2>1, <3>2, <3>3, <3>4, <3>6
    <2>5. ASSUME NEW s \in splices, e = SpliceOut(s) PROVE FALSE
      BY <1>2, <2>0, <2>5, SpliceApart, TransactionIds, IdsApart
    <2> QED
      BY <2>0, <2>3, <2>4, <2>5, TransactionIs
  <1>3. PayInv => ListedTruthfully
    BY <1>1, <1>2 DEF ListedTruthfully
  <1> QED
    BY <1>3, PayAlways, PTL

(***************************************************************************)
(* A call pays at most once.                                               *)
(***************************************************************************)

\* The amount and the request of a melt.
MeltAmt(i) == quotes[melts[i].q].amt
MeltReq(i) == quotes[melts[i].q].req

\* Where a call is while it has sent nothing over lightning.
Unsent == {"idle", "try", "estimated", "leg", "err"}

\* The melt is for an invoice that the call has tried to split.
Tried(c, i) ==
    \E k \in DOMAIN call[c].methods :
        /\ call[c].methods[k] = <<"bolt11", MeltReq(i)>>
        /\ call[c].pc \in {"try", "estimated"} /\ call[c].at # End => Before(<<3, k>>, call[c].at)
        /\ call[c].pc = "leg" => ~Before(call[c].at, <<3, k>>)

\* It is paid only together with the lightning leg.
PaidWithLeg(i) ==
    melts[i].st = "paid" =>
        \E x \in DOMAIN sent : sent[x].st = "completed" /\ sent[x].req = MeltReq(i)

\* A melt of less than the amount is one of what the call saw, for an invoice
\* that it has tried to split, the only melt for that invoice, and paid only
\* together with the lightning leg.
PartsInv(c) ==
    \A i \in DOMAIN melts : MeltAmt(i) < Amount =>
        /\ MeltAmt(i) = call[c].saw.trusted
        /\ \A j \in DOMAIN melts : MeltReq(j) = MeltReq(i) => j = i
        /\ Tried(c, i) /\ PaidWithLeg(i)

\* A melt of the amount is the only payment.
WholeInv(c) ==
    \A i \in DOMAIN melts : MeltAmt(i) = Amount =>
        /\ DOMAIN melts = {i} /\ DOMAIN sent = {}
        /\ call[c].pc \in {"insert", "ok", "dropped"}

\* The lightning wallet has sent one payment at most, which makes up the amount
\* with a melt for the same request.
LegInv(c) ==
    /\ call[c].pc \in Unsent => DOMAIN sent = {}
    /\ \A x \in DOMAIN sent :
          /\ sent[x].amt <= Amount
          /\ \A y \in DOMAIN sent : y = x
          /\ \A i \in DOMAIN melts : MeltReq(i) = sent[x].req => MeltAmt(i) + sent[x].amt = Amount

\* Quotes of less than the amount are being paid, and an estimate is one of the
\* trusted wallet.
QuotesInv(c) ==
    /\ call[c].pc = "idle" => DOMAIN quotes = {}
    /\ \A q \in DOMAIN quotes : quotes[q].amt < Amount => \E i \in DOMAIN melts : melts[i].q = q
    /\ call[c].pc = "estimated" => Passes[call[c].at[1]].via = "trusted"

Once(c) == PartsInv(c) /\ WholeInv(c) /\ LegInv(c) /\ QuotesInv(c)

OnceInv == \A c \in Calls : Alone(c) => Once(c)

\* A sum over no index.
LEMMA SumOfNone ==
    ASSUME NEW f
    PROVE  SumFunctionOnSet(f, {}) = 0
  <1> DEFINE R(g) == [s \in SUBSET {} |-> IF s = {} THEN 0
                        ELSE f[CHOOSE x \in s : TRUE] + g[s \ {CHOOSE x \in s : TRUE}]]
  <1>1. R([s \in SUBSET {} |-> 0]) = [s \in SUBSET {} |-> 0]
    OBVIOUS
  <1>2. \E g : g = R(g)
    BY <1>1
  <1>3. (CHOOSE g : g = R(g)) = R(CHOOSE g : g = R(g))
    BY <1>2
  <1>4. SumFunctionOnSet(f, {}) = (CHOOSE g : g = R(g))[{}]
    BY DEF SumFunctionOnSet, FoldFunctionOnSet, MapThenFoldSet
  <1> HIDE DEF R
  <1>5. \A g : R(g)[{}] = 0
    BY DEF R
  <1> QED
    BY <1>3, <1>4, <1>5

\* A sum over one index.
LEMMA SumOfOne ==
    ASSUME NEW f, NEW a, f[a] \in Nat
    PROVE  SumFunctionOnSet(f, {a}) = f[a]
  <1> DEFINE R(g) == [s \in SUBSET {a} |-> IF s = {} THEN 0
                        ELSE f[CHOOSE x \in s : TRUE] + g[s \ {CHOOSE x \in s : TRUE}]]
             W == [s \in SUBSET {a} |-> IF s = {} THEN 0 ELSE f[a]]
  <1>0. \A s \in SUBSET {a} : s = {} \/ s = {a}
    OBVIOUS
  <1>a. (CHOOSE x \in {a} : TRUE) = a
    OBVIOUS
  <1>1. R(W) = W
    <2>1. W[{}] = 0 /\ W[{a}] = f[a]
      OBVIOUS
    <2>2. R(W)[{}] = 0
      OBVIOUS
    <2>3. R(W)[{a}] = f[a] + W[{a} \ {a}]
      BY <1>a
    <2>4. {a} \ {a} = {}
      OBVIOUS
    <2>5. R(W)[{a}] = f[a]
      BY <2>1, <2>3, <2>4
    <2> QED
      BY <1>0, <2>1, <2>2, <2>5
  <1>2. \E g : g = R(g)
    BY <1>1, Zenon
  <1>3. (CHOOSE g : g = R(g)) = R(CHOOSE g : g = R(g))
    BY <1>2, Zenon
  <1>4. SumFunctionOnSet(f, {a}) = (CHOOSE g : g = R(g))[{a}]
    BY DEF SumFunctionOnSet, FoldFunctionOnSet, MapThenFoldSet
  <1>5. \A g : R(g)[{}] = 0
    OBVIOUS
  <1>6. \A g : R(g)[{a}] = f[a] + g[{}]
    <2>4. {a} \ {a} = {}
      OBVIOUS
    <2> QED BY <1>a, <2>4
  <1> HIDE DEF R
  <1> DEFINE G == CHOOSE g : g = R(g)
  <1>7. G = R(G) /\ SumFunctionOnSet(f, {a}) = G[{a}]
    BY <1>3, <1>4
  <1> HIDE DEF G
  <1>8. G[{}] = 0
    BY <1>5, <1>7
  <1>9. G[{a}] = f[a] + G[{}]
    BY <1>6, <1>7
  <1> QED
    BY <1>7, <1>8, <1>9

\* What one payment of each wallet adds up to.
LEMMA AmountIs ==
    ASSUME WalletTypes, NEW ms \in SUBSET DOMAIN melts, NEW ss \in SUBSET DOMAIN sent
    PROVE  /\ ms = {} /\ ss = {} => AmountOf(ms, ss) = 0
           /\ \A i : ms = {i} /\ ss = {} => AmountOf(ms, ss) = MeltAmt(i)
           /\ \A x : ms = {} /\ ss = {x} => AmountOf(ms, ss) = sent[x].amt
           /\ \A i, x : ms = {i} /\ ss = {x} => AmountOf(ms, ss) = MeltAmt(i) + sent[x].amt
  <1>1. PICK f : f = [i \in ms |-> quotes[melts[i].q].amt]
    OBVIOUS
  <1>2. PICK g : g = [x \in ss |-> sent[x].amt]
    OBVIOUS
  <1>3. AmountOf(ms, ss) = SumFunctionOnSet(f, ms) + SumFunctionOnSet(g, ss)
    BY <1>1, <1>2 DEF AmountOf
  <1>4. \A i \in ms : f[i] = MeltAmt(i) /\ f[i] \in Nat
    <2>1. ASSUME NEW i \in ms PROVE MeltAmt(i) \in Nat
      <3>1. quotes[melts[i].q] \in QuoteRec
        BY DEF WalletTypes
      <3> QED
        BY <3>1, PayAssumption DEF QuoteRec, MeltAmt
    <2> QED
      BY <1>1, <2>1 DEF MeltAmt
  <1>5. \A x \in ss : g[x] = sent[x].amt /\ g[x] \in Nat
    BY <1>2 DEF WalletTypes, SentRec
  <1>6. ms = {} => SumFunctionOnSet(f, ms) = 0
    BY SumOfNone
  <1>7. ss = {} => SumFunctionOnSet(g, ss) = 0
    BY SumOfNone
  <1>8. ASSUME NEW i, ms = {i} PROVE SumFunctionOnSet(f, ms) = MeltAmt(i) /\ MeltAmt(i) \in Nat
    BY <1>4, <1>8, SumOfOne
  <1>9. ASSUME NEW x, ss = {x} PROVE SumFunctionOnSet(g, ss) = sent[x].amt /\ sent[x].amt \in Nat
    BY <1>5, <1>9, SumOfOne
  <1> QED
    BY <1>3, <1>6, <1>7, <1>8, <1>9

\* The amounts are of the whole or of a part.
LEMMA MeltIs ==
    ASSUME WalletTypes, NEW i \in DOMAIN melts
    PROVE  /\ MeltAmt(i) \in Nat /\ (MeltAmt(i) = Amount \/ MeltAmt(i) < Amount)
  <1>1. quotes[melts[i].q] \in QuoteRec
    BY DEF WalletTypes
  <1> QED
    BY <1>1, PayAssumption DEF QuoteRec, MeltAmt

\* What has settled is the amount at most, and nothing without a payment.
LEMMA OnceSettles ==
    ASSUME WalletTypes, NEW c \in Calls, Once(c), NEW reqs
    PROVE  /\ SettledTo(reqs) <= Amount
           /\ call[c].pc = "err" => SettledTo(reqs) = 0
  <1> DEFINE ms == {i \in DOMAIN melts : melts[i].st = "paid" /\ quotes[melts[i].q].req \in reqs}
             ss == {x \in DOMAIN sent : sent[x].st = "completed" /\ sent[x].req \in reqs}
  <1>1. SettledTo(reqs) = AmountOf(ms, ss)
    BY DEF SettledTo
  <1>2. ms \in SUBSET DOMAIN melts /\ ss \in SUBSET DOMAIN sent
    OBVIOUS
  <1>3. \A i \in ms : melts[i].st = "paid"
    OBVIOUS
  <1> HIDE DEF ms, ss
  <1>0. Amount \in Nat /\ \A x \in DOMAIN sent : sent[x].amt \in Nat
    BY PayAssumption DEF WalletTypes, SentRec
  <1>4. CASE \E i \in ms : MeltAmt(i) = Amount
    <2>1. PICK i \in ms : MeltAmt(i) = Amount
      BY <1>4
    <2>2. ms = {i} /\ ss = {} /\ call[c].pc # "err"
      BY <1>2, <2>1 DEF Once, WholeInv
    <2>3. AmountOf(ms, ss) = MeltAmt(i)
      BY <1>2, <2>2, AmountIs
    <2> QED
      BY <1>0, <1>1, <2>1, <2>2, <2>3
  <1>5. CASE ms = {}
    <2>1. CASE ss = {}
      <3>1. AmountOf(ms, ss) = 0
        BY <1>2, <1>5, <2>1, AmountIs
      <3> QED
        BY <1>0, <1>1, <3>1
    <2>2. ASSUME NEW x \in ss PROVE ss = {x} /\ sent[x].amt <= Amount /\ call[c].pc # "err"
      BY <1>2, <2>2 DEF Once, LegInv, Unsent
    <2> QED
      BY <1>0, <1>1, <1>2, <1>5, <2>1, <2>2, AmountIs
  <1>6. CASE ms # {} /\ \A i \in ms : MeltAmt(i) < Amount
    <2>1. PICK i \in ms : MeltAmt(i) < Amount
      BY <1>6
    <2>2. PICK x \in DOMAIN sent : sent[x].st = "completed" /\ sent[x].req = MeltReq(i)
      BY <1>2, <1>3, <2>1 DEF Once, PartsInv, PaidWithLeg
    <2>3. \A j \in ms : j = i
      <3>1. ASSUME NEW j \in ms PROVE MeltReq(j) = MeltReq(i)
        <4>1. PICK y \in DOMAIN sent : sent[y].req = MeltReq(j)
          BY <1>2, <1>3, <1>6 DEF Once, PartsInv, PaidWithLeg
        <4>2. y = x
          BY <4>1 DEF Once, LegInv
        <4> QED
          BY <2>2, <4>1, <4>2
      <3> QED
        BY <1>2, <2>1, <3>1 DEF Once, PartsInv
    <2>4. ms = {i}
      BY <2>3
    <2>5. MeltAmt(i) + sent[x].amt = Amount /\ (ss = {} \/ ss = {x})
      BY <1>2, <2>2 DEF Once, LegInv
    <2>6. call[c].pc # "err"
      BY DEF Once, LegInv, Unsent
    <2>7. AmountOf(ms, ss) \in {MeltAmt(i), Amount}
      BY <1>2, <2>4, <2>5, AmountIs
    <2>8. MeltAmt(i) \in Nat
      BY <1>2, MeltIs
    <2> QED
      BY <1>0, <1>1, <2>1, <2>6, <2>7, <2>8
  <1> QED
    BY <1>2, <1>4, <1>5, <1>6, MeltIs

\* OnceInv is what PaysOnce needs.
LEMMA OncePays == WalletTypes /\ OnceInv => PaysOnce
  BY OnceSettles DEF OnceInv, PaysOnce

\* The places of a call are in order.
LEMMA PlacesOrdered ==
    ASSUME NEW a \in (1..5) \X Nat, NEW b \in (1..5) \X Nat, NEW k \in Nat, Before(a, b)
    PROVE  /\ Before(<<3, k>>, a) => Before(<<3, k>>, b)
           /\ ~Before(a, <<3, k>>) => Before(<<3, k>>, b)
  BY DEF Before

\* A call that leaves a try goes on after it.
LEMMA SkipAfter ==
    ASSUME CallTypes, NEW c \in Calls, Skip(c)
    PROVE  call'[c].at = End \/ Before(call[c].at, call'[c].at)
  <1>0. call \in [Calls -> CallRec]
    BY DEF CallTypes
  <1>1. PICK a \in NextTry(call[c].methods, call[c].at) :
           call' = [call EXCEPT ![c].pc = "try", ![c].at = a]
    BY DEF Skip
  <1>2. call'[c].at = a
    BY <1>0, <1>1 DEF CallRec
  <1>3. a = End \/ Before(call[c].at, a)
    BY DEF NextTry
  <1> QED
    BY <1>2, <1>3

\* A step that starts no payment: the call goes on to a later try, or on its
\* way, and a quote that is added is one of the whole amount.
QuietMove(c, p) ==
    /\ call[c].pc # "idle" /\ p \in PCs \ {"idle", "leg"} /\ Moves(c, p)
    /\ quotes' = quotes \/ \E q, r : Quoted(q, r) /\ r.amt = Amount
    /\ UNCHANGED <<melts, sent>>
    /\ p \in Unsent => call[c].pc \in Unsent
    /\ call[c].pc \in {"insert", "ok", "dropped"} => p \in {"insert", "ok", "dropped"}
    /\ p \in {"try", "estimated"} /\ call'[c].at # End =>
          /\ call'[c].at \in (1..5) \X Nat /\ call[c].at \in (1..5) \X Nat
          /\ \/ call'[c].at = call[c].at /\ call[c].pc \in {"try", "estimated"}
             \/ Before(call[c].at, call'[c].at) /\ call[c].pc \in {"try", "estimated", "leg"}
    /\ p = "estimated" => Passes[call'[c].at[1]].via = "trusted"

\* Such a step keeps what a call knows of its payments.
LEMMA OnceQuiet ==
    ASSUME PayTypes, NEW c \in Calls, Once(c), NEW p, QuietMove(c, p)
    PROVE  Once(c)'
  <1>0. /\ melts' = melts /\ sent' = sent /\ call'[c].pc = p /\ p \notin {"idle", "leg"}
        /\ call'[c].methods = call[c].methods /\ call'[c].saw = call[c].saw
    BY DEF QuietMove, Moves
  <1>a. /\ DOMAIN quotes \subseteq DOMAIN quotes' /\ \A q \in DOMAIN quotes : quotes'[q] = quotes[q]
        /\ \A q \in DOMAIN quotes' : q \in DOMAIN quotes \/ quotes'[q].amt = Amount
    BY DEF QuietMove, Quoted
  <1>b. \A i \in DOMAIN melts : melts[i].q \in DOMAIN quotes
    BY DEF PayTypes, WalletTypes
  <1>1. \A i \in DOMAIN melts : MeltAmt(i)' = MeltAmt(i) /\ MeltReq(i)' = MeltReq(i)
    BY <1>0, <1>a, <1>b DEF MeltAmt, MeltReq
  <1>2. PartsInv(c)'
    <2> SUFFICES ASSUME NEW i \in DOMAIN melts', MeltAmt(i)' < Amount
                 PROVE  /\ MeltAmt(i)' = call'[c].saw.trusted
                        /\ \A j \in DOMAIN melts' : MeltReq(j)' = MeltReq(i)' => j = i
                        /\ Tried(c, i)' /\ PaidWithLeg(i)'
      BY DEF PartsInv
    <2>0. i \in DOMAIN melts /\ MeltAmt(i)' = MeltAmt(i) /\ MeltReq(i)' = MeltReq(i) /\ MeltAmt(i) < Amount
      BY <1>0, <1>1
    <2>1. PICK k \in DOMAIN call[c].methods :
              /\ call[c].methods[k] = <<"bolt11", MeltReq(i)>>
              /\ call[c].pc \in {"try", "estimated"} /\ call[c].at # End => Before(<<3, k>>, call[c].at)
              /\ call[c].pc = "leg" => ~Before(call[c].at, <<3, k>>)
      BY <2>0 DEF Once, PartsInv, Tried
    <2>2. k \in Nat
      <3>1. call[c].methods \in Seq({"bolt11", "bolt12", "onchain"} \X Reqs)
        BY PayAssumption DEF QuietMove, PayTypes, CallTypes
      <3> QED
        BY <3>1
    <2>3. ASSUME p \in {"try", "estimated"}, call'[c].at # End PROVE Before(<<3, k>>, call'[c].at)
      <3>1. /\ call'[c].at \in (1..5) \X Nat /\ call[c].at \in (1..5) \X Nat
            /\ \/ call'[c].at = call[c].at /\ call[c].pc \in {"try", "estimated"}
               \/ Before(call[c].at, call'[c].at) /\ call[c].pc \in {"try", "estimated", "leg"}
        BY <2>3 DEF QuietMove
      <3>2. call[c].at # End
        BY <3>1 DEF End
      <3>3. \/ Before(<<3, k>>, call[c].at)
            \/ Before(call[c].at, call'[c].at) /\ ~Before(call[c].at, <<3, k>>)
        BY <2>1, <3>1, <3>2
      <3> QED
        BY <2>1, <2>2, <3>1, <3>2, <3>3, PlacesOrdered
    <2>4. /\ MeltAmt(i) = call[c].saw.trusted
          /\ \A j \in DOMAIN melts : MeltReq(j) = MeltReq(i) => j = i
          /\ PaidWithLeg(i)
      BY <2>0 DEF Once, PartsInv
    <2>5. Tried(c, i)'
      BY <1>0, <2>0, <2>1, <2>3 DEF Tried
    <2>6. PaidWithLeg(i)'
      BY <1>0, <2>0, <2>4 DEF PaidWithLeg
    <2> QED
      BY <1>0, <1>1, <2>0, <2>4, <2>5, <2>6
  <1>3. WholeInv(c)'
    BY <1>0, <1>1 DEF Once, WholeInv, QuietMove
  <1>4. LegInv(c)'
    BY <1>0, <1>1 DEF Once, LegInv, QuietMove
  <1>5. QuotesInv(c)'
    <2>1. ASSUME NEW q \in DOMAIN quotes', quotes'[q].amt < Amount
          PROVE  \E i \in DOMAIN melts : melts[i].q = q
      <3>1. q \in DOMAIN quotes
        BY <1>a, <2>1, PayAssumption
      <3> QED
        BY <1>a, <2>1, <3>1 DEF Once, QuotesInv
    <2> QED
      BY <1>0, <2>1 DEF QuotesInv, QuietMove
  <1> QED
    BY <1>2, <1>3, <1>4, <1>5 DEF Once

\* The trusted wallet pays the amount, before any part was tried.
LEMMA OnceWhole ==
    ASSUME PayTypes, NEW c \in Calls, Once(c), DOMAIN melts = {}, DOMAIN sent = {},
           NEW q \in DOMAIN quotes', Melted(q), quotes'[q].amt = Amount, Moves(c, "insert"),
           quotes' = quotes \/ \E p, r : Quoted(p, r) /\ r.amt = Amount, UNCHANGED sent
    PROVE  Once(c)'
  <1>1. PICK i : DOMAIN melts' = {i} /\ melts'[i].q = q
    BY DEF Melted
  <1>2. MeltAmt(i)' = Amount
    BY <1>1 DEF MeltAmt
  <1>3. call'[c].pc = "insert"
    BY DEF Moves
  <1>4. PartsInv(c)' /\ WholeInv(c)' /\ LegInv(c)'
    BY <1>1, <1>2, <1>3, PayAssumption DEF PartsInv, WholeInv, LegInv, Unsent
  <1>5. \A p \in DOMAIN quotes' : ~(quotes'[p].amt < Amount)
    <2>1. \A p \in DOMAIN quotes : ~(quotes[p].amt < Amount)
      BY DEF Once, QuotesInv
    <2>2. CASE quotes' = quotes
      BY <2>1, <2>2
    <2>3. ASSUME NEW k, NEW r, Quoted(k, r), r.amt = Amount, NEW p \in DOMAIN quotes'
          PROVE  ~(quotes'[p].amt < Amount)
      BY <2>1, <2>3, PayAssumption DEF Quoted
    <2> QED
      BY <2>2, <2>3
  <1>6. QuotesInv(c)'
    BY <1>3, <1>5 DEF QuotesInv
  <1> QED
    BY <1>4, <1>6 DEF Once

\* The lightning wallet pays, for the first time in the call.
LEMMA OnceSent ==
    ASSUME PayTypes, NEW c \in Calls, Once(c), call[c].pc \in {"try", "leg"},
           NEW p \in {"upsert", "splice", "surface"}, Moves(c, p),
           NEW x, DOMAIN sent' = {x}, sent'[x].amt <= Amount,
           \A i \in DOMAIN melts : MeltReq(i) = sent'[x].req => MeltAmt(i) + sent'[x].amt = Amount,
           UNCHANGED <<quotes, melts>>
    PROVE  Once(c)'
  <1>1. \A i : MeltAmt(i)' = MeltAmt(i) /\ MeltReq(i)' = MeltReq(i)
    BY DEF MeltAmt, MeltReq
  <1>2. /\ call'[c].pc = p
        /\ call'[c].methods = call[c].methods /\ call'[c].saw = call[c].saw
    BY DEF Moves
  <1>3. DOMAIN sent = {}
    BY DEF Once, LegInv, Unsent
  <1>4. PartsInv(c)'
    BY <1>1, <1>2, <1>3 DEF Once, PartsInv, Tried, PaidWithLeg
  <1>5. WholeInv(c)'
    BY <1>1 DEF Once, WholeInv
  <1>6. LegInv(c)'
    BY <1>1, <1>2 DEF Once, LegInv, Unsent
  <1>7. QuotesInv(c)'
    BY <1>2 DEF Once, QuotesInv
  <1> QED
    BY <1>4, <1>5, <1>6, <1>7 DEF Once

\* The network changes the states of payments; a part is paid together with the
\* lightning leg.
Moved ==
    /\ DOMAIN melts' = DOMAIN melts /\ \A i \in DOMAIN melts : melts'[i].q = melts[i].q
    /\ DOMAIN sent' = DOMAIN sent
    /\ \A x \in DOMAIN sent : /\ sent'[x].req = sent[x].req /\ sent'[x].amt = sent[x].amt
                              /\ sent[x].st = "completed" => sent'[x].st = "completed"
    /\ \A i \in DOMAIN melts : (melts'[i].st = "paid" /\ MeltAmt(i) < Amount) =>
          \/ melts[i].st = "paid"
          \/ \E x \in DOMAIN sent : sent'[x].st = "completed" /\ sent[x].req = MeltReq(i)
    /\ UNCHANGED <<quotes, call>>

\* Such a step keeps what a call knows of its payments.
LEMMA OnceMoved ==
    ASSUME NEW c \in Calls, Once(c), Moved
    PROVE  Once(c)'
  <1>0. /\ DOMAIN melts' = DOMAIN melts /\ DOMAIN sent' = DOMAIN sent
        /\ quotes' = quotes /\ call' = call
    BY DEF Moved
  <1>1. \A i \in DOMAIN melts : MeltAmt(i)' = MeltAmt(i) /\ MeltReq(i)' = MeltReq(i)
    BY DEF MeltAmt, MeltReq, Moved
  <1>2. PartsInv(c)'
    <2> SUFFICES ASSUME NEW i \in DOMAIN melts', MeltAmt(i)' < Amount
                 PROVE  /\ MeltAmt(i)' = call'[c].saw.trusted
                        /\ \A j \in DOMAIN melts' : MeltReq(j)' = MeltReq(i)' => j = i
                        /\ Tried(c, i)' /\ PaidWithLeg(i)'
      BY DEF PartsInv
    <2>0. i \in DOMAIN melts /\ MeltAmt(i)' = MeltAmt(i) /\ MeltReq(i)' = MeltReq(i) /\ MeltAmt(i) < Amount
      BY <1>0, <1>1
    <2>1. /\ MeltAmt(i) = call[c].saw.trusted
          /\ \A j \in DOMAIN melts : MeltReq(j) = MeltReq(i) => j = i
          /\ Tried(c, i) /\ PaidWithLeg(i)
      BY <2>0 DEF Once, PartsInv
    <2>2. Tried(c, i)'
      BY <1>0, <2>0, <2>1 DEF Tried
    <2>3. PaidWithLeg(i)'
      BY <1>0, <2>0, <2>1 DEF PaidWithLeg, Moved
    <2> QED
      BY <1>0, <1>1, <2>0, <2>1, <2>2, <2>3
  <1>3. WholeInv(c)'
    BY <1>0, <1>1 DEF Once, WholeInv
  <1>4. LegInv(c)'
    BY <1>0, <1>1 DEF Once, LegInv, Moved
  <1>5. QuotesInv(c)'
    BY <1>0 DEF Once, QuotesInv, Moved
  <1> QED
    BY <1>2, <1>3, <1>4, <1>5 DEF Once

\* A call that is at a try is at one of its methods.
LEMMA AtMethod ==
    ASSUME CallTypes, NEW c \in Calls, call[c].pc # "idle", call[c].at # End
    PROVE  /\ call[c].at \in (1..5) \X Nat /\ call[c].at[2] \in DOMAIN call[c].methods
           /\ call[c].methods \in Instructions /\ DOMAIN call[c].methods \subseteq Nat
           /\ call[c].methods[call[c].at[2]] = <<Try(c).ty, Try(c).req>>
           /\ Try(c).ty \in Passes[call[c].at[1]].tys
  <1>1. call[c].methods \in Instructions /\ Placed(c)
    BY DEF CallTypes
  <1>2. PICK m : m = call[c].methods
    OBVIOUS
  <1>3. PICK k : k = call[c].at[2]
    OBVIOUS
  <1>4. m \in Instructions /\ m \in Seq({"bolt11", "bolt12", "onchain"} \X Reqs) /\ k \in DOMAIN m
    BY <1>1, <1>2, <1>3, PayAssumption DEF Placed
  <1>5. m[k] \in {"bolt11", "bolt12", "onchain"} \X Reqs /\ DOMAIN m \subseteq Nat
    BY <1>4
  <1>6. Try(c).ty = m[k][1] /\ Try(c).req = m[k][2]
    BY <1>2, <1>3 DEF Try
  <1>7. m[k] = <<m[k][1], m[k][2]>>
    BY <1>5
  <1> QED
    BY <1>1, <1>2, <1>3, <1>4, <1>5, <1>6, <1>7 DEF Placed

\* A part of an invoice is paid, the first for that invoice.
LEMMA OncePart ==
    ASSUME PayTypes, NEW c \in Calls, Once(c), Trying(c, "mpp"), NEW q, NEW r,
           Quoted(q, r), r.req = Try(c).req, r.amt = call[c].saw.trusted, r.amt < Amount,
           Melted(q), Moves(c, "leg"), call'[c].at = call[c].at, UNCHANGED sent
    PROVE  Once(c)'
  <1>0. call[c].pc = "try" /\ call[c].at # End /\ Passes[call[c].at[1]].via = "mpp"
    BY DEF Trying
  <1>1. PICK n : /\ n \notin DOMAIN melts /\ DOMAIN melts' = DOMAIN melts \cup {n}
                 /\ melts'[n].q = q /\ melts'[n].st = "started"
                 /\ \A j \in DOMAIN melts : melts'[j] = melts[j]
    BY DEF Melted
  <1>2. \A i \in DOMAIN melts : MeltAmt(i)' = MeltAmt(i) /\ MeltReq(i)' = MeltReq(i)
    BY <1>1 DEF MeltAmt, MeltReq, Quoted, PayTypes, WalletTypes
  <1>3. MeltAmt(n)' = r.amt /\ MeltReq(n)' = r.req
    BY <1>1 DEF MeltAmt, MeltReq, Quoted
  <1>4. PICK k : k = call[c].at[2]
    OBVIOUS
  <1>5. /\ k \in DOMAIN call[c].methods /\ call[c].methods \in Instructions /\ k \in Nat
        /\ DOMAIN call[c].methods \subseteq Nat
        /\ call[c].at \in (1..5) \X Nat /\ Try(c).ty \in Passes[call[c].at[1]].tys
        /\ call[c].methods[k] = <<Try(c).ty, Try(c).req>>
    BY <1>0, <1>4, AtMethod DEF PayTypes
  <1>6. call[c].at[1] = 3 /\ Try(c).ty = "bolt11"
    <2>1. PICK p \in 1..5 : p = call[c].at[1]
      BY <1>5
    <2>2. p = 3
      BY <1>0, <2>1 DEF Passes
    <2> QED
      BY <1>5, <2>1, <2>2 DEF Passes
  <1>7. call'[c].pc = "leg" /\ call'[c].methods = call[c].methods /\ call'[c].saw = call[c].saw
    BY DEF Moves
  <1>8. \A i \in DOMAIN melts : MeltAmt(i) < Amount /\ Tried(c, i)
    BY <1>0, MeltIs DEF Once, PartsInv, WholeInv, PayTypes
  <1>9. ASSUME NEW i \in DOMAIN melts
        PROVE  /\ MeltReq(i) # r.req
               /\ Tried(c, i)'
    <2>1. PICK j \in DOMAIN call[c].methods :
              call[c].methods[j] = <<"bolt11", MeltReq(i)>> /\ Before(<<3, j>>, call[c].at)
      BY <1>0, <1>8 DEF Tried
    <2>2. j \in Nat /\ j < k
      BY <1>4, <1>5, <1>6, <2>1 DEF Before
    <2>3. ~Before(call[c].at, <<3, j>>)
      BY <1>4, <1>5, <1>6, <2>2 DEF Before
    <2>4. MeltReq(i) # r.req
      <3>1. SUFFICES ASSUME MeltReq(i) = r.req PROVE FALSE
        OBVIOUS
      <3>2. call[c].methods[j] = call[c].methods[k] /\ call[c].methods[j][1] = "bolt11"
        BY <1>5, <1>6, <2>1, <3>1
      <3>3. j = k
        BY <1>5, <3>2, MethodsAssumption
      <3> QED
        BY <1>5, <2>2, <3>3
    <2> QED
      BY <1>2, <1>7, <2>1, <2>3, <2>4 DEF Tried
  <1>10. DOMAIN sent = {} /\ DOMAIN sent' = {}
    BY <1>0 DEF Once, LegInv, Unsent
  <1>11. PartsInv(c)'
    <2> SUFFICES ASSUME NEW i \in DOMAIN melts', MeltAmt(i)' < Amount
                 PROVE  /\ MeltAmt(i)' = call'[c].saw.trusted
                        /\ \A j \in DOMAIN melts' : MeltReq(j)' = MeltReq(i)' => j = i
                        /\ Tried(c, i)' /\ PaidWithLeg(i)'
      BY DEF PartsInv
    <2>1. CASE i = n
      <3>1. Tried(c, n)'
        <4>1. ~Before(call[c].at, <<3, k>>)
          BY <1>4, <1>5, <1>6 DEF Before
        <4> QED
          BY <1>3, <1>5, <1>6, <1>7, <4>1 DEF Tried
      <3>2. PaidWithLeg(n)'
        BY <1>1 DEF PaidWithLeg
      <3> QED
        BY <1>1, <1>2, <1>3, <1>7, <1>9, <2>1, <3>1, <3>2
    <2>2. CASE i \in DOMAIN melts
      <3>1. /\ MeltAmt(i) = call[c].saw.trusted /\ PaidWithLeg(i)
            /\ \A j \in DOMAIN melts : MeltReq(j) = MeltReq(i) => j = i
        BY <1>8, <2>2 DEF Once, PartsInv
      <3>2. PaidWithLeg(i)'
        BY <1>1, <1>10, <2>2, <3>1 DEF PaidWithLeg
      <3> QED
        BY <1>1, <1>2, <1>3, <1>7, <1>9, <2>2, <3>1, <3>2
    <2> QED
      BY <1>1, <2>1, <2>2
  <1>12. WholeInv(c)'
    BY <1>1, <1>2, <1>3, <1>8, PayAssumption DEF WholeInv
  <1>13. LegInv(c)'
    BY <1>10 DEF LegInv
  <1>14. QuotesInv(c)'
    BY <1>1, <1>7 DEF Once, QuotesInv, Quoted
  <1> QED
    BY <1>11, <1>12, <1>13, <1>14 DEF Once

\* A call that leaves a try starts no payment.
LEMMA SkipQuiet ==
    ASSUME PayTypes, NEW c \in Calls, Skip(c), call[c].pc \in {"try", "estimated", "leg"},
           call[c].at # End, UNCHANGED <<melts, sent>>,
           quotes' = quotes \/ \E q, r : Quoted(q, r) /\ r.amt = Amount
    PROVE  QuietMove(c, "try")
  <1>1. /\ Moves(c, "try")
        /\ call'[c].at # End => call'[c].at \in (1..5) \X DOMAIN call[c].methods
    BY SkipCall DEF PayTypes
  <1>2. call[c].at \in (1..5) \X Nat /\ DOMAIN call[c].methods \subseteq Nat
    BY AtMethod DEF PayTypes
  <1>3. call'[c].at # End => Before(call[c].at, call'[c].at) /\ call'[c].at \in (1..5) \X Nat
    BY <1>1, <1>2, SkipAfter DEF PayTypes
  <1> QED
    BY <1>1, <1>2, <1>3 DEF QuietMove, PCs, Unsent

\* Nor does one that records what it has started, or ends.
LEMMA EndQuiet ==
    ASSUME PayTypes, NEW c \in Calls, NEW p \in {"ok", "legs", "upsert", "splice", "dropped"},
           Moves(c, p), call[c].pc # "idle", UNCHANGED <<quotes, melts, sent>>,
           call[c].pc \in {"insert", "ok", "dropped"} => p \in {"ok", "dropped"}
    PROVE  QuietMove(c, p)
  BY DEF QuietMove, PCs, Unsent

\* The steps of a call that start no payment.
LEMMA QuietCalls ==
    ASSUME PayTypes, NEW c \in Calls,
           \/ SkipTrusted(c) \/ EstimateTrusted(c) \/ InsertTrusted(c) \/ SkipLightning(c)
           \/ WriteSpliceOut(c) \/ UpsertLightning(c) \/ SkipMpp(c) \/ InsertSurface(c)
           \/ UpsertLeg(c) \/ ReturnErr(c) \/ Drop(c)
    PROVE  \E p : QuietMove(c, p)
  <1>0. {"ok", "legs", "upsert", "splice", "dropped", "err", "estimated"} \subseteq PCs /\ CallTypes
    BY DEF PCs, PayTypes
  <1>1. CASE SkipTrusted(c) \/ SkipLightning(c) \/ SkipMpp(c)
    BY <1>1, SkipQuiet DEF SkipTrusted, SkipLightning, SkipMpp, Trying
  <1>2. ASSUME NEW p \in {"ok", "legs", "upsert", "dropped"}, Step(c, p), call[c].pc # "idle",
               UNCHANGED <<quotes, melts, sent>>,
               call[c].pc \in {"insert", "ok", "dropped"} => p \in {"ok", "dropped"}
        PROVE  QuietMove(c, p)
    BY <1>0, <1>2, StepCall, EndQuiet
  <1>3. CASE InsertTrusted(c)
    BY <1>2, <1>3 DEF InsertTrusted
  <1>4. CASE WriteSpliceOut(c)
    BY <1>2, <1>4 DEF WriteSpliceOut
  <1>5. CASE UpsertLightning(c)
    BY <1>2, <1>5 DEF UpsertLightning
  <1>6. CASE InsertSurface(c)
    BY <1>2, <1>6 DEF InsertSurface
  <1>7. CASE UpsertLeg(c)
    BY <1>2, <1>7 DEF UpsertLeg
  <1>8. CASE Drop(c)
    BY <1>2, <1>8 DEF Drop
  <1>9. CASE ReturnErr(c)
    <2>1. Step(c, "err") /\ call[c].pc = "try" /\ UNCHANGED <<quotes, melts, sent>>
      BY <1>9 DEF ReturnErr
    <2>2. Moves(c, "err")
      BY <1>0, <2>1, StepCall
    <2>3. QuietMove(c, "err")
      BY <2>1, <2>2 DEF QuietMove, PCs, Unsent
    <2> QED
      BY <2>3
  <1>10. CASE EstimateTrusted(c)
    <2>1. /\ call[c].pc = "try" /\ call[c].at # End /\ UNCHANGED <<melts, sent>>
          /\ Passes[call[c].at[1]].via = "trusted"
      BY <1>10 DEF EstimateTrusted, Trying
    <2>2. quotes' = quotes \/ \E q, r : Quoted(q, r) /\ r.amt = Amount
      <3>1. ASSUME quotes' = Append(quotes, Quote(c, Amount))
            PROVE  \E q, r : Quoted(q, r) /\ r.amt = Amount
        <4>1. Amount \in 1..Amount
          BY PayAssumption
        <4>2. Quote(c, Amount) \in QuoteRec /\ Quote(c, Amount).amt = Amount
          BY <1>0, <2>1, <4>1, QuoteType
        <4> QED
          BY <3>1, <4>2, AppendQuote DEF PayTypes
      <3> QED
        BY <1>10, <3>1 DEF EstimateTrusted
    <2>3. CASE Skip(c)
      BY <2>1, <2>2, <2>3, SkipQuiet
    <2>4. CASE Step(c, "estimated")
      <3>1. Moves(c, "estimated") /\ call'[c].at = call[c].at
        BY <1>0, <2>4, StepCall
      <3>2. call[c].at \in (1..5) \X Nat
        BY <1>0, <2>1, AtMethod
      <3>3. QuietMove(c, "estimated")
        BY <2>1, <2>2, <3>1, <3>2 DEF QuietMove, PCs, Unsent
      <3> QED
        BY <3>3
    <2> QED
      BY <1>10, <2>3, <2>4 DEF EstimateTrusted
  <1> QED
    BY <1>1, <1>3, <1>4, <1>5, <1>6, <1>7, <1>8, <1>9, <1>10

\* Before the third pass the trusted wallet has been asked for nothing.
LEMMA NothingMelted ==
    ASSUME PayTypes, NEW c \in Calls, Once(c), call[c].pc \in {"try", "estimated"}, call[c].at # End,
           call[c].at[1] \in {1, 2}
    PROVE  DOMAIN melts = {}
  <1> SUFFICES ASSUME NEW i \in DOMAIN melts PROVE FALSE
    OBVIOUS
  <1>1. MeltAmt(i) < Amount
    BY MeltIs DEF Once, WholeInv, PayTypes
  <1>2. PICK k \in DOMAIN call[c].methods : Before(<<3, k>>, call[c].at)
    BY <1>1 DEF Once, PartsInv, Tried
  <1> QED
    BY <1>2 DEF Before

\* The trusted wallet pays the amount, or the call goes on.
LEMMA OnceTrusted ==
    ASSUME PayTypes, NEW c \in Calls, Once(c), PayTrusted(c)
    PROVE  Once(c)'
  <1>0. /\ call[c].pc = "estimated" /\ call[c].at # End /\ UNCHANGED sent
        /\ WalletTypes /\ CallTypes /\ Amount \in 1..Amount /\ "insert" \in PCs
    BY PayAssumption DEF PayTrusted, PayTypes, CallTypes, PCs
  <1>1. CASE Skip(c) /\ UNCHANGED <<quotes, melts>>
    BY <1>0, <1>1, SkipQuiet, OnceQuiet
  <1>2. DOMAIN sent = {}
    BY <1>0 DEF Once, LegInv, Unsent
  <1>3. ASSUME Try(c).ty \in {"bolt11", "bolt12"} PROVE DOMAIN melts = {}
    <2>1. /\ Passes[call[c].at[1]].via = "trusted" /\ call[c].at \in (1..5) \X Nat
          /\ Try(c).ty \in Passes[call[c].at[1]].tys
      BY <1>0, AtMethod DEF Once, QuotesInv
    <2>2. PICK p \in 1..5 : p = call[c].at[1]
      BY <2>1
    <2>3. p = 1
      BY <1>3, <2>1, <2>2 DEF Passes
    <2> QED
      BY <1>0, <2>2, <2>3, NothingMelted
  <1>4. ASSUME NEW q \in ReusableQuote(c), melts' = Append(melts, Melt(q)),
               Started(c, "insert", Trusted(q)), UNCHANGED quotes
        PROVE  Once(c)'
    <2>1. q \in DOMAIN quotes /\ q \in Nat /\ Try(c).ty = "bolt11"
      BY <1>0 DEF ReusableQuote, Active, WalletTypes
    <2>2. DOMAIN melts = {}
      BY <1>3, <2>1
    <2>3. Melted(q) /\ Trusted(q) \in Ids
      BY <1>0, <1>4, <2>1, AppendMelt, IdsAre
    <2>4. Moves(c, "insert")
      BY <1>0, <1>4, <2>3, StartedCall
    <2>5. quotes[q].amt = Amount
      <3>1. quotes[q] \in QuoteRec /\ ~(quotes[q].amt < Amount)
        BY <1>0, <2>1, <2>2 DEF Once, QuotesInv, WalletTypes
      <3> QED
        BY <3>1, PayAssumption DEF QuoteRec
    <2> QED
      BY <1>0, <1>2, <1>4, <2>1, <2>2, <2>3, <2>4, <2>5, OnceWhole
  <1>5. ASSUME quotes' = Append(quotes, Quote(c, Amount)), melts' = Append(melts, Melt(Len(quotes'))),
               Started(c, "insert", Trusted(Len(quotes'))), Try(c).ty \in {"bolt11", "bolt12"}
        PROVE  Once(c)'
    <2>1. PICK q : q = Len(quotes')
      OBVIOUS
    <2>2. Quote(c, Amount) \in QuoteRec /\ Quote(c, Amount).amt = Amount
      BY <1>0, QuoteType
    <2>3. Quoted(q, Quote(c, Amount))
      BY <1>0, <1>5, <2>1, <2>2, AppendQuote
    <2>4. q \in Nat /\ q \in DOMAIN quotes' /\ quotes'[q].amt = Amount /\ Trusted(q) \in Ids
      BY <2>2, <2>3, IdsAre DEF Quoted
    <2>5. Melted(q)
      BY <1>0, <1>5, <2>1, <2>4, AppendMelt
    <2>6. Moves(c, "insert")
      BY <1>0, <1>5, <2>1, <2>4, StartedCall
    <2> QED
      BY <1>0, <1>2, <1>3, <1>5, <2>2, <2>3, <2>4, <2>5, <2>6, OnceWhole
  <1>6. CASE \E q \in ReusableQuote(c) :
                 /\ melts' = Append(melts, Melt(q)) /\ Started(c, "insert", Trusted(q))
                 /\ UNCHANGED quotes
    BY <1>4, <1>6
  <1> QED
    BY <1>1, <1>5, <1>6 DEF PayTrusted

\* The trusted wallet pays a part, or the call goes on.
LEMMA OncePartial ==
    ASSUME PayTypes, NEW c \in Calls, Once(c), PayPartial(c)
    PROVE  Once(c)'
  <1>0. /\ Trying(c, "mpp") /\ call[c].pc = "try" /\ call[c].at # End /\ UNCHANGED sent
        /\ WalletTypes /\ CallTypes /\ "leg" \in PCs
    BY DEF PayPartial, Trying, PayTypes, PCs
  <1>1. CASE Skip(c) /\ UNCHANGED <<quotes, melts>>
    BY <1>0, <1>1, SkipQuiet, OnceQuiet
  <1>2. call[c].saw.trusted \in 1..Amount /\ call[c].saw.trusted < Amount
    BY <1>0, PayAssumption DEF PayPartial, CanSplit, CallTypes, Balances
  <1>3. CASE /\ quotes' = Append(quotes, Quote(c, call[c].saw.trusted))
             /\ melts' = Append(melts, Melt(Len(quotes')))
             /\ Started(c, "leg", Trusted(Len(quotes')))
    <2>1. PICK q : q = Len(quotes')
      OBVIOUS
    <2>2. PICK r : r = Quote(c, call[c].saw.trusted)
      OBVIOUS
    <2>3. r \in QuoteRec /\ r.amt = call[c].saw.trusted /\ r.req = Try(c).req
      BY <1>0, <1>2, <2>2, QuoteType DEF Quote
    <2>4. Quoted(q, r)
      BY <1>0, <1>3, <2>1, <2>2, <2>3, AppendQuote
    <2>5. q \in Nat /\ Trusted(q) \in Ids
      BY <2>4, IdsAre DEF Quoted
    <2>6. Melted(q)
      BY <1>0, <1>3, <2>1, <2>5, AppendMelt
    <2>7. Moves(c, "leg") /\ call'[c].at = call[c].at
      BY <1>0, <1>3, <2>1, <2>5, StartedCall
    <2> QED
      BY <1>0, <1>2, <2>3, <2>4, <2>6, <2>7, OncePart
  <1> QED
    BY <1>1, <1>3 DEF PayPartial

\* The lightning wallet pays the amount, or the call goes on.
LEMMA OnceLightning ==
    ASSUME PayTypes, NEW c \in Calls, Once(c), PayLightning(c)
    PROVE  Once(c)'
  <1>0. /\ call[c].pc = "try" /\ call[c].at # End /\ Passes[call[c].at[1]].via = "lightning"
        /\ UNCHANGED <<quotes, melts>> /\ CallTypes /\ {"upsert", "splice"} \subseteq PCs
    BY DEF PayLightning, Trying, PayTypes, PCs
  <1>1. CASE Skip(c) /\ UNCHANGED <<funds, sent>>
    BY <1>0, <1>1, SkipQuiet, OnceQuiet
  <1>2. SelfCustodial(LightningId(c)) \in Ids
    <2>1. Try(c).req \in Reqs
      BY <1>0, TryIs
    <2> QED
      BY <2>1, IdsAre DEF LightningId, SentIds
  <1>4. ASSUME NEW ty, sent' = With(sent, LightningId(c), Sent(c, ty, Amount)),
               NEW p \in {"upsert", "splice"}, Started(c, p, SelfCustodial(LightningId(c)))
        PROVE  Once(c)'
    <2>1. Moves(c, p)
      BY <1>0, <1>2, <1>4, StartedCall
    <2>2. DOMAIN sent = {}
      BY <1>0 DEF Once, LegInv, Unsent
    <2>3. PICK x : x = LightningId(c)
      OBVIOUS
    <2>4. DOMAIN sent' = {x} /\ sent'[x].amt = Amount /\ sent'[x].req = Try(c).req
      BY <1>4, <2>2, <2>3 DEF With, Sent
    <2>5. ASSUME NEW i \in DOMAIN melts PROVE MeltReq(i) # Try(c).req
      <3>1. /\ call[c].at \in (1..5) \X Nat /\ call[c].at[2] \in DOMAIN call[c].methods
            /\ call[c].methods \in Instructions
            /\ call[c].methods[call[c].at[2]] = <<Try(c).ty, Try(c).req>>
            /\ Try(c).ty \in Passes[call[c].at[1]].tys
        BY <1>0, AtMethod
      <3>2. PICK n \in 1..5 : n = call[c].at[1]
        BY <3>1
      <3>3. n \in {2, 5}
        BY <1>0, <3>2 DEF Passes
      <3>4. n # 2
        BY <1>0, <3>2, NothingMelted
      <3>5. Try(c).ty = "onchain"
        BY <3>1, <3>2, <3>3, <3>4 DEF Passes
      <3>6. MeltAmt(i) < Amount
        BY <1>0, MeltIs DEF Once, WholeInv, PayTypes
      <3>7. PICK k \in DOMAIN call[c].methods : call[c].methods[k] = <<"bolt11", MeltReq(i)>>
        BY <3>6 DEF Once, PartsInv, Tried
      <3>8. /\ [req |-> MeltReq(i), ty |-> "bolt11"] \in Requests
            /\ [req |-> Try(c).req, ty |-> "onchain"] \in Requests
        BY <3>1, <3>5, <3>7 DEF Requests
      <3> QED
        BY <3>8, MethodsAssumption
    <2> QED
      BY <1>0, <2>1, <2>4, <2>5, OnceSent, PayAssumption
  <1> QED
    BY <1>1, <1>4 DEF PayLightning, Send

\* The lightning wallet pays the rest, or the call goes on.
LEMMA OnceLeg ==
    ASSUME PayTypes, NEW c \in Calls, Once(c), PayUnderpaying(c)
    PROVE  Once(c)'
  <1>0. /\ call[c].pc = "leg" /\ call[c].at # End /\ Passes[call[c].at[1]].via = "mpp"
        /\ UNCHANGED <<quotes, melts>> /\ CallTypes /\ "surface" \in PCs
        /\ call[c].saw.trusted \in Nat /\ call[c].saw.trusted < Amount
    BY DEF PayUnderpaying, PayTypes, CallTypes, PCs, Balances
  <1>1. CASE Skip(c) /\ UNCHANGED <<funds, sent>>
    BY <1>0, <1>1, SkipQuiet, OnceQuiet
  <1>2. CASE /\ sent' = With(sent, LightningId(c), Sent(c, Try(c).ty, LightningPortion(c)))
             /\ call' = [call EXCEPT ![c].pc = "surface", ![c].leg = SelfCustodial(LightningId(c))]
    <2>1. SelfCustodial(LightningId(c)) \in Ids
      <3>1. Try(c).req \in Reqs
        BY <1>0, TryIs
      <3> QED
        BY <3>1, IdsAre DEF LightningId, SentIds
    <2>2. Moves(c, "surface")
      BY <1>0, <1>2, <2>1, LegCall
    <2>3. DOMAIN sent = {}
      BY <1>0 DEF Once, LegInv, Unsent
    <2>4. PICK x : x = LightningId(c)
      OBVIOUS
    <2>5. DOMAIN sent' = {x} /\ sent'[x].amt = Amount - call[c].saw.trusted
      BY <1>2, <2>3, <2>4 DEF With, Sent, LightningPortion
    <2>6. \A i \in DOMAIN melts : MeltAmt(i) = call[c].saw.trusted
      BY <1>0, MeltIs DEF Once, PartsInv, WholeInv, PayTypes
    <2>7. sent'[x].amt <= Amount /\ \A i \in DOMAIN melts : MeltAmt(i) + sent'[x].amt = Amount
      BY <1>0, <2>5, <2>6, PayAssumption
    <2> QED
      BY <1>0, <2>2, <2>5, <2>7, OnceSent
  <1> QED
    BY <1>1, <1>2 DEF PayUnderpaying, Send

\* A call begins without a payment.
LEMMA OnceStart ==
    ASSUME PayTypes, NEW c \in Calls, Once(c), StartPay(c)
    PROVE  Once(c)'
  <1>1. call[c].pc = "idle" /\ UNCHANGED <<quotes, melts, sent>>
    BY DEF StartPay
  <1>2. DOMAIN quotes = {} /\ DOMAIN sent = {}
    BY <1>1 DEF Once, LegInv, QuotesInv, Unsent
  <1>3. DOMAIN melts = {}
    BY <1>2 DEF PayTypes, WalletTypes
  <1>4. call'[c].pc = "try"
    BY StartCall DEF PayTypes
  <1> QED
    BY <1>1, <1>2, <1>3, <1>4 DEF Once, PartsInv, WholeInv, LegInv, QuotesInv

\* A melt or a payment that is prepared, fails or is reported.
LEMMA StateMoves ==
    ASSUME WalletTypes,
           \/ \E i \in DOMAIN melts : PrepareMelt(i) \/ FailMelt(i) \/ ReportMelt(i)
           \/ \E x \in DOMAIN sent : FailSent(x) \/ ReportSent(x) \/ SpliceNegotiated(x)
    PROVE  Moved
  <1>0. /\ melts \in Seq(MeltRec) /\ sent \in [DOMAIN sent -> SentRec]
    BY DEF WalletTypes
  <1>1. ASSUME NEW i \in DOMAIN melts, PrepareMelt(i) \/ FailMelt(i) PROVE Moved
    <2>1. PICK v \in {"pending", "failed", "forgotten"} : melts' = [melts EXCEPT ![i].st = v]
      BY <1>1 DEF PrepareMelt, FailMelt
    <2>2. UNCHANGED <<quotes, sent, call>>
      BY <1>1 DEF PrepareMelt, FailMelt
    <2>3. melts[i] \in MeltRec
      BY <1>0
    <2>4. /\ DOMAIN melts' = DOMAIN melts
          /\ \A j \in DOMAIN melts : /\ melts'[j].q = melts[j].q
                                     /\ melts'[j].st = "paid" => melts[j].st = "paid"
      BY <1>0, <2>1, <2>3 DEF MeltRec
    <2> QED
      BY <2>2, <2>4 DEF Moved
  <1>2. ASSUME NEW i \in DOMAIN melts, ReportMelt(i) PROVE Moved
    <2>1. MeltReported(i)
      BY <1>2, ReportSteps
    <2> QED
      BY <2>1 DEF MeltReported, Moved
  <1>3. ASSUME NEW x \in DOMAIN sent, FailSent(x) \/ ReportSent(x) \/ SpliceNegotiated(x) PROVE Moved
    <2>1. \/ sent[x].st = "pending" /\ sent' = [sent EXCEPT ![x].st = "failed"]
          \/ sent' = [sent EXCEPT ![x].told = TRUE]
      BY <1>3 DEF FailSent, ReportSent, SpliceNegotiated
    <2>2. UNCHANGED <<quotes, melts, call>>
      BY <1>3 DEF FailSent, ReportSent, SpliceNegotiated
    <2>3. /\ DOMAIN sent' = DOMAIN sent
          /\ \A y \in DOMAIN sent : /\ sent'[y].req = sent[y].req /\ sent'[y].amt = sent[y].amt
                                    /\ sent[y].st = "completed" => sent'[y].st = "completed"
      <3>1. sent[x] \in SentRec
        BY <1>0
      <3>2. PICK e \in {[sent[x] EXCEPT !.st = "failed"], [sent[x] EXCEPT !.told = TRUE]} :
               /\ sent' = [sent EXCEPT ![x] = e]
               /\ sent[x].st = "completed" => e = [sent[x] EXCEPT !.told = TRUE]
        BY <1>0, <2>1
      <3>3. /\ e.req = sent[x].req /\ e.amt = sent[x].amt
            /\ sent[x].st = "completed" => e.st = "completed"
        BY <3>1, <3>2 DEF SentRec
      <3>4. DOMAIN sent' = DOMAIN sent /\ \A y \in DOMAIN sent : sent'[y] = IF y = x THEN e ELSE sent[y]
        BY <1>0, <3>2
      <3> QED
        BY <3>3, <3>4
    <2> QED
      BY <2>2, <2>3 DEF Moved
  <1> QED
    BY <1>1, <1>2, <1>3

\* Payments settle; a part does with its leg.
LEMMA PayMoves ==
    ASSUME WalletTypes, NEW ms \in SUBSET DOMAIN melts, NEW ss \in SUBSET DOMAIN sent, Pay(ms, ss),
           \A i \in ms : MeltAmt(i) < Amount => \E x \in ss : sent[x].req = MeltReq(i)
    PROVE  Moved
  <1>0. /\ melts \in Seq(MeltRec) /\ sent \in [DOMAIN sent -> SentRec]
    BY DEF WalletTypes
  <1>1. /\ melts' = [i \in DOMAIN melts |-> IF i \in ms THEN [melts[i] EXCEPT !.st = "paid"] ELSE melts[i]]
        /\ sent' = [x \in DOMAIN sent |-> IF x \in ss THEN [sent[x] EXCEPT !.st = "completed"] ELSE sent[x]]
        /\ UNCHANGED <<quotes, call>>
    BY DEF Pay
  <1>2. /\ DOMAIN melts' = DOMAIN melts
        /\ \A i \in DOMAIN melts : /\ melts'[i].q = melts[i].q
                                   /\ melts'[i].st = "paid" => melts[i].st = "paid" \/ i \in ms
    <2>1. \A i \in DOMAIN melts : melts[i] \in MeltRec
      BY <1>0
    <2> QED
      BY <1>1, <2>1 DEF MeltRec
  <1>3. /\ DOMAIN sent' = DOMAIN sent
        /\ \A x \in DOMAIN sent : /\ sent'[x].req = sent[x].req /\ sent'[x].amt = sent[x].amt
                                  /\ sent[x].st = "completed" => sent'[x].st = "completed"
                                  /\ x \in ss => sent'[x].st = "completed"
    BY <1>0, <1>1 DEF SentRec
  <1> QED
    BY <1>1, <1>2, <1>3 DEF Moved

\* The receiver claims an invoice only with all of it.
LEMMA ClaimMoves ==
    ASSUME WalletTypes, NEW c \in Calls, Once(c), NEW r \in Requests, Claim(r)
    PROVE  Moved
  <1>1. PICK ms : ms = MeltsFor(r.req)
    OBVIOUS
  <1>2. PICK ss : ss = SentFor(r.req)
    OBVIOUS
  <1>3. /\ ms \in SUBSET DOMAIN melts /\ \A i \in ms : MeltReq(i) = r.req
        /\ ss \in SUBSET DOMAIN sent /\ \A x \in ss : sent[x].req = r.req
    BY <1>1, <1>2 DEF MeltsFor, SentFor, MeltReq
  <1>4. Pay(ms, ss) /\ AmountOf(ms, ss) >= Amount
    BY <1>1, <1>2 DEF Claim
  <1>5. ASSUME NEW i \in ms, MeltAmt(i) < Amount PROVE ss # {}
    <2>1. ms = {i}
      BY <1>3, <1>5 DEF Once, PartsInv
    <2>2. ss = {} => AmountOf(ms, ss) = MeltAmt(i)
      BY <1>3, <2>1, AmountIs
    <2>3. MeltAmt(i) \in Nat
      BY <1>3, MeltIs
    <2> QED
      BY <1>4, <1>5, <2>2, <2>3, PayAssumption
  <1>6. \A i \in ms : MeltAmt(i) < Amount => \E x \in ss : sent[x].req = MeltReq(i)
    BY <1>3, <1>5
  <1> QED
    BY <1>3, <1>4, <1>6, PayMoves

\* What settles by itself is no part of an invoice.
LEMMA SettleMoves ==
    ASSUME PayTypes, NEW c \in Calls, Once(c), NEW r \in Requests, Settle(r)
    PROVE  Moved
  <1>0. WalletTypes /\ CallTypes
    BY DEF PayTypes
  <1>1. ASSUME NEW i \in MeltsFor(r.req), Pay({i}, {}) PROVE Moved
    <2>1. i \in DOMAIN melts /\ MeltReq(i) = r.req
      BY DEF MeltsFor, MeltReq
    <2>2. ASSUME MeltAmt(i) < Amount PROVE FALSE
      <3>1. PICK k \in DOMAIN call[c].methods : call[c].methods[k] = <<"bolt11", MeltReq(i)>>
        BY <2>1, <2>2 DEF Once, PartsInv, Tried
      <3>2. call[c].methods \in Instructions
        <4>1. call[c].methods \in Instructions \cup {<<>>}
          BY <1>0 DEF CallTypes, CallRec
        <4> QED
          BY <3>1, <4>1
      <3>3. [req |-> MeltReq(i), ty |-> "bolt11"] \in Requests
        BY <3>1, <3>2 DEF Requests
      <3> QED
        BY <2>1, <3>3, MethodsAssumption DEF Settle
    <2> QED
      BY <1>0, <1>1, <2>1, <2>2, PayMoves
  <1>2. ASSUME NEW x \in SentFor(r.req), Pay({}, {x}) PROVE Moved
    <2>1. x \in DOMAIN sent
      BY DEF SentFor
    <2> QED
      BY <1>0, <1>2, <2>1, PayMoves
  <1> QED
    BY <1>1, <1>2 DEF Settle

\* Every step keeps what a call that is alone knows of its payments.
LEMMA OnceStep ==
    ASSUME PayInv, OnceInv, [Next]_vars
    PROVE  OnceInv'
  <1> SUFFICES ASSUME NEW c \in Calls, Alone(c)' PROVE Once(c)'
    BY DEF OnceInv
  <1>0. PayTypes /\ WalletTypes /\ StartedInv
    BY DEF PayInv, PayTypes
  <1>1. ASSUME UNCHANGED <<quotes, melts, sent, call>> PROVE Once(c)'
    <2>1. Once(c)
      BY <1>1 DEF OnceInv, Alone
    <2>2. Moved
      BY <1>1 DEF Moved
    <2> QED
      BY <2>1, <2>2, OnceMoved
  <1>2. CASE UNCHANGED vars \/ get_single_use_receive_uri \/ Received
    BY <1>1, <1>2 DEF vars, get_single_use_receive_uri, Received
  <1>3. ASSUME NEW d \in Calls,
               \/ StartPay(d) \/ SkipTrusted(d) \/ EstimateTrusted(d) \/ PayTrusted(d) \/ InsertTrusted(d)
               \/ SkipLightning(d) \/ PayLightning(d) \/ WriteSpliceOut(d) \/ UpsertLightning(d)
               \/ SkipMpp(d) \/ PayPartial(d) \/ PayUnderpaying(d) \/ InsertSurface(d) \/ UpsertLeg(d)
               \/ ReturnErr(d) \/ Drop(d)
        PROVE  Once(c)'
    <2>1. CallStep(d)
      BY <1>0, <1>3, QuietSteps, PaySteps, SendSteps, RecordSteps, Zenon DEF CallStep
    <2>2. d = c /\ Alone(c)
      BY <1>0, <2>1, CallStepFrame
    <2>3. Once(c)
      BY <2>2 DEF OnceInv
    <2>4. CASE \/ SkipTrusted(c) \/ EstimateTrusted(c) \/ InsertTrusted(c) \/ SkipLightning(c)
               \/ WriteSpliceOut(c) \/ UpsertLightning(c) \/ SkipMpp(c) \/ InsertSurface(c)
               \/ UpsertLeg(c) \/ ReturnErr(c) \/ Drop(c)
      BY <1>0, <2>3, <2>4, QuietCalls, OnceQuiet
    <2>5. CASE StartPay(c) \/ PayTrusted(c) \/ PayLightning(c) \/ PayPartial(c) \/ PayUnderpaying(c)
      BY <1>0, <2>3, <2>5, OnceStart, OnceTrusted, OnceLightning, OncePartial, OnceLeg
    <2> QED
      BY <1>3, <2>2, <2>4, <2>5, Zenon
  <1>4. ASSUME UNCHANGED call PROVE Once(c)
    BY <1>4 DEF OnceInv, Alone
  <1>5. CASE \/ \E i \in DOMAIN melts : PrepareMelt(i) \/ FailMelt(i) \/ ReportMelt(i)
             \/ \E x \in DOMAIN sent : FailSent(x) \/ ReportSent(x) \/ SpliceNegotiated(x)
    <2>1. UNCHANGED call
      BY <1>5 DEF PrepareMelt, FailMelt, ReportMelt, FailSent, ReportSent, SpliceNegotiated
    <2> QED
      BY <1>0, <1>4, <1>5, <2>1, StateMoves, OnceMoved
  <1>6. ASSUME NEW r \in Requests, Claim(r) \/ Settle(r) PROVE Once(c)'
    <2>1. UNCHANGED call
      BY <1>6 DEF Claim, Settle, Pay
    <2> QED
      BY <1>0, <1>4, <1>6, <2>1, ClaimMoves, SettleMoves, OnceMoved
  <1> QED
    BY <1>2, <1>3, <1>5, <1>6, Zenon DEF Next

\* However a call of pay got on, it pays its amount at most once, and nothing
\* at all if it returned an error, as long as it is the only call.
THEOREM PaysOnceSafe == Spec => []PaysOnce
  <1>1. Init => OnceInv
    <2> SUFFICES ASSUME Init, NEW c \in Calls PROVE Once(c)
      BY DEF OnceInv
    <2>1. DOMAIN quotes = {} /\ DOMAIN melts = {} /\ DOMAIN sent = {} /\ call[c].pc = "idle"
      BY DEF Init, Idle
    <2> QED
      BY <2>1 DEF Once, PartsInv, WholeInv, LegInv, QuotesInv
  <1>2. PayInv /\ OnceInv => PaysOnce
    BY OncePays DEF PayInv, PayTypes
  <1> QED
    BY <1>1, <1>2, PayAlways, OnceStep, PTL DEF Spec

=============================================================================
