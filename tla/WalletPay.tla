------------------------------ MODULE WalletPay ------------------------------
(***************************************************************************)
(* `Wallet::pay`: the order in which the wallets are tried, what each try  *)
(* leaves behind, and how the payments are listed.  Calls may overlap, pay *)
(* the same invoice, or be dropped at an await.  The trusted wallet is     *)
(* Cashu, where a payment is a melt quote that a later call for the same   *)
(* invoice finds again, or Spark, where every payment is new.              *)
(*                                                                         *)
(* The legs' events of a split payment and the crash behaviour of its      *)
(* records are in MppPayment.                                              *)
(***************************************************************************)
EXTENDS ListTransactions, Sequences, FiniteSetsExt

CONSTANTS
    Calls,         \* calls of pay, each made at most once
    Instructions,  \* sequences of payment methods, <<type, request>>
    Amount,        \* the amount of every request
    Tunables,      \* trusted_balance_limit, rebalance_min
    Funds,         \* the balances the wallets may start with
    Backends,      \* trusted wallets, subset of {"cashu", "spark"}
    MaxQuotes,     \* bound: quotes and melts of the trusted wallet
    MaxReceipts,   \* bound: receive requests
    None

\* The requests of the instructions, each an invoice, an offer or an address.
Reqs == UNION {{m[i][2] : i \in DOMAIN m} : m \in Instructions}

Requests == UNION {{[req |-> m[i][2], ty |-> m[i][1]] : i \in DOMAIN m} : m \in Instructions}

\* The ids of payments: PaymentId::Trusted and PaymentId::SelfCustodial.
Trusted(q) == <<"trusted", q>>
SelfCustodial(x) == <<"self", x>>

\* LDK names a BOLT 11 payment after its hash; others get ids of their own.
ByHash(r) == <<"hash", r>>
ByCall(c) == <<"call", c>>

SentIds == {ByHash(r) : r \in Reqs} \cup {ByCall(c) : c \in Calls}

ASSUME PayAssumption ==
    /\ Amount \in Nat \ {0} /\ MaxQuotes \in Nat /\ MaxReceipts \in Nat
    /\ Backends \subseteq {"cashu", "spark"}
    /\ Funds \subseteq [trusted : Nat, lightning : Nat, onchain : Nat]
    /\ Instructions \subseteq Seq({"bolt11", "bolt12", "onchain"} \X Reqs)
    /\ None \notin ({"trusted"} \X Nat) \cup ({"self"} \X SentIds)

\* A request is of one type, and an invoice is listed once (external: the parser
\* of the instructions).
ASSUME MethodsAssumption ==
    /\ \A r, s \in Requests : r.req = s.req => r.ty = s.ty
    /\ \A m \in Instructions : \A i, j \in DOMAIN m : (m[i] = m[j] /\ m[i][1] = "bolt11") => i = j

VARIABLES
    backend,
    funds,      \* spendable: trusted, lightning (in channels), onchain
    uri,        \* the receive request handed out, and by which wallet
    receipts,   \* how many were handed out
    quotes,     \* Cashu's melt quotes, or Spark's payments: the trusted ids
    melts,      \* attempts to pay a quote, in the order they were started
    sent,       \* payments of the lightning wallet
    splices,    \* the splice_out namespace
    mem,        \* TxMetadataStore::tx_metadata
    call,       \* the calls of pay
    claimed,    \* requests whose receiver has claimed them
    reinserted  \* history: ids that were inserted when they had a record already

vars == <<backend, funds, uri, receipts, quotes, melts, sent, splices, mem, call,
          claimed, reinserted>>

Plain == [ty |-> "payment", preimage |-> FALSE]

\* A call's place in its tries: the pass over the methods, and the method.
End == <<0, 0>>

Idle == [pc |-> "idle", methods |-> <<>>, at |-> End, saw |-> None, id |-> None, leg |-> None]

Init ==
    /\ backend \in Backends
    /\ funds \in Funds
    /\ uri = None /\ receipts = 0
    /\ quotes = <<>> /\ melts = <<>> /\ sent = <<>>
    /\ splices = {} /\ mem = <<>>
    /\ call = [c \in Calls |-> Idle]
    /\ claimed = {} /\ reinserted = {}

-----------------------------------------------------------------------------
\* get_single_use_receive_uri: which wallet issues the invoice.  The lightning
\* wallet's balance stands for what it can receive (external).

ReceiveFrom(amt, receivable, online, answer) ==
    LET use_ln == \/ amt > Tunables.trusted_balance_limit
                  \/ amt + Tunables.rebalance_min < receivable /\ online
    IN  CASE ~use_ln -> "trusted"
          [] use_ln /\ answer = "ok" -> "lightning"
          [] use_ln /\ answer = "no liquidity" -> "trusted"
          [] OTHER -> "error"

get_single_use_receive_uri ==
    /\ uri = None /\ receipts < MaxReceipts
    /\ \E amt \in 1..Amount, online \in BOOLEAN, answer \in {"ok", "no liquidity", "error"} :
          LET from == ReceiveFrom(amt, funds.lightning, online, answer)
          IN  uri' = IF from = "error" THEN None ELSE [amt |-> amt, from |-> from]
    /\ receipts' = receipts + 1
    /\ UNCHANGED <<backend, funds, quotes, melts, sent, splices, mem, call, claimed, reinserted>>

\* The request is paid (external).
Received ==
    /\ uri # None
    /\ funds' = [funds EXCEPT ![uri.from] = @ + uri.amt]
    /\ uri' = None
    /\ UNCHANGED <<backend, receipts, quotes, melts, sent, splices, mem, call, claimed, reinserted>>

-----------------------------------------------------------------------------
\* pay: five passes over the methods, each for the methods of some types.
Passes == <<[via |-> "trusted",   tys |-> {"bolt11", "bolt12"}],
            [via |-> "lightning", tys |-> {"bolt11", "bolt12"}],
            [via |-> "mpp",       tys |-> {"bolt11"}],
            [via |-> "trusted",   tys |-> {"onchain"}],
            [via |-> "lightning", tys |-> {"onchain"}]>>

\* Only Cashu supports partial payments.
Tries(methods) ==
    {at \in (1..5) \X DOMAIN methods :
        /\ methods[at[2]][1] \in Passes[at[1]].tys
        /\ Passes[at[1]].via = "mpp" => backend = "cashu"}

Before(a, b) == a[1] < b[1] \/ (a[1] = b[1] /\ a[2] < b[2])

\* The first try after a place, or the end.
NextTry(methods, at) ==
    LET later == {a \in Tries(methods) : Before(at, a)}
    IN  {a \in later : \A b \in later : ~Before(b, a)} \cup (IF later = {} THEN {End} ELSE {})

\* The balances are read once, when the call starts.
StartPay(c) ==
    /\ call[c].pc = "idle"
    /\ \E methods \in Instructions : \E at \in NextTry(methods, End) :
          call' = [call EXCEPT ![c] = [pc |-> "try", methods |-> methods, at |-> at, saw |-> funds,
                                       id |-> None, leg |-> None]]
    /\ UNCHANGED <<backend, funds, uri, receipts, quotes, melts, sent, splices, mem, claimed, reinserted>>

Try(c) == LET m == call[c].methods[call[c].at[2]] IN [ty |-> m[1], req |-> m[2]]

Trying(c, via) == call[c].pc = "try" /\ call[c].at # End /\ Passes[call[c].at[1]].via = via

\* The try came to nothing.
Skip(c) == \E at \in NextTry(call[c].methods, call[c].at) :
              call' = [call EXCEPT ![c].pc = "try", ![c].at = at]

Step(c, pc) == call' = [call EXCEPT ![c].pc = pc]

Started(c, pc, id) == call' = [call EXCEPT ![c].pc = pc, ![c].id = id]

Quote(c, amt) == [req |-> Try(c).req, ty |-> Try(c).ty, amt |-> amt]

Melt(q) == [q |-> q, st |-> "started", told |-> FALSE]

-----------------------------------------------------------------------------
\* pay_trusted.  A balance that does not suffice, ...
SkipTrusted(c) ==
    /\ Trying(c, "trusted") /\ Amount > call[c].saw.trusted
    /\ Skip(c)
    /\ UNCHANGED <<backend, funds, uri, receipts, quotes, melts, sent, splices, mem, claimed, reinserted>>

\* ... the estimate, for which Cashu makes a quote (a failed estimate counts as
\* no fee), and which may turn out too high ...
EstimateTrusted(c) ==
    /\ Trying(c, "trusted") /\ Amount <= call[c].saw.trusted
    /\ \/ Step(c, "estimated") /\ UNCHANGED quotes
       \/ /\ backend = "cashu" /\ Try(c).ty # "onchain" /\ Len(quotes) < MaxQuotes
          /\ quotes' = Append(quotes, Quote(c, Amount))
          /\ Step(c, "estimated") \/ Skip(c)
    /\ UNCHANGED <<backend, funds, uri, receipts, melts, sent, splices, mem, claimed, reinserted>>

\* get_active_melt_quotes (external): the quotes that are not paid.
Active == {q \in DOMAIN quotes : ~\E i \in DOMAIN melts : melts[i].q = q /\ melts[i].st = "paid"}

\* A BOLT 11 payment uses an active quote for the invoice if there is one.
ReusableQuote(c) == {q \in Active : Try(c).ty = "bolt11" /\ quotes[q].req = Try(c).req}

\* ... and the payment itself, which runs in a task of its own: Cashu's pay
\* spawns the melt of a quote, Spark's sends under a new id.
PayTrusted(c) ==
    /\ call[c].pc = "estimated"
    /\ \/ Skip(c) /\ UNCHANGED <<quotes, melts>>
       \/ /\ backend = "cashu" /\ Len(melts) < MaxQuotes
          /\ \E q \in ReusableQuote(c) :
                /\ melts' = Append(melts, Melt(q))
                /\ Started(c, "insert", Trusted(q))
          /\ UNCHANGED quotes
       \/ /\ Try(c).ty \in (IF backend = "cashu" THEN {"bolt11", "bolt12"} ELSE {"bolt11"})
          /\ backend = "spark" \/ ReusableQuote(c) = {}
          /\ Len(quotes) < MaxQuotes /\ Len(melts) < MaxQuotes
          /\ quotes' = Append(quotes, Quote(c, Amount))
          /\ melts' = Append(melts, Melt(Len(quotes')))
          /\ Started(c, "insert", Trusted(Len(quotes')))
    /\ UNCHANGED <<backend, funds, uri, receipts, sent, splices, mem, claimed, reinserted>>

With(f, k, v) == [x \in DOMAIN f \cup {k} |-> IF x = k THEN v ELSE f[x]]

\* TxMetadataStore::upsert, and insert, which does the same and then asserts that
\* there was no record.
Record(id, entry) == mem' = With(mem, id, entry)

Insert(id, entry) ==
    /\ Record(id, entry)
    /\ reinserted' = reinserted \cup {k \in {id} : k \in DOMAIN mem}

\* Its metadata, inserted once pay has returned the id.
InsertTrusted(c) ==
    /\ call[c].pc = "insert"
    /\ Insert(call[c].id, Plain)
    /\ Step(c, "ok")
    /\ UNCHANGED <<backend, funds, uri, receipts, quotes, melts, sent, splices, claimed>>

-----------------------------------------------------------------------------
\* pay_lightning.  The larger of two balances counts for a payment on chain.
BalanceFor(c) ==
    IF Try(c).ty = "onchain" /\ call[c].saw.onchain > call[c].saw.lightning
    THEN call[c].saw.onchain ELSE call[c].saw.lightning

SkipLightning(c) ==
    /\ Trying(c, "lightning") /\ Amount > BalanceFor(c)
    /\ Skip(c)
    /\ UNCHANGED <<backend, funds, uri, receipts, quotes, melts, sent, splices, mem, claimed, reinserted>>

Sent(c, ty, amt) == [req |-> Try(c).req, ty |-> ty, amt |-> amt, st |-> "pending", told |-> FALSE]

\* A BOLT 11 payment is sent again only after it failed.
LightningId(c) == IF Try(c).ty = "bolt11" THEN ByHash(Try(c).req) ELSE ByCall(c)

Sendable(c) == ~(LightningId(c) \in DOMAIN sent /\ sent[LightningId(c)].st # "failed")

Send(c, from, ty, amt) ==
    /\ Sendable(c) /\ amt <= funds[from]
    /\ funds' = [funds EXCEPT ![from] = @ - amt]
    /\ sent' = With(sent, LightningId(c), Sent(c, ty, amt))

\* LightningWallet::pay: over lightning, from the on-chain balance, or, if that
\* is too small, by a splice out of the channel.
PayLightning(c) ==
    /\ Trying(c, "lightning") /\ Amount <= BalanceFor(c)
    /\ \/ Skip(c) /\ UNCHANGED <<funds, sent>>
       \/ /\ Try(c).ty # "onchain"
          /\ Send(c, "lightning", Try(c).ty, Amount)
          /\ Started(c, "upsert", SelfCustodial(LightningId(c)))
       \/ /\ Try(c).ty = "onchain" /\ funds.onchain > Amount
          /\ Send(c, "onchain", "onchain", Amount)
          /\ Started(c, "upsert", SelfCustodial(LightningId(c)))
       \/ /\ Try(c).ty = "onchain" /\ funds.onchain <= Amount
          /\ Send(c, "lightning", "splice", Amount)
          /\ Started(c, "splice", SelfCustodial(LightningId(c)))
    /\ UNCHANGED <<backend, uri, receipts, quotes, melts, splices, mem, claimed, reinserted>>

\* The handler of SpliceNegotiated reserves a PendingRebalance record for the
\* funding transaction, unless it has one, and puts it in the inbox.
SpliceNegotiated(x) ==
    LET id == SelfCustodial(x) IN
    /\ sent[x].ty = "splice" /\ sent[x].st # "failed" /\ ~sent[x].told
    /\ sent' = [sent EXCEPT ![x].told = TRUE]
    /\ mem' = IF id \in DOMAIN mem THEN mem ELSE With(mem, id, [ty |-> "pending"])
    /\ UNCHANGED <<backend, funds, uri, receipts, quotes, melts, splices, call, claimed, reinserted>>

\* await_splice_pending returned, and the splice out is written.  After a failed
\* negotiation, which is only logged, it does not return.
\* Two waiters of one channel may get each other's outpoint: OnchainRebalance.
WriteSpliceOut(c) ==
    /\ call[c].pc = "splice" /\ sent[call[c].id[2]].told
    /\ splices' = splices \cup {call[c].id}
    /\ Step(c, "upsert")
    /\ UNCHANGED <<backend, funds, uri, receipts, quotes, melts, sent, mem, claimed, reinserted>>

UpsertLightning(c) ==
    /\ call[c].pc = "upsert"
    /\ Record(call[c].id, Plain)
    /\ Step(c, "ok")
    /\ UNCHANGED <<backend, funds, uri, receipts, quotes, melts, sent, splices, claimed, reinserted>>

-----------------------------------------------------------------------------
\* try_mpp_bolt11: the trusted wallet pays what it has, lightning the rest.

\* Mutant: the lightning leg pays the whole amount.
WholeAmount(c) == Amount

LightningPortion(c) == Amount - call[c].saw.trusted

CanSplit(c) ==
    /\ call[c].saw.trusted > 0 /\ call[c].saw.trusted < Amount
    /\ LightningPortion(c) <= call[c].saw.lightning

SkipMpp(c) ==
    /\ Trying(c, "mpp") /\ ~CanSplit(c)
    /\ Skip(c)
    /\ UNCHANGED <<backend, funds, uri, receipts, quotes, melts, sent, splices, mem, claimed, reinserted>>

\* pay_partial always asks for a new quote.
PayPartial(c) ==
    /\ Trying(c, "mpp") /\ CanSplit(c)
    /\ \/ Skip(c) /\ UNCHANGED <<quotes, melts>>
       \/ /\ Len(quotes) < MaxQuotes /\ Len(melts) < MaxQuotes
          /\ quotes' = Append(quotes, Quote(c, call[c].saw.trusted))
          /\ melts' = Append(melts, Melt(Len(quotes')))
          /\ Started(c, "leg", Trusted(Len(quotes')))
    /\ UNCHANGED <<backend, funds, uri, receipts, sent, splices, mem, claimed, reinserted>>

\* The lightning leg.  When it cannot be sent, the trusted leg is recorded as a
\* payment of its own and the next method is tried.
PayUnderpaying(c) ==
    /\ call[c].pc = "leg"
    /\ \/ /\ Send(c, "lightning", Try(c).ty, LightningPortion(c))
          /\ call' = [call EXCEPT ![c].pc = "surface", ![c].leg = SelfCustodial(LightningId(c))]
          /\ UNCHANGED <<mem, reinserted>>
       \/ /\ Insert(call[c].id, Plain)
          /\ Skip(c)
          /\ UNCHANGED <<funds, sent>>
    /\ UNCHANGED <<backend, uri, receipts, quotes, melts, splices, claimed>>

\* Mutant: each leg is surfaced under its own id.
OwnSurface(c, leg) == [ty |-> "mpp", surface |-> leg]

MppMetadata(c, leg) == [ty |-> "mpp", surface |-> call[c].id]

InsertSurface(c) ==
    /\ call[c].pc = "surface"
    /\ Insert(call[c].id, MppMetadata(c, call[c].id))
    /\ Step(c, "legs")
    /\ UNCHANGED <<backend, funds, uri, receipts, quotes, melts, sent, splices, claimed>>

UpsertLeg(c) ==
    /\ call[c].pc = "legs"
    /\ Record(call[c].leg, MppMetadata(c, call[c].leg))
    /\ Step(c, "ok")
    /\ UNCHANGED <<backend, funds, uri, receipts, quotes, melts, sent, splices, claimed, reinserted>>

\* Nothing worked: pay returns an error.
ReturnErr(c) ==
    /\ call[c].pc = "try" /\ call[c].at = End
    /\ Step(c, "err")
    /\ UNCHANGED <<backend, funds, uri, receipts, quotes, melts, sent, splices, mem, claimed, reinserted>>

\* The future of pay is dropped at an await.
Drop(c) ==
    /\ call[c].pc \notin {"idle", "ok", "err", "dropped"}
    /\ Step(c, "dropped")
    /\ UNCHANGED <<backend, funds, uri, receipts, quotes, melts, sent, splices, mem, claimed, reinserted>>

-----------------------------------------------------------------------------
\* The wallets and the network (external).

\* prepare_melt: refused while another melt of the quote is under way or paid,
\* and without the funds.  Spark forgets a payment it could not send.
PrepareMelt(i) ==
    LET q == melts[i].q
        busy == \E j \in DOMAIN melts : melts[j].q = q /\ melts[j].st \in {"pending", "paid"}
    IN  /\ melts[i].st = "started"
        /\ \/ /\ ~busy /\ quotes[q].amt <= funds.trusted
              /\ melts' = [melts EXCEPT ![i].st = "pending"]
              /\ funds' = [funds EXCEPT !.trusted = @ - quotes[q].amt]
           \/ /\ melts' = [melts EXCEPT ![i].st = IF backend = "cashu" THEN "failed" ELSE "forgotten"]
              /\ UNCHANGED funds
        /\ UNCHANGED <<backend, uri, receipts, quotes, sent, splices, mem, call, claimed, reinserted>>

MeltsFor(r) == {i \in DOMAIN melts : melts[i].st = "pending" /\ quotes[melts[i].q].req = r}
SentFor(r)  == {x \in DOMAIN sent : sent[x].st = "pending" /\ sent[x].req = r}

AmountOf(ms, ss) ==
    SumFunctionOnSet([i \in ms |-> quotes[melts[i].q].amt], ms)
    + SumFunctionOnSet([x \in ss |-> sent[x].amt], ss)

Pay(ms, ss) ==
    /\ melts' = [i \in DOMAIN melts |-> IF i \in ms THEN [melts[i] EXCEPT !.st = "paid"] ELSE melts[i]]
    /\ sent' = [x \in DOMAIN sent |-> IF x \in ss THEN [sent[x] EXCEPT !.st = "completed"] ELSE sent[x]]
    /\ UNCHANGED <<backend, funds, uri, receipts, quotes, splices, mem, call, reinserted>>

\* The receiver of an invoice claims the parts that reached it, once, when they
\* make up its amount; every payment of an offer or an address is one of its own.
Claim(r) ==
    /\ r.ty = "bolt11" /\ r.req \notin claimed
    /\ AmountOf(MeltsFor(r.req), SentFor(r.req)) >= Amount
    /\ Pay(MeltsFor(r.req), SentFor(r.req))
    /\ claimed' = claimed \cup {r.req}

Settle(r) ==
    /\ r.ty # "bolt11"
    /\ \/ \E i \in MeltsFor(r.req) : Pay({i}, {})
       \/ \E x \in SentFor(r.req) : Pay({}, {x})
    /\ UNCHANGED claimed

\* A payment, or a part that waits for the rest, fails and its funds come back;
\* so does a splice before it is negotiated.
FailMelt(i) ==
    /\ melts[i].st = "pending"
    /\ melts' = [melts EXCEPT ![i].st = "failed"]
    /\ funds' = [funds EXCEPT !.trusted = @ + quotes[melts[i].q].amt]
    /\ UNCHANGED <<backend, uri, receipts, quotes, sent, splices, mem, call, claimed, reinserted>>

FailSent(x) ==
    /\ sent[x].st = "pending" /\ sent[x].ty # "onchain" /\ ~(sent[x].ty = "splice" /\ sent[x].told)
    /\ sent' = [sent EXCEPT ![x].st = "failed"]
    /\ funds' = [funds EXCEPT !.lightning = @ + sent[x].amt]
    /\ UNCHANGED <<backend, uri, receipts, quotes, melts, splices, mem, call, claimed, reinserted>>

-----------------------------------------------------------------------------
\* The wallets report a result; a success sets the preimage of the record.
set_preimage(id) ==
    IF id \in DOMAIN mem /\ mem[id].ty = "payment" THEN [mem EXCEPT ![id].preimage = TRUE] ELSE mem

ReportMelt(i) ==
    LET id == Trusted(melts[i].q) IN
    /\ melts[i].st \in {"paid", "failed"} /\ ~melts[i].told
    /\ melts' = [melts EXCEPT ![i].told = TRUE]
    /\ mem' = IF melts[i].st = "paid" THEN set_preimage(id) ELSE mem
    /\ UNCHANGED <<backend, funds, uri, receipts, quotes, sent, splices, call, claimed, reinserted>>

ReportSent(x) ==
    LET id == SelfCustodial(x) IN
    /\ sent[x].st \in {"completed", "failed"} /\ sent[x].ty \notin {"onchain", "splice"} /\ ~sent[x].told
    /\ sent' = [sent EXCEPT ![x].told = TRUE]
    /\ mem' = IF sent[x].st = "completed" THEN set_preimage(id) ELSE mem
    /\ UNCHANGED <<backend, funds, uri, receipts, quotes, melts, splices, call, claimed, reinserted>>

-----------------------------------------------------------------------------
Next ==
    \/ get_single_use_receive_uri \/ Received
    \/ \E c \in Calls :
          \/ StartPay(c) \/ SkipTrusted(c) \/ EstimateTrusted(c) \/ PayTrusted(c) \/ InsertTrusted(c)
          \/ SkipLightning(c) \/ PayLightning(c) \/ WriteSpliceOut(c) \/ UpsertLightning(c)
          \/ SkipMpp(c) \/ PayPartial(c) \/ PayUnderpaying(c) \/ InsertSurface(c) \/ UpsertLeg(c)
          \/ ReturnErr(c) \/ Drop(c)
    \/ \E i \in DOMAIN melts : PrepareMelt(i) \/ FailMelt(i) \/ ReportMelt(i)
    \/ \E x \in DOMAIN sent : FailSent(x) \/ ReportSent(x) \/ SpliceNegotiated(x)
    \/ \E r \in Requests : Claim(r) \/ Settle(r)

Spec == Init /\ [][Next]_vars

-----------------------------------------------------------------------------
\* Cashu lists the attempts to pay a quote as one payment: a settled attempt
\* wins, otherwise the newest counts.  Spark lists every payment.
Attempts(q) == {i \in DOMAIN melts : melts[i].q = q /\ melts[i].st \in {"pending", "paid", "failed"}}

\* Mutant: the newest attempt counts, settled or not.
NewestAttempt(q) == LET st == melts[Max(Attempts(q))].st IN IF st = "paid" THEN "completed" ELSE st

AttemptStatus(q) ==
    IF \E i \in Attempts(q) : melts[i].st = "paid" THEN "completed" ELSE melts[Max(Attempts(q))].st

TrustedPayments ==
    {Listed(Trusted(q), AttemptStatus(q), FALSE) : q \in {p \in DOMAIN quotes : Attempts(p) # {}}}

\* The funding transaction of a splice out is a payment of its own to LDK, as the
\* transaction of a channel is; a splice that failed has none.
LightningPayments ==
    {Listed(SelfCustodial(x), sent[x].st, sent[x].ty \in {"onchain", "splice"}) :
        x \in {y \in DOMAIN sent : ~(sent[y].ty = "splice" /\ sent[y].st = "failed")}}

Transactions == list_transactions(TrustedPayments, LightningPayments, splices, mem)

-----------------------------------------------------------------------------
\* Types.
TypeOK ==
    /\ backend \in Backends
    /\ \A w \in {"trusted", "lightning", "onchain"} : funds[w] \in Nat
    /\ \A q \in DOMAIN quotes : quotes[q].amt \in 1..Amount
    /\ \A i \in DOMAIN melts : /\ melts[i].q \in DOMAIN quotes
                               /\ melts[i].st \in {"started", "pending", "paid", "failed", "forgotten"}
    /\ \A c \in Calls : call[c].pc \in {"idle", "try", "estimated", "insert", "splice", "upsert",
                                        "leg", "surface", "legs", "ok", "err", "dropped"}

\* The requests a call may pay.
ReqsOf(c) == {call[c].methods[i][2] : i \in DOMAIN call[c].methods}

\* The only call so far.
Alone(c) == \A d \in Calls \ {c} : call[d].pc = "idle"

SettledTo(reqs) ==
    LET ms == {i \in DOMAIN melts : melts[i].st = "paid" /\ quotes[melts[i].q].req \in reqs}
        ss == {x \in DOMAIN sent : sent[x].st = "completed" /\ sent[x].req \in reqs}
    IN  AmountOf(ms, ss)

\* However a call of pay got on (a leg of a split that could not be sent, a
\* fallback to the chain, a dropped future), it pays its amount at most once,
\* and nothing at all if it returned an error.
PaysOnce ==
    \A c \in Calls : Alone(c) =>
        /\ SettledTo(ReqsOf(c)) <= Amount
        /\ call[c].pc = "err" => SettledTo(ReqsOf(c)) = 0

WalletsList(id) == \E p \in TrustedPayments \cup LightningPayments : p.id = id

\* list_transactions shows no id twice, and a payment that pay has returned
\* under the id it returned, from the moment the wallets know of it: not under
\* the id of a leg as well.  Exceptions: a splice out, which is listed as LDK's
\* payment and from the splice_out namespace; an id that was inserted again (the
\* surface id of a split whose quote a later call paid, see InsertsNew).
ListedOnce ==
    /\ \A e, f \in Transactions :
          (e.id = f.id /\ e.id \notin reinserted) => e = f \/ {e.from, f.from} = {"payment", "splice"}
    /\ \A c \in Calls : (call[c].pc = "ok" /\ Alone(c)) =>
          LET shown == {e \in Transactions : e.id \in {call[c].id, call[c].leg}} IN
          /\ \A e \in shown : e.id = call[c].id
          /\ WalletsList(call[c].id) => shown # {}

\* The list shows a payment as completed if and only if it was paid: a retry
\* that fails does not hide the attempt that settled, and a split is completed
\* only when the receiver has claimed it.
ListedTruthfully ==
    /\ \A q \in DOMAIN quotes :
          (q \notin Active /\ TypeIn(mem, Trusted(q)) # "mpp") =>
              \E e \in Transactions : e.id = Trusted(q) /\ e.status = "completed"
    /\ \A e \in Transactions : (e.status = "completed" /\ e.id[1] = "trusted") => e.id[2] \notin Active

\* What TxMetadataStore::insert asserts of its caller: the id has no record yet.
\* A second call of pay for an invoice is given the quote of the first.
InsertsNew == reinserted = {}

=============================================================================
