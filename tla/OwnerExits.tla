----------------------------- MODULE OwnerExits -----------------------------
(***************************************************************************)
(* The ways out for an owner, beside the engine that works on the same     *)
(* accounts: POST /withdraw (src/api/withdraw.rs) brings what is on        *)
(* Arbitrum to Arc, POST /send-to-wallet (src/api/send_to_wallet.rs) pays  *)
(* what is on Arc to the owner, POST /debug/recover-gateway                *)
(* (src/api/recover.rs) mints on Arbitrum what a broken bridge left in the *)
(* Gateway.  The page reports deposits and payments to POST /funded, as    *)
(* often as it likes, and GET /earnings compares the ledger of these       *)
(* reports with the balances.                                              *)
(*                                                                         *)
(* The owner's calls are transactions of the owner's key.  One that cannot *)
(* succeed is refused when its gas is estimated, or, if that changes after *)
(* the estimate, mined and reverted, which nobody looks at: owner_send     *)
(* ignores the status of the receipt.  The fee of a transfer is for the    *)
(* Gateway to set, and the deposit has to cover it.                        *)
(***************************************************************************)
EXTENDS Engine, FundingLedger

CONSTANTS
  Withdraws, Sends, Recovers,  \* the exits that can be under way at once
  RecoverAmounts,
  ExitFaults,                  \* may calls of an exit fail?
  MaxDeposits,                 \* bound: deposits of an owner
  MaxPayments                  \* bound: payments of an owner followed

Exits == Withdraws \cup Sends \cup Recovers

(* A process that stops in an exit leaves what a failing call leaves, so   *)
(* that there is no other crash of an exit.                                *)
ASSUME ExitsAssumption ==
  /\ Withdraws \cap Sends = {}
  /\ (Withdraws \cup Sends) \cap Recovers = {}
  /\ IsFiniteSet(Withdraws)
  /\ RecoverAmounts \subseteq Nat \ {0}
  /\ ExitFaults \in BOOLEAN
  /\ MaxDeposits \in Nat /\ MaxPayments \in Nat

VARIABLES
  epc, exit,   \* each exit: where it is, what it carries
  delegates,   \* owners whose agent may sign for the account on Arbitrum
  hit,         \* history: owners of whose money an exit's failing call has
               \* left some in the Gateway
  failed,      \* history: a call has failed since an exit was last asked for
  stranded,    \* history: stranded[u] lay in the Gateway on Arbitrum when it
               \* last refused to transfer what a withdrawal had deposited
  deposits,    \* deposits[u]: how many the owner has made
  followed,    \* owners whose transactions are followed
  txs,         \* txs[u]: the transactions of their deposits and payments
  events       \* their funding events

exits    == << epc, exit, delegates, hit, failed, stranded >>
ledger   == << deposits, followed, txs, events >>
exitVars == << vars, exits, ledger >>

Exit ==
  [ who : Users \cup {NoUser}, amount : Nat,
    supply : BOOLEAN,            \* then_supply_aave
    fresh : BOOLEAN,             \* the nonce read is still the next one
    tx : Nat ]                   \* the payment to be booked

NewExit(u, n, supply) ==
  [ who |-> u, amount |-> n, supply |-> supply, fresh |-> FALSE, tx |-> 0 ]

NoExit == NewExit(NoUser, 0, FALSE)

Tx == [ id : Nat \ {0}, chain : Chain, kind : Kind, amount : Nat, ok : BOOLEAN ]

ExitLabel == { "idle", "unsupply", "arb", "deposit", "attest", "mint",
               "pay", "book", "build", "built" }

ExitInit ==
  /\ Init
  /\ epc       = [ e \in Exits |-> "idle" ]
  /\ exit      = [ e \in Exits |-> NoExit ]
  /\ delegates = {}
  /\ hit       = {}
  /\ failed    = FALSE
  /\ stranded  = [ u \in Users |-> 0 ]
  /\ deposits  = [ u \in Users |-> 0 ]
  /\ followed  \in SUBSET Users
  /\ txs       = [ u \in Users |-> {} ]
  /\ events    = {}

-----------------------------------------------------------------------------
Owner(e)       == exit[e].who
Holds(e)       == funds[Owner(e)]
Step(e, label) == epc' = [ epc EXCEPT ![e] = label ]

(* The end of a request, with an answer or an error.                       *)
End(e) == Step(e, "idle") /\ exit' = [ exit EXCEPT ![e] = NoExit ]

After(e, label) ==
  IF label = "idle" THEN End(e) ELSE Step(e, label) /\ UNCHANGED exit

Pays(e, account) == funds' = [ funds EXCEPT ![Owner(e)] = account ]

Others == UNCHANGED << stores, clock, cycle >>

(* A request starts with its first read: withdraw_to_arc with the position *)
(* in AAVE, send_to_wallet with the balance on Arc, which ends it if there *)
(* is none; a recovery writes its start event.                             *)
Ask(e, u, n, supply, first) ==
  /\ epc[e] = "idle"
  /\ Step(e, first)
  /\ exit' = [ exit EXCEPT ![e] = NewExit(u, n, supply) ]
  /\ failed' = FALSE
  /\ UNCHANGED << vars, delegates, hit, stranded, ledger >>

(* Mutant: without a position there is nothing to withdraw.                *)
AskPosition(u) ==
  /\ funds[u][ArbAave] > 0
  /\ \E e \in Withdraws : Ask(e, u, 0, FALSE, "unsupply")

AskWithdraw(u) ==
  \E e \in Withdraws :
    Ask(e, u, 0, FALSE, IF funds[u][ArbAave] > 0 THEN "unsupply" ELSE "arb")

(* Mutant: a reserve is kept back, and the subtraction may underflow.      *)
AskLess(u) ==
  /\ funds[u][ArcIdle] > 0
  /\ \E e \in Sends : Ask(e, u, funds[u][ArcIdle] - 2, FALSE, "pay")

AskSend(u) ==
  /\ funds[u][ArcIdle] > 0
  /\ \E e \in Sends : Ask(e, u, funds[u][ArcIdle], FALSE, "pay")

AskRecover(u, n, supply) == \E e \in Recovers : Ask(e, u, n, supply, "attest")

-----------------------------------------------------------------------------
(* The calls that move money: the accounts each may leave, none if it      *)
(* cannot succeed.                                                         *)
If(can, account) == IF can THEN {account} ELSE {}

Source(e) == IF e \in Withdraws THEN "arb" ELSE "arc"
Target(e) == IF e \in Withdraws THEN "arc" ELSE "arb"

CanSign(e) == e \in Withdraws => Owner(e) \in delegates

Outcomes(e) ==
  LET a == Holds(e)
      n == exit[e].amount
  IN  CASE epc[e] = "unsupply" -> If(a[ArbAave] > 0, Withdraw(a, a[ArbAave]))
        [] epc[e] = "deposit"  -> If(CanDeposit(a, "arb", n), Deposit(a, "arb", n))
        [] epc[e] = "attest"   ->
             { Attest(a, Source(e), Target(e), n, fee) :
                 fee \in { f \in Fees : CanSign(e) /\ CanAttest(a, Source(e), n, f) } }
        [] epc[e] = "mint"     -> If(CanMint(a, Target(e), n), SendMint(a, Target(e), n))
        [] epc[e] = "pay"      -> If(a[ArcIdle] >= n, Move(a, ArcIdle, "wallet", n))
        [] epc[e] = "built"    -> If(exit[e].fresh /\ a[ArbIdle] >= n,
                                     Move(a, ArbIdle, ArbAave, n))

(* Mutant: the request ends with the deposit.                              *)
FollowingDeposit(e) ==
  CASE epc[e] = "unsupply" -> "arb"
    [] epc[e] = "deposit"  -> "idle"
    [] epc[e] = "attest"   -> "mint"
    [] epc[e] = "mint"     -> IF exit[e].supply THEN "build" ELSE "idle"

Following(e) ==
  CASE epc[e] = "unsupply" -> "arb"
    [] epc[e] = "deposit"  -> "attest"
    [] epc[e] = "attest"   -> "mint"
    [] epc[e] = "mint"     -> IF exit[e].supply THEN "build" ELSE "idle"

(* owner_send, or one of the agent's calls: transfer, gatewayMint.         *)
Moves(e) ==
  /\ epc[e] \in { "unsupply", "deposit", "attest", "mint" }
  /\ \E a \in Outcomes(e) : Pays(e, a)
  /\ After(e, Following(e))
  /\ Others /\ UNCHANGED << pc, job, delegates, hit, failed, stranded, ledger >>

Refused(e) ==
  /\ epc[e] \in { "unsupply", "deposit", "mint", "pay" }
  /\ Outcomes(e) = {}
  /\ End(e)
  /\ UNCHANGED << vars, delegates, hit, failed, stranded, ledger >>

(* The agent may not sign, or what was deposited does not cover the fee.   *)
(* A withdrawal deposits just what it burns: without some money of an      *)
(* earlier one in the Gateway any fee is too much.                         *)
TransferRefused(e) ==
  /\ epc[e] = "attest"
  /\ \/ ~CanSign(e)
     \/ \E fee \in Fees : ~CanAttest(Holds(e), Source(e), exit[e].amount, fee)
  /\ stranded' = IF e \in Withdraws
                   THEN [ stranded EXCEPT ![Owner(e)] = Holds(e)["arb_escrow"] ]
                   ELSE stranded
  /\ End(e)
  /\ UNCHANGED << vars, delegates, hit, failed, ledger >>

RevertsUnseen(e) ==
  /\ epc[e] \in { "unsupply", "deposit" }
  /\ Outcomes(e) = {}
  /\ After(e, Following(e))
  /\ UNCHANGED << vars, delegates, hit, failed, stranded, ledger >>

(* withdraw_to_arc makes the agent a delegate, drops the error if that     *)
(* fails, and reads what is on Arbitrum: nothing ends the request.         *)
ReadArb(e) ==
  /\ epc[e] = "arb"
  /\ \/ delegates' = delegates \cup {Owner(e)}
     \/ ExitFaults /\ UNCHANGED delegates
  /\ IF Holds(e)[ArbIdle] = 0
       THEN End(e)
       ELSE /\ exit' = [ exit EXCEPT ![e].amount = Holds(e)[ArbIdle] ]
            /\ Step(e, "deposit")
  /\ UNCHANGED << vars, hit, failed, stranded, ledger >>

-----------------------------------------------------------------------------
(* send_to_wallet: a payment has a hash whether it reverts or not, and is  *)
(* booked with it.                                                         *)
Payments(u) == { x \in txs[u] : x.kind = "withdraw_to_eoa" }

NewTx(u, c, kind, n, ok) ==
  [ id |-> Cardinality(txs[u]) + 1, chain |-> c, kind |-> kind, amount |-> n,
    ok |-> ok ]

(* After MaxPayments the owner's transactions are not followed any more.   *)
Paid(e, ok) ==
  LET u == Owner(e)
      x == NewTx(u, "arc", "withdraw_to_eoa", exit[e].amount, ok)
  IN  IF u \in followed /\ Cardinality(Payments(u)) < MaxPayments
        THEN /\ txs' = [ txs EXCEPT ![u] = @ \cup {x} ]
             /\ exit' = [ exit EXCEPT ![e].tx = x.id ]
             /\ Step(e, "book")
             /\ UNCHANGED << followed, events >>
        ELSE /\ followed' = followed \ {u}
             /\ txs' = [ txs EXCEPT ![u] = {} ]
             /\ events' = { v \in events : v.user # u }
             /\ End(e)

Pay(e) ==
  /\ epc[e] = "pay"
  /\ \/ \E a \in Outcomes(e) : Pays(e, a) /\ Paid(e, TRUE)
     \/ Outcomes(e) = {} /\ UNCHANGED funds /\ Paid(e, FALSE)
  /\ Others /\ UNCHANGED << pc, job, delegates, hit, failed, stranded, deposits >>

EventOf(u, x) ==
  [ id |-> 0, user |-> u, chain |-> x.chain, kind |-> x.kind,
    amount |-> x.amount, tx |-> x.id ]

(* An append that fails is ignored.                                        *)
Book(e) ==
  /\ epc[e] = "book"
  /\ \/ \E x \in txs[Owner(e)] :
          x.id = exit[e].tx /\ events' = AppendEvent(events, EventOf(Owner(e), x))
     \/ (ExitFaults \/ txs[Owner(e)] = {}) /\ UNCHANGED events
  /\ End(e)
  /\ UNCHANGED << vars, delegates, hit, failed, stranded, deposits, followed, txs >>

-----------------------------------------------------------------------------
(* recover_gateway_escrow, when it supplies what it has minted.            *)
BuildSupply(e) ==
  /\ epc[e] = "build"
  /\ exit' = [ exit EXCEPT ![e].fresh = TRUE ]
  /\ Step(e, "built")
  /\ UNCHANGED << vars, delegates, hit, failed, stranded, ledger >>

(* Every operation built with this nonce on Arbitrum is now stale.         *)
SpendsNonce(u, e) ==
  /\ job' = [ t \in Tasks |->
                IF job[t].who = u /\ OpChain(t) = "arb"
                  THEN [ job[t] EXCEPT !.fresh = FALSE ] ELSE job[t] ]
  /\ exit' = [ f \in Exits |->
                 IF f = e THEN NoExit
                 ELSE IF exit[f].who = u THEN [ exit[f] EXCEPT !.fresh = FALSE ]
                 ELSE exit[f] ]

SupplyRecovered(e) ==
  /\ epc[e] = "built"
  /\ \/ /\ exit[e].fresh
        /\ SpendsNonce(Owner(e), e)
        /\ \/ \E a \in Outcomes(e) : Pays(e, a)
           \/ Outcomes(e) = {} /\ UNCHANGED funds
     \/ /\ ~exit[e].fresh
        /\ exit' = [ exit EXCEPT ![e] = NoExit ]
        /\ UNCHANGED << funds, job >>
  /\ Step(e, "idle")
  /\ Others /\ UNCHANGED << pc, delegates, hit, failed, stranded, ledger >>

-----------------------------------------------------------------------------
(* Any call may fail, before or after it took effect.                      *)
CallFails(e) ==
  /\ ExitFaults /\ epc[e] # "idle"
  /\ hit' = hit \cup (IF epc[e] = "mint" \/ (epc[e] = "attest" /\ e \in Withdraws)
                        THEN {Owner(e)} ELSE {})
  /\ End(e) /\ failed' = TRUE
  /\ UNCHANGED << vars, delegates, stranded, ledger >>

CallLost(e) ==
  /\ ExitFaults /\ epc[e] \in { "unsupply", "deposit", "attest", "mint" }
  /\ \E a \in Outcomes(e) : Pays(e, a)
  /\ hit' = hit \cup (IF epc[e] \in { "deposit", "attest" } THEN {Owner(e)} ELSE {})
  /\ End(e) /\ failed' = TRUE
  /\ Others /\ UNCHANGED << pc, job, delegates, stranded, ledger >>

-----------------------------------------------------------------------------
ArcMintLands(u) ==
  /\ funds[u]["arc_minting"] > 0
  /\ funds' = [ funds EXCEPT ![u] = LandMint(@, "arc", @["arc_minting"]) ]
  /\ Others /\ UNCHANGED << pc, job, exits, ledger >>

(* A bridge whose deposit a recovery has taken is refused until its budget *)
(* of retries is spent.                                                    *)
BridgeRefused(t) ==
  /\ pc[t] = "transfer"
  /\ \E fee \in Fees : ~CanAttest(funds[job[t].who], "arc", job[t].plan.amount, fee)
  /\ Fail(t)
  /\ Others /\ UNCHANGED << funds, exits, ledger >>

DepositFunds(u, c, n) ==
  /\ deposits[u] < MaxDeposits
  /\ Fund(u, c, n)
  /\ deposits' = [ deposits EXCEPT ![u] = @ + 1 ]
  /\ txs' = IF u \in followed
              THEN [ txs EXCEPT ![u] = @ \cup { NewTx(u, c, "deposit", n, TRUE) } ]
              ELSE txs
  /\ UNCHANGED << exits, followed, events >>

(* record_funded: the page reports a transaction, perhaps again.           *)
RecordFunded(u, x) ==
  /\ x \in txs[u]
  /\ events' = AppendEvent(events, EventOf(u, x))
  /\ UNCHANGED << vars, exits, deposits, followed, txs >>

(* A step of the engine; what lands on Arbitrum uses the nonce up.         *)
EngineStep ==
  /\ Next
  /\ \A u \in Users : funds'[u]["wallet"] = funds[u]["wallet"]
  /\ exit' = [ e \in Exits |->
       IF \E t \in Tasks : /\ job[t].who = Owner(e) /\ OpChain(t) = "arb"
                           /\ pc[t] = "built" /\ job[t].fresh /\ ~job'[t].fresh
         THEN [ exit[e] EXCEPT !.fresh = FALSE ] ELSE exit[e] ]
  /\ UNCHANGED << epc, delegates, hit, failed, stranded, ledger >>

ExitStep(e) ==
  \/ Moves(e) \/ Refused(e) \/ TransferRefused(e) \/ RevertsUnseen(e) \/ ReadArb(e)
  \/ Pay(e) \/ Book(e) \/ BuildSupply(e) \/ SupplyRecovered(e)
  \/ CallFails(e) \/ CallLost(e)

AskExit(u) ==
  \/ AskWithdraw(u) \/ AskSend(u)
  \/ \E n \in RecoverAmounts, supply \in BOOLEAN : AskRecover(u, n, supply)

ExitNext ==
  \/ EngineStep
  \/ \E e \in Exits : ExitStep(e)
  \/ \E t \in Tasks : BridgeRefused(t)
  \/ \E u \in Users :
       \/ AskExit(u) \/ ArcMintLands(u)
       \/ \E c \in Chain, n \in Amounts : DepositFunds(u, c, n)
       \/ \E x \in txs[u] : RecordFunded(u, x)

ExitSpec == ExitInit /\ [][ExitNext]_exitVars

(* Beside the fairness of the engine: a request under way goes on, what    *)
(* was sent to Arc is included, and an owner who wants the money back      *)
(* asks again for a withdrawal, a payment, the recovery of a fee buffer.   *)
ExitFairness ==
  /\ Fairness
  /\ \A e \in Exits : WF_exitVars(ExitStep(e))
  /\ \A t \in Tasks : WF_exitVars(BridgeRefused(t))
  /\ \A u \in Users :
       /\ WF_exitVars(ArcMintLands(u))
       /\ WF_exitVars(AskWithdraw(u)) /\ WF_exitVars(AskSend(u))
       /\ SF_exitVars(AskRecover(u, Buffer, FALSE))

-----------------------------------------------------------------------------
(* Every variable keeps its type; no balance is overdrawn by an exit that  *)
(* runs beside the engine.                                                 *)
ExitTypeOK ==
  /\ TypeOK
  /\ epc       \in [ Exits -> ExitLabel ]
  /\ exit      \in [ Exits -> Exit ]
  /\ delegates \subseteq Users /\ hit \subseteq Users /\ failed \in BOOLEAN
  /\ stranded  \in [ Users -> Nat ]
  /\ deposits  \in [ Users -> Nat ]
  /\ followed  \subseteq Users
  /\ txs       \in [ Users -> SUBSET Tx ]
  /\ events \subseteq FundingEvent(Users, Chain, Nat)

(* Unless a call has failed there, money of a withdrawal stays in the      *)
(* Gateway only if the Gateway has refused the transfer: beyond what lay   *)
(* there when it last did, what lies there is the deposit of a withdrawal  *)
(* under way, and what is attested for Arc is just what withdrawals are    *)
(* about to mint.  This is so for any number of withdrawals of an owner,   *)
(* even when the engine takes the balance between a read and its deposit   *)
(* and nobody sees the deposit revert.  It does not say that a transfer is *)
(* not refused: with a fee, the first of a clean account always is.        *)
Share(e, u, label) ==
  IF epc[e] = label /\ Owner(e) = u THEN exit[e].amount ELSE 0

Carried(u, label) ==
  SumOver([ e \in Withdraws |-> Share(e, u, label) ], Withdraws)

OnlyRefusalsStrand ==
  \A u \in Users \ hit :
     /\ funds[u]["arb_escrow"] <= Carried(u, "attest") + stranded[u]
     /\ funds[u]["arc_attested"] = Carried(u, "mint")

(* GET /earnings.  Nothing pays interest here, so what it calls earned is  *)
(* the money it does not see: once each transaction is in the ledger and   *)
(* no payment has reverted, the loss shown is what is on its way between   *)
(* the accounts, however often and in whatever order they were reported.   *)
(* The code joins four reads, of the ledger and of three balances          *)
(* (earnings.rs:51-61); here they are of one moment: money that moves      *)
(* between them may be shown twice or not at all.                          *)
GrossEarned(u) ==
  funds[u][ArcIdle] + funds[u][ArbIdle] + funds[u][ArbAave] - NetDeposited(events, u)

InTransit == Location \ { ArcIdle, ArbIdle, ArbAave, "wallet" }

EarningsAreExplained ==
  \A u \in followed :
     (\A x \in txs[u] : x.ok /\ Recorded(events, EventOf(u, x)))
       => GrossEarned(u) = - SumOver(funds[u], InTransit)

(* The money of an owner who has paused for good and keeps asking comes to *)
(* rest, whatever the engine had begun, once calls no longer fail, and     *)
(* unless one has failed while the money was in the Gateway: all of it is  *)
(* in the wallet, with the Gateway as a fee, or deposited there.  On Arc a *)
(* recovery leaves at most what does not pay for the transfer of a fee     *)
(* buffer.  On Arbitrum there remains what the Gateway has refused, which  *)
(* no request of the owner asks for again.                                 *)
Resting == { "wallet", "fees", "arc_escrow", "arb_escrow" }

PausedMoneySettles ==
  \A u \in Users :
     ( /\ <>[](policy[u].status = "paused")
       /\ <>[]~failed
       /\ [](u \notin hit) )
     => <>[]( /\ \A place \in Location \ Resting : funds[u][place] = 0
              /\ \E fee \in Fees : ~CanAttest(funds[u], "arc", Buffer, fee) )
=============================================================================
