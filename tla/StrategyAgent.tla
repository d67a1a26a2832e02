---------------------------- MODULE StrategyAgent ----------------------------
(***************************************************************************)
(* The strategy agent (run_agent of src/core/llm/chat_engine.rs), which    *)
(* the routes of src/api/strategy.rs run for an owner, and the tools it    *)
(* moves the owner's money with (src/core/llm/tools).  It asks neither     *)
(* policy nor gate.  What is to be a proposal can call the same tools, so  *)
(* the routes are told apart by nothing here.                              *)
(*                                                                         *)
(* A request is answered with the trace of its calls; one that fails, or   *)
(* runs out of turns, with an error and without it.                        *)
(*                                                                         *)
(* What the chat has too is named apart from it, for the modules that have *)
(* both.                                                                   *)
(***************************************************************************)
EXTENDS Conversation, Ledger, Sums

CONSTANTS
  Requests,     \* the requests that can be under way at once
  STRATEGY_TURNS,  \* MAX_TURNS
  Plans,        \* what a turn of the model may be: a text, and tools
  MaxCalls,     \* bound: the calls of all traces
  Amounts,
  Fees,         \* what the Gateway may charge
  Endowment     \* what the account holds on Arc

UserOps    == { "deposit_to_gateway", "supply_aave", "withdraw_aave" }
WriteTools == UserOps \cup { "burn_intent_to_attestation", "mint_on_destination" }
StrategyTools == WriteTools \cup { "check_balances" }  \* for all that move nothing

(* The argument of a mint is an attestation, of the others an amount.      *)
Call == [ name : StrategyTools, arg : Nat ]

ASSUME StrategyAssumption ==
  /\ IsFiniteSet(Requests)
  /\ STRATEGY_TURNS \in Nat \ {0} /\ MaxCalls \in Nat
  /\ \A plan \in Plans : /\ plan.text \in { "plain", NoText }
                         /\ plan.tools \in Seq(StrategyTools) /\ plan.tools # <<>>
  /\ Amounts \subseteq Nat /\ Fees \subseteq Nat /\ Endowment \in Nat

VARIABLES
  funds,        \* the owner's account
  attested,     \* the attestations given out so far: amount, and if spent
  lost,         \* history: a call took effect and was not answered, or a
                \* mint that was sent was not included
  spc, sjob     \* each request: where it is, what its loop carries

svars == << funds, attested, lost, spc, sjob >>

Attestation == [ amount : Nat, state : { "open", "sent", "spent" } ]

StrategyJob == [ turn     : 0 .. STRATEGY_TURNS,
         messages : Seq(Message({ "request", "plain", NoText })),
         calls    : Seq(Call),                    \* still to be dispatched
         fresh    : BOOLEAN,                      \* the nonce is still the next
         results  : Seq(Nat),                     \* tool_results
         trace    : Seq([ call : Call, ok : BOOLEAN ]),
         held     : SUBSET Nat ]                  \* attestations it was given

NewStrategyJob == [ turn |-> 0, messages |-> << UserMessage(<< Text("request") >>) >>,
            calls |-> <<>>, fresh |-> FALSE, results |-> <<>>, trace |-> <<>>,
            held |-> {} ]

StrategyInit ==
  /\ funds = [ l \in Location |-> IF l = ArcIdle THEN Endowment ELSE 0 ]
  /\ attested = <<>> /\ lost = FALSE
  /\ spc  = [ r \in Requests |-> "idle" ]
  /\ sjob = [ r \in Requests |-> NewStrategyJob ]

-----------------------------------------------------------------------------
Enter(r, label) == spc' = [ spc EXCEPT ![r] = label ]
Chains == UNCHANGED << funds, attested, lost >>

Start(r) ==
  /\ spc[r] = "idle"
  /\ Enter(r, "turn")
  /\ UNCHANGED sjob /\ Chains

(* The model may call the tools of a plan with any argument it has seen,   *)
(* and mint an attestation of its own invention, which is number 0.        *)
Arguments(r, name) ==
  CASE name = "mint_on_destination" -> sjob[r].held \cup {0}
    [] name = "check_balances"      -> {0}
    [] OTHER                        -> Amounts

CallsMade == FoldFunction(LAMBDA j, n : Len(j.trace) + Len(j.calls) + n, 0, sjob)

TakeTurn(r, text, calls) ==
  /\ spc[r] = "turn"
  /\ CallsMade + Len(calls) <= MaxCalls
  /\ sjob' = [ sjob EXCEPT
                ![r].calls = calls,
                ![r].messages =
                   Append(@, ToolTurnMessage(text, FALSE, CallIds(sjob[r].trace, calls))) ]
  /\ Enter(r, "tools")
  /\ Chains

ModelTurns(r) ==
  \E plan \in Plans :
    \E args \in [ DOMAIN plan.tools -> Amounts \cup sjob[r].held \cup {0} ] :
       /\ \A i \in DOMAIN args : args[i] \in Arguments(r, plan.tools[i])
       /\ TakeTurn(r, plan.text,
               [ i \in DOMAIN args |-> [ name |-> plan.tools[i], arg |-> args[i] ] ])

(* A turn that calls no tool ends the loop.                                *)
Conclude(r) ==
  /\ spc[r] = "turn"
  /\ sjob' = [ sjob EXCEPT ![r].messages = <<>> ]
  /\ Enter(r, "answered")
  /\ Chains

Fail(r) ==
  /\ sjob' = [ sjob EXCEPT ![r] = NewStrategyJob ]
  /\ Enter(r, "failed")

(* No provider of the chain has answered, or the client goes away, which   *)
(* drops the loop wherever it stands.                                      *)
Interrupted(r) ==
  /\ Faults /\ spc[r] \in { "turn", "tools", "built" }
  /\ Fail(r)
  /\ Chains

-----------------------------------------------------------------------------
(* The end of a call, with an output or an error.  Another turn follows    *)
(* the last call of a turn, if one is left.                                *)
Returned(j, ok) ==
  LET calls   == Tail(j.calls)
      results == Append(j.results, Len(j.trace) + 1)
  IN  [ j EXCEPT
          !.turn     = IF calls = <<>> THEN @ + 1 ELSE @,
          !.calls    = calls,
          !.trace    = Append(@, [ call |-> Head(j.calls), ok |-> ok ]),
          !.results  = IF calls = <<>> THEN <<>> ELSE results,
          !.messages = IF calls = <<>> THEN Append(@, ResultsMessage(results)) ELSE @,
          !.fresh    = FALSE ]

Return(r, jobs, ok) ==
  LET j == Returned(jobs[r], ok)
  IN  IF j.calls # <<>> THEN Enter(r, "tools") /\ sjob' = [ jobs EXCEPT ![r] = j ]
      ELSE IF j.turn < STRATEGY_TURNS
             THEN Enter(r, "turn") /\ sjob' = [ jobs EXCEPT ![r] = j ]
             ELSE Enter(r, "failed") /\ sjob' = [ jobs EXCEPT ![r] = NewStrategyJob ]

Calls(r, name) == spc[r] = "tools" /\ Head(sjob[r].calls).name = name
Arg(r) == Head(sjob[r].calls).arg

(* A tool that reads, or any call that fails before it takes effect.       *)
Read(r) ==
  /\ Calls(r, "check_balances")
  /\ Return(r, sjob, TRUE)
  /\ Chains

CallFails(r) ==
  /\ Faults /\ spc[r] \in { "tools", "built" }
  /\ Return(r, sjob, FALSE)
  /\ Chains

-----------------------------------------------------------------------------
(* deposit_to_gateway, supply_aave, withdraw_aave: build_userop reads the  *)
(* nonce, sign_and_submit waits for the receipt.                           *)
BuildOp(r) ==
  /\ \E name \in UserOps : Calls(r, name)
  /\ sjob' = [ sjob EXCEPT ![r].fresh = TRUE ]
  /\ Enter(r, "built")
  /\ Chains

OpChain(name) == IF name = "deposit_to_gateway" THEN "arc" ELSE "arb"

Effects(name, a, n) ==
  CASE name = "deposit_to_gateway" ->
         { b \in { Deposit(a, "arc", n) } : CanDeposit(a, "arc", n) }
    [] name = "supply_aave" ->
         { b \in { Move(a, ArbIdle, ArbAave, n) } : a[ArbIdle] >= n /\ n > 0 }
    [] name = "withdraw_aave" ->
         { b \in { Withdraw(a, n) } : CanWithdraw(a, "arb", n) }

(* The other operations built with this nonce are stale.                   *)
Spent(r) ==
  [ s \in Requests |->
      IF s # r /\ spc[s] = "built"
         /\ OpChain(Head(sjob[s].calls).name) = OpChain(Head(sjob[r].calls).name)
        THEN [ sjob[s] EXCEPT !.fresh = FALSE ] ELSE sjob[s] ]

(* verify_userop_succeeded: what the EntryPoint included has an event of   *)
(* its own that tells if the call it carries has worked.                   *)
(* Mutant: it is enough that handleOps did not revert.                     *)
VerifiedReceipt(worked) == TRUE

Verified(worked) == worked

OpIncluded(r) ==
  LET effects == Effects(Head(sjob[r].calls).name, funds, Arg(r))
  IN  /\ spc[r] = "built" /\ sjob[r].fresh
      /\ IF effects = {} THEN UNCHANGED funds ELSE funds' \in effects
      /\ \/ Return(r, Spent(r), Verified(effects # {})) /\ UNCHANGED lost
         \/ Faults /\ effects # {} /\ Return(r, Spent(r), FALSE) /\ lost' = TRUE
      /\ UNCHANGED attested

OpStale(r) ==
  /\ spc[r] = "built" /\ ~sjob[r].fresh
  /\ Return(r, sjob, FALSE)
  /\ Chains

-----------------------------------------------------------------------------
(* burn_intent_to_attestation: no retry, no repair of the delegate, whose  *)
(* lack is one of the failures of CallFails.                               *)
Burn(r) ==
  /\ Calls(r, "burn_intent_to_attestation")
  /\ \E fee \in Fees :
        /\ CanAttest(funds, "arc", Arg(r), fee)
        /\ funds' = Attest(funds, "arc", "arb", Arg(r), fee)
  /\ attested' = Append(attested, [ amount |-> Arg(r), state |-> "open" ])
  /\ \/ /\ Return(r, [ sjob EXCEPT ![r].held = @ \cup { Len(attested) + 1 } ], TRUE)
        /\ UNCHANGED lost
     \/ Faults /\ Return(r, sjob, FALSE) /\ lost' = TRUE

BurnRefused(r) ==
  /\ Calls(r, "burn_intent_to_attestation")
  /\ \E fee \in Fees : ~CanAttest(funds, "arc", Arg(r), fee)
  /\ Return(r, sjob, FALSE)
  /\ Chains

(* mint_on_destination: sent, and not awaited.  One that was sent before   *)
(* may be sent again, until the first is in a block.                       *)
Mint(r) ==
  /\ Calls(r, "mint_on_destination") /\ Arg(r) # 0
  /\ attested[Arg(r)].state = "open"
  /\ funds' = SendMint(funds, "arb", attested[Arg(r)].amount)
  /\ attested' = [ attested EXCEPT ![Arg(r)].state = "sent" ]
  /\ \/ Return(r, sjob, TRUE) /\ UNCHANGED lost
     \/ Faults /\ Return(r, sjob, FALSE) /\ lost' = TRUE

MintInVain(r) ==
  /\ Calls(r, "mint_on_destination")
  /\ Arg(r) # 0 => attested[Arg(r)].state # "open"
  /\ \/ Return(r, sjob, FALSE)
     \/ Arg(r) # 0 /\ attested[Arg(r)].state = "sent" /\ Return(r, sjob, TRUE)
  /\ Chains

MintLands ==
  \E i \in DOMAIN attested :
    /\ attested[i].state = "sent"
    /\ funds' = LandMint(funds, "arb", attested[i].amount)
    /\ attested' = [ attested EXCEPT ![i].state = "spent" ]
    /\ UNCHANGED << lost, spc, sjob >>

MintDropped ==
  \E i \in DOMAIN attested :
    /\ Faults /\ attested[i].state = "sent"
    /\ funds' = DropMint(funds, "arb", attested[i].amount)
    /\ attested' = [ attested EXCEPT ![i].state = "open" ]
    /\ lost' = TRUE
    /\ UNCHANGED << spc, sjob >>

StrategyStep(r) ==
  \/ ModelTurns(r) \/ Conclude(r) \/ Interrupted(r)
  \/ Read(r) \/ CallFails(r)
  \/ BuildOp(r) \/ OpIncluded(r) \/ OpStale(r)
  \/ Burn(r) \/ BurnRefused(r) \/ Mint(r) \/ MintInVain(r)

StrategyNext ==
  MintLands \/ MintDropped \/ \E r \in Requests : Start(r) \/ StrategyStep(r)

-----------------------------------------------------------------------------
(* Every variable keeps its type; no balance is overdrawn.                 *)
StrategyTypeOK ==
  /\ funds \in Account /\ attested \in Seq(Attestation) /\ lost \in BOOLEAN
  /\ spc  \in [ Requests -> { "idle", "turn", "tools", "built", "answered", "failed" } ]
  /\ sjob \in [ Requests -> StrategyJob ]

(* As for the chat: each request to a provider is one it can take.         *)
StrategyRequestsAreWellFormed ==
  \A r \in Requests :
     spc[r] = "turn" => /\ AnthropicAccepts(sjob[r].messages)
                       /\ OpenAiAccepts(AnthropicToOpenAi(sjob[r].messages))

(* Where the reports say the money went.                                   *)
Goes(name) ==
  CASE name = "deposit_to_gateway"         -> << ArcIdle, "arc_escrow" >>
    [] name = "burn_intent_to_attestation" -> << "arc_escrow", "arb_attested" >>
    [] name = "mint_on_destination"        -> << "arb_attested", "arb_minting" >>
    [] name = "supply_aave"                -> << ArbIdle, ArbAave >>
    [] name = "withdraw_aave"              -> << ArbAave, ArbIdle >>

(* The calls of a tool that the traces call done, and what they say it     *)
(* moved.  An attestation moves its amount once, however often it is minted. *)
Done(name) ==
  UNION { { << r, i >> : i \in { k \in DOMAIN sjob[r].trace :
                                   /\ sjob[r].trace[k].ok
                                   /\ sjob[r].trace[k].call.name = name } } :
            r \in Requests }

Entry(d) == sjob[d[1]].trace[d[2]].call

Minted == { Entry(d).arg : d \in Done("mint_on_destination") }

AmountOf == [ i \in DOMAIN attested |-> attested[i].amount ]

Reported ==
  [ name \in WriteTools |->
      IF name = "mint_on_destination"
        THEN SumOver(AmountOf, Minted)
        ELSE SumOver([ d \in Done(name) |-> Entry(d).arg ], Done(name)) ]

Places == { {ArcIdle}, { "arc_escrow", "fees" }, { "arb_attested" },
            { "arb_minting", ArbIdle }, {ArbAave} }

(* Once all requests are answered the money is just where their traces say *)
(* that they have put it, although they work on one account with one nonce *)
(* and mints are not awaited, unless an answer or a mint was lost.         *)
ReportsExplainFunds ==
  ~lost /\ (\A r \in Requests : spc[r] \in { "idle", "answered" }) =>
    \A place \in Places :
      SumOver(funds, place)
        = (IF place = {ArcIdle} THEN Endowment ELSE 0)
          + SumOver(Reported, { name \in WriteTools : Goes(name)[2] \in place })
          - SumOver(Reported, { name \in WriteTools : Goes(name)[1] \in place })
=============================================================================
