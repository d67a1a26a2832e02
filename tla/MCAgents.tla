------------------------------ MODULE MCAgents ------------------------------
(* The two agents of the program, each with a few kinds of turn: one chat  *)
(* of ChatAgent, or the requests of StrategyAgent.  They share nothing but *)
(* the way a conversation is made.                                         *)
EXTENDS ChatAgent, StrategyAgent

VARIABLE agent

Answer(text, thinks, calls) == [ text |-> text, thinks |-> thinks, calls |-> calls ]

MCAnswers ==
  { Answer(text, FALSE, <<>>) : text \in TurnText }
    \cup { Answer("claim", TRUE,  << "read_policy" >>),
           Answer(NoText,  TRUE,  << "commit_policy" >>),
           Answer("plain", FALSE, << "pause_policy", "commit_policy" >>) }

(* A message that got no reply, and one with an empty reply.               *)
MCPast ==
  << UserTurn("p1"), UserTurn("p2"),
     [ role |-> "assistant", by |-> "p2", text |-> << NoText >>, trace |-> <<>>,
       stop |-> "end_turn", effects |-> {} ] >>

MCProviders == << "deepseek", "anthropic" >>

Scheme(text, tools) == [ text |-> text, tools |-> tools ]

MCPlans ==
  { Scheme("plain", << "deposit_to_gateway", "burn_intent_to_attestation" >>),
    Scheme(NoText,  << "mint_on_destination" >>),
    Scheme(NoText,  << "supply_aave", "withdraw_aave" >>),
    Scheme("plain", << "check_balances" >>) }

MCInit ==
  /\ Init
  /\ StrategyInit
  /\ agent \in { "chat", "strategy" }

MCNext ==
  /\ UNCHANGED agent
  /\ \/ agent = "chat" /\ Next /\ UNCHANGED svars
     \/ agent = "strategy" /\ StrategyNext /\ UNCHANGED vars

MCSpec == MCInit /\ [][MCNext]_<< vars, svars, agent >> /\ \A c \in Chats : WF_vars(Step(c))

(* Every variable keeps its type, in either agent; no balance is overdrawn *)
(* by what the strategy agent does.                                        *)
AgentTypeOK == TypeOK /\ StrategyTypeOK

(* As in both modules: each request to a provider is one it can take.      *)
EveryRequestIsWellFormed == RequestsAreWellFormed /\ StrategyRequestsAreWellFormed
=============================================================================
