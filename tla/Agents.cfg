SPECIFICATION MCSpec
CONSTANTS
  Chats = {c1}
  Past <- MCPast
  NoText = NoText
  DEFAULT_HISTORY_LIMIT = 3
  Providers <- MCProviders
  Reliable = {"anthropic"}
  Answers <- MCAnswers
  MAX_TURNS = 3
  Retraction = Retraction
  Faults = TRUE
  Leaves = {c1}
  Clears = TRUE
  Requests = {r1, r2}
  STRATEGY_TURNS = 4
  Plans <- MCPlans
  MaxCalls = 5
  Amounts = {1}
  Fees = {0, 1}
  Endowment = 2
CHECK_DEADLOCK FALSE
INVARIANTS
  AgentTypeOK
  GuardKeepsItsWord
  TraceIsTrue
  EveryRequestIsWellFormed
  ConversationIsWhole
  ReportsExplainFunds
PROPERTIES
  EveryChatIsAnswered
