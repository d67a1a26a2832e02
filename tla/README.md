# Compass: verification of the automation service

Compass is a Rust service that looks after the USDC of its owners.  Each owner
has a smart account on two chains (Arc and Arbitrum) and a *policy*; a cron
worker reads balances and market data every minute, decides whether to move
capital into AAVE on Arbitrum, and executes the move with user operations and
Circle's Gateway.  Owners commit, edit, pause and resume policies over HTTP or
through a chat agent, and withdraw through other routes while the engine runs.

This directory holds TLA+ models of that service, the TLC runs that check them
on small instances and proofs checked by TLAPS.  Paths below are relative to
`src/src` of the repository unless they name a skill document, which lives in
the skills directory the chat agent loads.

## 1. Inventory

| Part | State it keeps | Operations |
|---|---|---|
| Policy schema, `automation/policy/schema.rs` | none | `validate` |
| Policy store, `policy/store.rs`, `policy/postgres_store.rs` | one row per owner: the current policy, its status | `put`, `get`, `set_status`, `list_active_users` |
| Evaluator, `automation/evaluator` | none, a pure function | `evaluate` |
| Risk gate, `automation/risk_gate.rs` | none | `check` |
| Tick and scheduler, `tick.rs`, `scheduler.rs` | the users left in the cycle, each task's locals | `run_cron_cycle`, `tick_user_now`, `tick_once` |
| Executor, `automation/executor.rs` | none between plans | `execute_plan`, the bridge, the transfer with retries, same-chain supply, withdraw |
| User operations, `userop/` | the account's nonce on its chain | `build_userop`, `sign_and_submit` |
| Snapshot worker and store | the last snapshot, in memory | `build_snapshot`, `set`, `get` |
| Position fetcher and store | the last position per owner, in memory | `fetch`, `set`, `get` |
| Audit log, `automation/audit` | the events, in Postgres | `append`, listings |
| Policy API, `api/policy.rs` | none | `put`, `pause`, `resume`, `run_once` |
| Owner exits, `api/withdraw.rs`, `send_to_wallet.rs`, `recover.rs` | none | drain, send, recover |
| Session, `api/session.rs`, `account.rs`, `session_cache.rs` | a 30-second cache of session states | deploy, register, status, authorize |
| Chat agent, `core/llm/chat_agent.rs`, `api/chat.rs` | the conversation of each owner | the tool loop, the fabrication guard, history |
| Stream parsers, `core/llm/stream_parser.rs` | held text, mode, partial tool calls of one answer | `parse_openai_sse`, `parse_anthropic_sse` |
| LLM providers, `core/llm/chain.rs` and clients | none | the first provider that answers |
| Strategy agent, `core/llm/chat_engine.rs`, `core/llm/tools`, `api/strategy.rs` | none | a tool loop whose tools move money |
| Funding ledger, `automation/funding` | deposits and withdrawals seen | `append`, earnings |
| Gateway client, `gateway/` | none | intents, transfer |
| Contracts and chains | where the money is | external, modelled from the calls made |

How they interact.  The cron worker, the snapshot worker and every HTTP request
are tokio tasks of one process.  They share the stores through `AppState`;
policies, audit events, conversations and funding events are in Postgres and
survive a restart, positions, the snapshot and the session cache are in memory
and do not.  A conversation, a session setup and a stream belong to one HTTP
request; two requests of one owner meet in the tables, in the session cache and
on the chains.  No lock orders two tasks that work on the same owner: a policy
that is committed spawns a tick (`tick_user_now`) beside the cron tick, and a
withdrawal takes no notice of either.  The chains are shared state too, changed
by every task through user operations.

What is hard here:

* interleaving: two tasks on one account between balance reads, nonce reads and
  the receipts of their operations; an edit or a pause between the policy read
  of the evaluation and that of the gate;
* partial failure: a bridge is five remote steps with no compensation, and a
  restart forgets all of them but the start event in the log;
* stale state: the position a plan was made from, the time of the cycle, the
  constants the snapshot worker fills in, a session status computed before a
  setup and cached after it;
* ordering: a mint that is sent and not awaited, followed by a supply;
* receipts nobody reads: an owner's call that reverts looks like one that worked,
  and a withdrawal goes on from it beside an engine that moves the same money;
* liveness: one cycle serves all owners in turn, and plans whose operation
  reverts come back on the next tick; a guard sends a model's text back to it;
* delivery: the page reports a deposit late, twice, or beside the route that
  books it by itself;
* protocol: a conversation grows over sixteen turns and must be one that a
  provider takes, in two wire formats; a chain of providers is asked in order;
* timeouts: an indexer that lags behind a deposit, raced by a retry budget;
* streams: text, markers and tool calls arrive in pieces cut anywhere, and a
  client that leaves drops the loop wherever it stands;
* numbers: percentages truncated and subtracted with saturation, a session that
  is valid for one more second.

What makes each part correct.  The evaluator may only propose moves the policy
allows, of money that is there.  Ticks must leave a log that explains every
move, whatever comes in between.  The executor must not strand money nor take
what another task deposited.  The scheduler must serve every owner and let a
pause take hold.  The policy store must number versions without a gap and keep
its two copies of the status together.  The exits must
bring back to an owner who asks whatever the Gateway does not refuse, leave nothing else
there and overdraw nothing, though the engine goes on beside them; the earnings shown must
not depend on how deposits are reported.  A setup that answers must leave usable
accounts behind.  The chat must not deny what it did, nor end in a claim to have done
what it did not as long as it has turns left; its trace must be what it did, and what it asks a provider must be well formed.  A parser's output must not depend on where the stream is cut.

## 2. Modules

| Module | Models | Extends |
|---|---|---|
| `Policy` | the policy fields the engine reads, `validate` | |
| `Evaluator` | `evaluate`, `risk_gate::check`, the executor's routing | `Policy` |
| `RebalanceLoop` | what the evaluator promises: the loop with true inputs and exact execution | `Evaluator` |
| `Ledger` | where an account's money is and what each contract call moves | |
| `Engine` | scheduler, ticks, executor, workers, stores, owners, chains, crashes | `Evaluator`, `Ledger` |
| `EngineClaims` | a statement of the skill documents the engine does not keep | `Engine` |
| `Sums` | the sum over a finite set | |
| `FundingLedger` | the funding events: the idempotent append, sums, net deposits | `Sums` |
| `OwnerExits` | withdraw, send to wallet, recover, reports of funds, earnings, beside the engine | `Engine`, `FundingLedger` |
| `PolicyTable` | `InMemoryPolicyStore`: each request in one step | |
| `PolicyPostgres` | `PostgresPolicyStore`, statement by statement | |
| `GatewayTransfer` | `transfer_with_delegate_retry`, with the time it takes | |
| `Session` | session setup, the `ensure_account` tool, status and its cache | |
| `Selection` | the elements at some places of a sequence | |
| `Conversation` | messages and their blocks, what becomes of them in the other wire format, what providers accept | `Selection` |
| `ChatAgent` | the tool loop, the guard, the chain of providers, the saved conversation | `Conversation` |
| `StrategyAgent` | the tool loop of the strategy agent and its tools, on one account | `Conversation`, `Ledger`, `Sums` |
| `OpenAiStream` | `parse_openai_sse`, `split_inline_think` | `Selection` |
| `AnthropicStream` | `parse_anthropic_sse` | `Selection` |
| `PolicyDefaults` | the named policies of the instances | |
| `MCRebalanceLoop`, `MCEngine`, `MCOwnerExits`, `MCAgents`, `MCStreams` | the bounded instances | |
| `OperatorProofs` | theorems about what has no state: `Evaluator`, `Ledger`, `Sums`, `Selection`, sequences, recursive functions | these |
| `EngineProofs` | theorems about the engine alone, and with the exits beside it | `OwnerExits`, `OperatorProofs` |
| `AgentProofs` | theorems about both agents | `MCAgents`, `OperatorProofs` |
| `StreamProofs` | theorems about both stream parsers | `MCStreams`, `OperatorProofs` |
| `RebalanceLoopProofs`, `PolicyPostgresProofs`, `GatewayTransferProofs`, `SessionProofs` | theorems | the module of that name |

Two abstract specifications stand beside detailed ones.  `RebalanceLoop` is what
the evaluator was written for; the engine does not implement it, and
section 3 says where it departs.  `PolicyTable` is the store as the
tests of the repository use it; `PolicyPostgres` implements it.

### Evaluator

`Evaluate(p, s, pos, now)` is the set of decisions the function can return
for a policy, a snapshot and a position: it is a set because the code walks `HashMap`s, whose order
is seeded anew, and `min_by` keeps the first of equals.  The checks come in the
order of the source (status, freshness, breakers, quota, venues, edge, cooldown,
gas) and share its truncating integer arithmetic.  Rates are basis points and
money is tenths of a dollar; `BpUnit` and `YearScale` scale the yearly yield so
that small numbers exercise the gas check.

### RebalanceLoop

The evaluator is written to be fed with a position that counts actions and
remembers when each venue last received.  This module feeds it so and carries
its plans out exactly: the abstract promise against which the engine as it runs
can be compared.  `Tick(m, age)` lets time pass, takes any market of the constant
`Markets` as the snapshot, evaluates and, with `Carry`, applies.

### Engine

A task (`Cron`, or one of `Ticks`, which stand for spawned ticks) carries a
`job` through the labels of `pc`.  The cuts are the awaits of the source:

| `pc` | code | actions |
|---|---|---|
| `idle` | `run_cron_cycle`, `tokio::spawn` | `CronWake`, `CronNext`, `Spawn` |
| `arc`, `arb`, `aave` | `RpcPositionFetcher::fetch` | `FetchArc`, `FetchArb`, `FetchAave`, `FetchFails` |
| `tick`, `eval` | `tick_once` | `SkipTick`, `BeginTick`, `EvaluateTick`, `TickFails` |
| `gate` | second policy read and `risk_gate::check` | `GatePass`, `GateReject` |
| `start` | `execute_plan` up to the dispatch | `StartAction` |
| `build`, `built` | `build_userop`, `sign_and_submit` | `BuildOp`, `OpLands`, `OpReverts`, `OpLandsUnseen`, `OpStale` |
| `transfer`, `mint` | the Gateway steps of the bridge | `TransferAttested`, `TransferUnseen`, `SendMintStep` |
| `report` | the done event | `Report`, `ReportFails` |

`StepFails` ends a plan at any remote call, as `?` does.  `Crash` empties what
is in memory.  `Ledger` keeps an account as a function from locations (the idle
balances, AAVE, the Gateway's escrow, an attestation, a mint under way, fees, the
owner's wallet) to amounts; an operation is a `Can...` guard and an effect, and
an operation whose guard is false reverts.

Taken as one step: the reads of snapshot and position inside `tick_once` with
the decision event that follows them (nothing else writes those entries in
between but another tick of the same owner, which writes what `Fetch` may read);
the retries inside `transfer_with_delegate_retry`.  Taken as given: the USDC the
executor approves and the USDC AAVE pays out on Arbitrum are one token; the
paymaster pays for gas; a nonce of the agent's own key that collides between
owners counts as a failing call.

### OwnerExits and FundingLedger

The engine with the owner's ways out added to it: `ExitNext` has every step of
`Next` (as `EngineStep`) and those of the exits.  An exit carries an `exit` record
through the labels of `epc`, cut at the awaits of the source:

| `epc` | code | actions |
|---|---|---|
| `idle` | the first read of a route | `AskWithdraw`, `AskSend`, `AskRecover` |
| `unsupply` | `withdrawAave(U256::MAX)` by the owner | `Moves`, `Refused`, `RevertsUnseen` |
| `arb` | `addDelegate`, its error dropped; the balance on Arbitrum | `ReadArb` |
| `deposit` | `depositToGateway` by the owner | `Moves`, `Refused`, `RevertsUnseen` |
| `attest` | `gateway.transfer`, its fee set by the Gateway | `Moves`, `TransferRefused` |
| `mint` | `gatewayMint`, sent and not awaited | `Moves`, `Refused` |
| `pay`, `book` | the transfer to the owner, `funding.append` | `Pay`, `Book` |
| `build`, `built` | the supply a recovery may end with | `BuildSupply`, `SupplyRecovered` |

`CallFails` and `CallLost` end an exit at any remote call, before or after it took
effect; a process that stops there leaves the same.  `delegates` are the owners
whose agent may sign for the account on Arbitrum; the accounts on Arc had theirs
set by the bridge or the setup.  Three variables are history: `hit`, whose money an
exit's failing call has left in the Gateway; `stranded`, what lay in the Gateway when it
last refused the transfer of a withdrawal, for want of a delegate or because the deposit
does not cover the fee; `failed`, whether a call has failed since an exit was last asked for.  An operation of the engine and one of a recovery use up each
other's nonce (`SpendsNonce`, `EngineStep`).  `BridgeRefused` is new for the engine:
a bridge whose deposit a recovery has minted asks until its budget is spent.

`FundingLedger` has what is done with the events; `txs` in `OwnerExits` are the
transactions they should speak of.  `RecordFunded` reports any of them at any time
and any number of times, `Book` is the append of `send_to_wallet`.

### PolicyTable and PolicyPostgres

`PolicyTable` has the rows and what each request is told; a request takes effect
in one step.  `PolicyPostgres` runs `put`, `set_status` and `get` as the
statements they are (`SelectUnlocked`, `SelectRow` or `SelectNothing`, `Write`,
`Commit`), with the row lock of `FOR UPDATE`, which locks nothing where there is
no row, and connections that are lost before (`RollBack`) or after the commit
(`CommitUnseen`).  The constant `FirstRaces` says whether a request may run beside
an owner's first `put`; if not, `Request` waits until it is `Alone`.  The refinement
maps the committed rows to the table; the property is `Implements`.

### GatewayTransfer

The one step `TransferAttested` of the engine, opened up: the deposit becomes
visible to the Gateway's indexer after `lag` seconds, calls take up to `Slowest`
seconds, the wait doubles up to `MAX_BACKOFF`.  `elapsed` is the code's `start.elapsed()`.

### Session

`Step(r)` is one await of a request; a transaction goes to `mempool` and lands
when the chain takes it.  `left` is what remains of a session, `age` the age of
the cached status; one `Tick` moves both.

### Conversation and ChatAgent

`Conversation` has the data: content blocks, the message of a turn with tools
(thinking, text, tools) and that of its results, `AnthropicToOpenAi`, and what
the two interfaces ask of tool calls.  Of a text counts who said it, of a call its id.

To the guard a text is a claim (it says that something was committed), plain or
empty; an answer of the model is a `Turn` of text, thinking and calls.  `job` carries
what the loop carries: the provider it asks, the messages of the next request, the
text, the calls still to be made and the results had, the trace.  The labels of `pc`
are the awaits: `list` (the history), `turn` (the chain of providers), `stream`, `tools`,
`persist`.  `effects` is a ghost: what the tools of this chat really did, carried
along with the reply for `TraceIsTrue` to compare with.  `Leave` drops a loop at
any await, as dropping the response's stream does.

### StrategyAgent

`run_agent` with the tools it moves money with, on a `Ledger` account of its own.  Labels:
`turn` (the model), `tools` (the next call), `built` (a user operation whose nonce
was read), then `answered`, with a trace, or `failed`, without one.  `attested` are the
attestations given out; a request can only mint those it was `held` out, or none that
exists.  A mint is sent and not awaited: one that was sent may be sent again, in vain,
and be reported as done both times; `ReportsExplainFunds` counts an attestation
once.  `lost` is history.  `MCAgents` has both agents, so what both have is named apart
(`spc`, `sjob`, `StrategyStep`).  `"max"` as an amount to withdraw is left out: the position
is an amount the model knows.

### OpenAiStream and AnthropicStream

One action per `data:` line.  In the OpenAI format both markers are sequences of
characters and the held text is what could begin one; `CutsDoNotMatter` compares with
`WholeSplit`, which splits the whole content at once.  The loop of `split_inline_think`
is a recursive function, `SplitInlineThink`, of the buffer and the mode.  In the
Anthropic format an answer comes in blocks, one open at a time, of known and unknown
types.  `blocks` and, in `OpenAiStream`, `content` and `tool_deltas` are ghosts: what
the model has sent.  `MCStreams` has an answer in either format, as `stream_chat_agent`
has both accumulators.

## 3. Runs

| Run | What it checks | What it shows |
|---|---|---|
| `RebalanceLoop` | `TypeOK`, `QuotaHolds`, `CooldownHolds`, `CapHolds`, `PlansAreExecutable`, `MovesRaiseYield`, `MovesOnlyInCalm` | fed with the truth the evaluator keeps the policy's limits, moves only when that raises the yield and no breaker is tripped, and plans only what gate and executor can carry out |
| `EngineAudit` | `TypeOK`, `AuditExplains`, `MovedFundsAreAudited` | with failing calls, restarts and an owner who edits, pauses and resumes anywhere, the log explains every action and no money moves without it |
| `EngineLive` | `TransfersAreCovered`, `PauseQuiesces`, `InFlightLands`, `IdleFundsGetSupplied` | when calls return, two racing tasks on one account never take each other's deposit or attestation, a pause takes hold, nothing stays on its way and idle capital gets to work in spite of the races |
| `EngineServes` | `ActiveUsersAreServed` | with failing calls, a snapshot that grows stale, two owners and spawned ticks, no active owner is starved |
| `PolicyPostgres` | `TypeOK`, `ColumnsAgree`, `VersionsAreNew`, `Implements` | but for requests that race with an owner's first `put`, three concurrent requests and lost connections leave the Postgres store doing what the in-memory one does |
| `GatewayTransfer` | `TypeOK`, `WithinBudget`, `RidesOutLag`, `Ends` | with the constants of the source the retry outlasts every lag it can, and ends in its budget |
| `Session` | `TypeOK`, `SetupTakesHold` | the route and the tool, at once and with failing calls: what a setup answers is there or on its way |
| `SessionHeals` | `StaleHeals` | a status cached from before the setup does not stay |
| `OwnerExits` | `ExitTypeOK`, `OnlyRefusalsStrand`, `EarningsAreExplained`, `PausedMoneySettles` | beside the engine, with calls that fail or are lost and a Gateway that charges a fee or none, no exit overdraws a balance; what stays of a withdrawal in the Gateway without a failing call is what the Gateway has refused to transfer; the earnings shown are explained by what is on its way; and all money of an owner who pauses and keeps asking comes to rest, in the wallet or in the Gateway |
| `Agents` | `AgentTypeOK`, `GuardKeepsItsWord`, `TraceIsTrue`, `EveryRequestIsWellFormed`, `ConversationIsWhole`, `EveryChatIsAnswered`, `ReportsExplainFunds` | with failing calls, a client that leaves and a history that is cleared, the guard's retraction never denies a write that was done, a saved reply that ends in a claim without a write has run out of turns, its trace is what was done, each request has its tool calls with their results in either wire format and the conversation without a gap, and a client that stays gets a saved reply unless a call fails, however the model answers; what two requests to the strategy agent report is where the money is |
| `Streams` | `StreamTypeOK`, `CutsDoNotMatter`, `CallsComeOnce` | every content in every way of cutting it comes out as if it came whole; every mixture of the pieces of two calls is handed over as whole calls, once, and so are the calls of every series of blocks |
| `ClaimDailyCap` | `DailyCapIsHard` | violated: see the disagreements below |

Each property of a run that passes has a mutant in `PROJECT.json`: a definition
of the model changed the way a plausible slip in the code would change it, under
which the run fails.

### Bounds, and why they are enough

* `Ticks`: the tasks that may run beside the cron task.  A tick spawned while
  all of them are busy is not followed.  One is enough for every race of two
  tasks on an account; a third adds no new kind of conflict, since conflicts are
  over one nonce and one balance.
* `MaxVersion` (2 in `EngineAudit`): an edit between two policy reads needs two
  versions.
* `MaxClock`: minutes that pass.  Where time is not the question it stands
  still, which is the hardest case for quotas and cooldowns; `EngineServes` lets a
  snapshot become stale (`MaxAge` is one minute there, the clock runs for two).
* `Horizon`: `RebalanceLoop` makes six ticks, fifteen minutes apart, with a
  cooldown of thirty and quotas of one to three: each limit binds within them.
  The day ends there, so that `actions_today` need not be reset.
* `Endowment`, `Amounts`: in tenths of a dollar; large enough that a plan leaves
  something over for the fee buffer and small enough that the next one may not.
* `Logged`, `Requests`: the event types followed and the requests owners make.
  No step reads the log, so leaving a type out changes nothing else.
* `Faults`, `Crashes`: `EngineAudit` has both, beside one task: a second task adds
  nothing to the log but events of its own.  `EngineLive` has two tasks and no
  failing calls: a bridge whose transfer fails is never taken up again, and what it
  deposited would stay in the escrow.  `EngineServes` and `Agents` have failing
  calls and ask for liveness all the same; only the engine has crashes.
* `OwnerExits`: one owner with three tenths of a dollar, deposits of one or two of
  them, `ExitFaults` beside an engine whose own calls return.  `Fees` is `{0, 1}`: the
  Gateway sets the fee of each transfer.  With a fee of one, the first withdrawal of an
  account is always refused, as it deposits just what it burns (see the disagreements),
  and a later one may go through with what that has left.  There is one request of each kind
  at a time, asked for again and again.
  `MaxDeposits` and `MaxPayments` are 2: two transactions of a
  kind, reported in any order.  `MCOwnerExits` names four more bounds: a behaviour ends where a
  failing call has left money in the Gateway; an owner whose transactions
  are `followed`, or who deposits twice, commits no policy, so that ledger and engine
  are not multiplied; a recovery, which is a debugging route, is not asked for beside
  other exits nor while the policy is active.
* `PolicyPostgres`: one owner (a transaction touches one row), three requests:
  two that race and one that is stuck between them; three versions; the table is
  empty at first and `FirstRaces` is `FALSE`.
* `GatewayTransfer`: the 60, 2 and 15 seconds of the source; lags around each of
  the sums of waits, and one beyond the budget.
* `Session`: `LIFE` of 3 ticks, `CACHE_TTL` of 1 or none; `Timely` has a
  registration land within the day it is for; an entry that is too old gets no
  older.  A second setup of the same kind is `Start` again.
* `Agents`: one agent or the other; they share only `Conversation`.  Of the chat
  `MAX_TURNS` is 3 where the source has 16: a put-back turn, a
  tool turn, a last turn.  `DEFAULT_HISTORY_LIMIT` is 3 where it is 50, and the
  conversation has three rows before the chat: its message is the one that pushes a row out.  One
  chat: what two at once do to each other is among the disagreements.  The answers
  are text of each kind, and calls with and without text and thinking, one of two
  calls; `read_policy` stands for every tool that only reads.  Two providers, the
  last of which takes every request.  Of the strategy agent `STRATEGY_TURNS` is 4 where the
  source has 8, `MaxCalls` 5 over two requests: enough for one to go all the way from Arc
  into AAVE and to answer, and for both to act at once.  `Plans` follows the order in which the
  skill documents have the tools called; `Endowment` allows two deposits, one of which
  may have to pay a fee of one.
* `Streams`: markers of three characters with the shape of the source's (`<`
  only in front, neither a prefix of the other); contents of eight characters have
  room for both and a cut of at most three at each place; four pieces of two calls.
  Text and calls touch different state, so `OpenAiNext` takes either much text or
  little text and then calls.  Three blocks and three pieces in the other format: a
  block of another kind fits between, before and behind two calls.

### Fairness

`FairSpec` asks for weak fairness of every task, of the cron cycle, of the
snapshot worker and of the inclusion of a mint that was sent: tokio polls ready
tasks, awaited calls return, with a result or an error, the tickers fire.  Strong
fairness is asked of one thing only: which of two tied venues `min_by` keeps.  Every fetch builds a `HashMap` with a hasher seeded
anew, so neither venue wins for ever.  Owners and the clock are under no
obligation.

`Session` asks that a setup that fails is called again until one answers, that
the page polls, that chains take what is sent and that time goes on; the run that
uses it has no failing calls.  `OwnerExits` adds to the
fairness of the engine that a request under way goes on, that a mint sent to Arc
is included and that a bridge in vain is refused in the end.  The owner keeps asking for
withdrawals and payments (weak fairness) and for the recovery of the fee buffer that bridges
leave in the Gateway (strong fairness: it is asked for in between the other exits);
the property is about such owners.  `ChatAgent` asks that model, tools and stores
return, be it with an error; clients need not stay, but then nothing is promised
to them.  `GatewayTransfer` asks that calls return and sleeps end.

### Disagreements between the skill documents and the code

The chat agent repeats the skill documents to owners.  Some of their statements, and some
comments, do not hold of the program as it runs.  One of them has a run that
must find it violated:

* `ClaimDailyCap`: "Hard cap of 3 actions/day".  The position fetcher reports
  `actions_today: 0` on every fetch and nothing counts an action, so the quota
  of the evaluator never applies.  Two supplies on one day under a quota of one.

The others were met while the models were written.  They have no run of their
own: the models behave in these ways too, and the properties of the runs are
stated so as not to depend on them.

* Cooldown: `min_idle_minutes` is a "cooldown after a venue receives
  capital".  The fetcher reports an empty `last_action_at`; AAVE receives twice
  in one minute.
* Venue share: "50% per venue".  `supplyAave(U256::MAX)` supplies all the
  account holds on Arbitrum, not the amount the evaluator capped.
* Routing: "Compass will route your USDC to AAVE".  Under the growth row
  the plan is the whole Arc balance, and the deposit is that plus the fee
  buffer: it reverts on every tick and nothing is ever supplied.
* Depeg: below the peg threshold "the evaluator emits CircuitBreak and the
  engine drains to idle".  `build_snapshot` sets the peg to 1.0, and neither
  caller of `tick_once` acts on anything but `Act`.
* Versions: "Server validates + assigns next version".  Two first
  commits of one owner both find no row, `FOR UPDATE` locks nothing, both are told
  version 1 and the second overwrites the first.
* Retraction, in the description of the `commit_policy` tool (`chat_agent.rs:85-95`): "server-side guards retract any reply that claims a commit
  without a matching tool call".  Only the text of a turn without tool calls is
  looked at, and any write tool in the trace satisfies the guard.  A claim beside calls of tools that
  only read goes into the reply unseen; and a loop that runs out of turns saves its
  reply as it stands (`chat_agent.rs:612-618`), so that this may be its end.
  `GuardKeepsItsWord` says what is left of the sentence.
* Session: "Session valid for 24 hours".  `ensure_session` leaves a
  session alone that is about to end, and the setup answers a day ahead.

Some more are hazards of the code that no document speaks about.  The models have
these behaviours, or name them where they leave them out:

* A withdrawal (`api/withdraw.rs`) deposits what is on Arbitrum and burns
  just that amount, without the fee buffer a bridge deposits: a Gateway that charges any fee
  refuses the transfer, unless an earlier withdrawal has left enough there.  It also goes on
  to the deposit when the agent could not be made a delegate.  Either way the money stays in
  the Gateway on Arbitrum, and no route takes it from there: the next withdrawal burns what it finds on
  Arbitrum, the recovery what is in the Gateway on Arc.  The run has both cases.
  `OnlyRefusalsStrand` does not say that they do not happen, it says that nothing else
  leaves money there unless a call fails; and `PausedMoneySettles` that of what an owner
  asks back all but this, fees and the rest of a fee buffer arrives.
* The owner's calls are awaited, but the status of their receipts is not read.  A
  withdrawal goes on from a deposit that reverted.  A payment that reverted is
  answered with the amount sent, and booked as a withdrawal; one that worked is not
  booked if the append fails.  Earnings are then off for good; `EarningsAreExplained`
  speaks of owners whose payments all worked and are all booked.
* Earnings leave out what is in the Gateway or between the chains: while money is
  under way a loss is shown.
* Two withdrawals of one owner at once, with a deposit of the owner's in between: both read
  the balance, one after it has grown; the deposit of the first reverts unseen, but
  its transfer burns part of what the second deposited, and the second is refused,
  even by a Gateway without a fee.  What it leaves is `stranded`; the theorem is
  about any number of withdrawals at once, the run about one at a time.
* `GET /earnings` joins four reads, one of the ledger and three of balances; money that moves between
  them is shown twice or not at all.  `EarningsAreExplained` takes them as of one moment.
* Exits move money and write no audit event (a recovery writes its own):
  `MovedFundsAreAudited` is about the engine.
* The thinking of a turn must be "echoed back on every subsequent turn"
  (`core/llm/types.rs`), and is, for turns with tools; the turn the guard puts back
  is sent without it (`chat_agent.rs`).  A reply without any text is saved as such
  and sent, empty, with every later request, which Anthropic refuses.
  `EveryRequestIsWellFormed` is about tool calls and their order.
* Two chats of one owner at once: one that lists the history after the other's message was
  saved finds its own in front of it, does not take it off, and sends it twice.  A
  history that is cleared while a reply streams ends up with a reply to nothing.
* The strategy agent moves money without policy, gate or audit log, on the route that asks for
  a proposal as on the others: that it does not is left to the prompt.  If it
  runs out of turns or the model fails, the answer is an error without the trace of
  what was done.
* An answer cut off by the token limit hands over a tool call with half its
  arguments; they do not parse, and the tool is called with none.  An answer that
  ends with a reason the OpenAI parser does not know keeps its held text.

Quota and cooldown are why `RebalanceLoop` is a module of its own: they hold of the
evaluator and not of the engine, since what the evaluator relies on is not kept.

## 4. Proofs

TLAPS checks these theorems for every value of the constants that the named
assumptions (`EngineAssumption`, `LoopAssumption`, `ExitAssumption`,
`ChatAssumption`, ...) admit: any number of owners, tasks, requests and messages,
any amounts, any policy.  A hypothesis beyond those is written in the theorem.

**Evaluator.**  `DecisionsWithinPolicy`: a plan moves capital its source holds
into a whitelisted lending venue, within the move limit, the cap and the gas
limit, in whatever order the maps are walked.  It follows the source: venues that
pass the filter, the amount as the least of four bounds, the cost.
`NeverWithdraws`: no plan ends in an idle venue, so the withdraw branch of
`dispatch_action` is dead code.  `PlansAreDispatched`: as long as AAVE on Arc has
no data, what the evaluator plans an unchanged gate passes and the executor has a branch for.

**RebalanceLoop.**  `LoopTypeOK`, `LoopQuota`, `LoopCooldown`, `LoopCap`,
`LoopMovesInCalm`, `LoopMovesRaiseYield`, `LoopPlansAreExecutable`.  The quota is
not inductive: it needs that the position counts the moves (`CounterInv`); the
cooldown needs that each venue's `last_action_at` is no older than its latest move
and that moves are in order (`LastActionInv`).  `LoopInv` is these two with the type
invariant.  The action properties follow from what a plan is made of
(`ActConditions`): a move shifts an amount to a venue whose rate is higher, so the
yield of the holdings rises by amount times difference.

**Engine.**  `EngineTypeOK`, `EngineAuditExplains`, `EngineMovesAreAudited`,
`EngineTransfersAreCovered`.  `EngineInv` is `TypeOK`, `PolicyInv` (an owner has a
status exactly when there is a version, and every version was validated), `TasksInv`
(what a task carries at each label: at the gate its plan was decided under its
version, from the start on its plan passed the gate under the version it books, and
past the start event the log names it) and `AuditInv`, the two audit properties.
None of the three is inductive without `TasksInv`: the start event copies the plan
out of the job, and money moves because a label was reached.
`EngineAuditExplains` assumes that decisions and starts are among `Logged`,
`EngineMovesAreAudited` that starts are.  `EngineTransfersAreCovered` compares sums
over the tasks at a label with what is in the escrow and attested.  It assumes
finitely many tasks, and that no fee exceeds the buffer the deposit adds: a
transfer takes amount and fee out of the escrow, and with a larger fee one bridge would eat
into another's deposit.

**Sums.**  `SumOver` is a fold, of which no library fact says anything.
`OperatorProofs` has what is needed: the sum over a set without an element, over one
more element, and with other weights.  The induction on finite sets is done by
hand: among the subsets for which the fact fails there would be one of least
cardinality.

**OwnerExits.**  `OwnerExitsTypeOK`: no exit overdraws a balance beside the
engine.  `ExitsAssumption` does not touch the constants of `Engine`, and no
theorem about `Spec` alone uses it.  `ExitInv` adds to the types `PolicyInv` and `TasksInv` of the engine, that
every exit stands at a label of its own route and has an owner there (`OnPath`), and
that the ledger is finite; a step is one of the engine, for which the lemmas of
the engine alone are cited, or one of the exits.
`ExitsOnlyRefusalsStrand` is about any number of withdrawals of an owner at once and any
fees.  The invariant is the property itself, owner by owner (`InGateway`): the deposits of the withdrawals waiting at `attest` are a sum over
exits, and a step changes one summand.  A deposit adds as much to the sum as to the
Gateway; a transfer takes the amount from the sum and the amount with the fee from the
Gateway; a refusal takes its summand from the sum, and `stranded` becomes all that lies
there.  A deposit that reverted unseen only adds to the sum.
`ExitsExplainEarnings` needs no hypothesis.  `LedgerInv` says that an owner's
money, over all the places it can be in, is always what it was at first
(`NothingIsLost`, for every step of engine and exits), that what the wallet lacks or
has gained is what the owner's transactions add up to (`WalletsAdd`), that
transactions have an identity (`IdsAreUnique`), that each event is of one
(`EventsAreBacked`), and that the sums of the ledger are the sums of the
transactions that have an event (`SumsAgree`).  Once all have one, deposits less
withdrawals are what has left the wallet, so they are what is in all other places.

**PolicyPostgres.**  `StoreTypeOK` and `StoreColumns` hold whether or not first puts race: the row a request
has read agrees with itself, and so does what it writes (`RowsInv`).  `StoreVersions` and
`StoreImplements` are proved from `FirstRaces = FALSE`, no request of an owner runs beside
the owner's first `put`, since the race of first commits breaks them.  `StoreInv`
adds that no version is ahead of the row's (`NoneAhead`), that two requests of one
owner are under way only where there is a row (`FirstIsAlone`), and `ClientInv`:
what a client has read is what is committed as long as it holds the lock
(`ReadIsCurrent`).  The refinement follows step by step: every statement but the
commit stutters.

**GatewayTransfer.**  `TransferWithinBudget`, `TransferRidesOutLag`,
`TransferTypeOK`, for every budget, backoff, lag and call duration.  The
strengthening ties the time passed to the next wait (`Clock`), the deposit's lag to
the time passed (`Nearer`) and the refusal to what was missing (`Blamed`).

**Session.**  `SessionTypeOK`, `SessionSetupsTakeHold`, for any number of
concurrent requests.  `SessionInv` says what a setup knows of the chains once it
is past a label: the account is deployed, and the session, unless time has passed
since, is there or in the mempool (`Known`, `Sure`, `Held`); that a registration on its way
has time left (`Lives`), that a status is cached only when both chains were read (`BothProbed`), and that
the cache has one entry at most (`OneEntry`).

**ChatAgent.**  `ChatTypeOK`, `ChatGuardKeepsItsWord`, `ChatTracesAreTrue`, for any
number of chats of one owner at once, and `ChatConversationIsWhole`, for one: the
rows of two chats come in any order.  `ChatInv` carries to the moment a reply is
saved what the guard has seen of its last turn, and keeps trace and effects
together at every step, since a chat may be dropped at any.  That each text of a
reply out of turns came with a call holds because the trace, with the calls still to be
made, is never shorter than the text.  `ChatAssumption` has
the past conversation left by this program: its replies are as the guard leaves them and
their traces true.  For the conversation `WholeInv` says what the table may hold
between the message and the read, and that every request begins with the opening
made then (`Opening`), as every step only adds messages (`PrefixGrows`).
`ChatConversationIsWhole` assumes that the past is by others.

**StrategyAgent.**  `AgentsTypeOK`, `StrategyReportsExplainFunds`, for any number of
requests on the account, any plans, amounts and fees.  `StrategyInv` has two parts beside the
types and what a request carries at each label (`CallingInv`).  `AttestedIsThere` holds
whatever is lost: the sums of the attestations that are open, and of those sent, are what the
ledger has of them; without it a mint could overdraw the account.  `MintsAreTold` and
`Balanced` hold as long as nothing is lost and no request has failed, with it the trace: an
attestation is no longer open just when some trace calls it minted, and each place has what the
traces say went there less what left it.  This is proved at every step, not only once all
have answered: a call enters its trace in the step that takes its effect.  A mint that was reported
twice counts once because the reports are summed over attestations.

**Requests to providers.**  `AgentsRequestsAreWellFormed`, for both agents and both wire formats.
A conversation is `Settled` if the results of a message's calls are those of the next message,
and the last message makes none; `Ready` if it also ends with the user.  Between the turn of a model and the
last of its calls it is `Awaiting` the results of one message: `IdsOfTurn`, the results had and
those still to come, stays what that message asks for at every call (`IdsKept`).  `StrategyTalk`
and `ChatTalk` say which of these holds at each label.  `ReadyAccepted` then shows once
that both interfaces take a ready conversation.  For the "role: tool" form this needs what
`FlattenSeq` of the messages' images is, one message at a time (`ConcatIs`, `WireGrows`): the
results of a message come before any other message that is not one (`Continues`).

**Streams.**  `StreamsTypeOK`, `StreamsCutsDoNotMatter`, `StreamsCallsComeOnce`, for
every alphabet, every two markers, any finite set of indices and any length of answer.
`CutsDoNotMatter` is not inductive: what is held back could become anything with the
next delta.  `NothingLost` says that whatever comes next, what was passed on followed by
what is held, split together with it, is what the whole content splits into.  A delta
keeps this by `SplitKeeps`: splitting a buffer and then what it held with what follows
gives what splitting all of it gives.  At each marker this peels off the text before it,
and what follows the marker is a shorter buffer; without one, no marker can begin
earlier than the text held back (`HoldIsEnough`).  `SplitInlineThink` and `WholeSplit`
are recursive functions: that they satisfy their equations is proved first
(`WholeUnfolds`, `SplitUnfolds`), from `Fixed` of `OperatorProofs`, which has it of any
recursion in which a rank falls, and by the least number as counterexample where an
induction would be used.  The calls need less: in the OpenAI format each slot is what
was sent for its index (`Collected`), in the other the current block is the open one
(`Held`) and the calls handed over and kept are those of the closed blocks (`CallsIn`).

There is one lemma per group of actions and conjunct of the invariant
(`TickStepType`, `ExecStepTasks`, `NextFunds`, ...), one step per action in it.

Every invariant and every safety property of steps that a passing run checks has its
theorem.  Only model-checked are the liveness properties (`PauseQuiesces`,
`InFlightLands`, `IdleFundsGetSupplied`, `ActiveUsersAreServed`, `Ends`, `StaleHeals`,
`PausedMoneySettles`, `EveryChatIsAnswered`): fairness, and `ENABLED` with it, is out of
the reach of the installed provers.

## 5. What is not modelled

* Thoughts, triggers, no-op decisions and substep events: nothing reads them.
* Packing of user operations, intents and request bodies: conversions.
* Contract code: it is not in this repository; `Ledger` has what the calls in
  it rely on.
* `run_chat_agent`, the chat that does not stream: nothing calls it.
* The HTTP clients of the LLM providers: pure I/O, but for the conversion of
  messages (`Conversation`) and the chain (`ChatAgent`).
* The strategy agent beside the engine: each is modelled beside other tasks of its own kind on
  the account, with the same operations and nonces.
* The read-only routes; the listing of funding events; the performance fee, a
  percentage of the earnings that is shown and never charged.
* Text of the Anthropic stream: it is passed on as it comes.
* An empty name of a tool call that follows its name in the OpenAI format: it would overwrite the name,
  and the call would be dropped.
* `createAccount` and `registerSession` that drop out of the mempool or revert; a revert of
  `addDelegate`, whose receipt is awaited and not looked at.  The delegate of `SetupTakesHold` says
  no more than that a setup does not answer without that receipt.
* A message that repeats an unanswered one word for word and cannot be saved: the code takes the
  earlier one for it (`api/chat.rs:79` compares role and text, `Before` whose message it is).
* The cut of a character between two chunks of the transport, which
  `from_utf8_lossy` turns into replacement characters: `OpenAiStream` is about
  characters.

## 6. Plan

What is left:

* the listing of the audit store and its limits.
