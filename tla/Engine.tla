------------------------------- MODULE Engine -------------------------------
(***************************************************************************)
(* The automation engine as it runs: the cron cycle of                     *)
(* src/automation/scheduler.rs, the ticks the API and the chat agent spawn *)
(* beside it, the stores they share and the chains they act on.            *)
(*                                                                         *)
(* A task handles one user from the position fetch to the last audit       *)
(* event.  Its steps are cut at the awaits where another task, an owner's  *)
(* request or a chain can come in between:                                 *)
(*                                                                         *)
(*   arc, arb, aave   RpcPositionFetcher::fetch, three separate reads      *)
(*   tick, eval       tick_once: the policy read, the evaluation           *)
(*   gate             risk_gate::check on the policy read again            *)
(*   start            execute_plan: the start event                        *)
(*   build, built     a user operation: its nonce is read, it is sent      *)
(*   transfer, mint   the Gateway attests, the mint is sent                *)
(*   report           the done event                                       *)
(*                                                                         *)
(* Policies and the audit log live in Postgres and survive a crash, the    *)
(* stored positions and the snapshot do not.  No step reads the log, so    *)
(* a run may leave types of events out (Logged) and see the same engine;   *)
(* triggers, thoughts, no-op decisions and substeps are never kept.        *)
(***************************************************************************)
EXTENDS Evaluator, Ledger, Sums

CONSTANTS
  Users, NoUser,
  Cron,          \* the cron task
  Ticks,         \* bound: the tasks that can run beside it
  Bodies,        \* policies the owners submit, valid or not
  Aprs,          \* what AAVE may pay, in the units of BpUnit
  NoSnapshot,    \* nothing built since the start
  Buffer,        \* BRIDGE_FEE_BUFFER_USDC_6DEC
  Fees,          \* what the Gateway may charge for a transfer
  Endowment,     \* what each owner has to send to the accounts
  Amounts,       \* the amounts sent
  Requests,      \* the kinds of request owners make
  Faults,        \* may calls to stores, chains and the Gateway fail?
  Crashes,       \* may the process restart?
  Logged,        \* the types of audit event that are followed
  MaxVersion,    \* bound: versions of a policy
  MaxClock       \* bound: minutes that pass

Tasks == {Cron} \cup Ticks

ASSUME EngineAssumption ==
  /\ Cron \notin Ticks
  /\ NoUser \notin Users
  /\ \A b \in Bodies  : b \in PolicyBody
  /\ Aprs \subseteq Nat
  /\ NoSnapshot \notin Snapshot
  /\ Buffer \in Nat
  /\ Fees \subseteq Nat
  /\ Endowment \in Nat
  /\ Amounts \subseteq Nat
  /\ Requests \subseteq { "put", "status", "chat_resume", "run_once" }
  /\ Logged \subseteq { "decision", "reject", "start", "done" }
  /\ Faults \in BOOLEAN /\ Crashes \in BOOLEAN
  /\ MaxVersion \in Nat /\ MaxClock \in Nat

VARIABLES
  policy,    \* policy[u]: its status and every body committed, oldest first
  audit,     \* the audit events of the Logged types, a set
  stored,    \* PositionStore
  snapshot,  \* SnapshotStore
  clock,     \* minutes
  funds,     \* funds[u]: the accounts on the chains and in the Gateway
  pc, job,   \* each task: where it is, what it carries
  queue,     \* the users left in the cron cycle
  cycleAt    \* the time the cron cycle started

stores == << policy, audit, stored, snapshot >>
cycle  == << queue, cycleAt >>
vars   == << stores, clock, funds, pc, job, cycle >>

-----------------------------------------------------------------------------
NoPlan     == [ from |-> ArcIdle, to |-> ArcIdle, amount |-> 0, cost |-> 0 ]
NoHoldings == [ v \in Venue |-> 0 ]

Job ==
  [ who     : Users \cup {NoUser},
    now     : Nat,                     \* the time the tick is evaluated at
    dry     : BOOLEAN,                 \* run_once stops after the decision
    seen    : [Venue -> Nat],          \* balances read so far
    version : Nat,                     \* policy version evaluated
    plan    : Plan,
    gated   : Nat,                     \* policy version the gate passed
    op      : {"none", "deposit", "supply", "withdraw"},
    fresh   : BOOLEAN,                 \* the nonce read is still the next one
    failed  : BOOLEAN ]

NewJob(u, now, dry) ==
  [ who |-> u, now |-> now, dry |-> dry, seen |-> NoHoldings, version |-> 0,
    plan |-> NoPlan, gated |-> 0, op |-> "none", fresh |-> FALSE,
    failed |-> FALSE ]

NoJob == NewJob(NoUser, 0, FALSE)

Decided(u, version, d) ==
  [ type |-> "decision", user |-> u, version |-> version, decision |-> d ]
Rejected(u, version, plan) ==
  [ type |-> "reject", user |-> u, version |-> version, plan |-> plan ]
Started(u, version, plan) ==
  [ type |-> "start", user |-> u, version |-> version, plan |-> plan ]
Done(u, version, plan, ok) ==
  [ type |-> "done", user |-> u, version |-> version, plan |-> plan, ok |-> ok ]

Event ==
  [ type : {"decision"}, user : Users, version : Nat, decision : Decision ]
    \cup [ type : {"reject", "start"}, user : Users, version : Nat, plan : Plan ]
    \cup [ type : {"done"}, user : Users, version : Nat, plan : Plan,
           ok : BOOLEAN ]

Log(e) == audit' = audit \cup (IF e.type \in Logged THEN {e} ELSE {})

Version(u) == Len(policy[u].hist)
Body(u)    == policy[u].hist[Version(u)]

(* What a fetched position says: the fetcher knows balances only.          *)
Fetched(holdings) ==
  [ holdings |-> holdings, lastActionAt |-> [ v \in Venue |-> Never ],
    actionsToday |-> 0 ]

Executing == { "build", "built", "transfer", "mint", "report" }
Label ==
  { "idle", "next", "arc", "arb", "aave", "tick", "eval", "gate", "start" }
    \cup Executing

Init ==
  /\ policy   = [ u \in Users |-> [ status |-> "none", hist |-> <<>> ] ]
  /\ audit    = {}
  /\ stored   = [ u \in Users |-> Fetched(NoHoldings) ]
  /\ snapshot = NoSnapshot
  /\ clock    = 0
  /\ funds    = [ u \in Users |->
                    [ l \in Location |-> IF l = "wallet" THEN Endowment ELSE 0 ] ]
  /\ pc       = [ t \in Tasks |-> "idle" ]
  /\ job      = [ t \in Tasks |-> NoJob ]
  /\ queue    = {}
  /\ cycleAt  = 0

-----------------------------------------------------------------------------
(* Starting and leaving a task.                                            *)

Goto(t, label) == pc' = [ pc EXCEPT ![t] = label ]

(* Mutant: an early return ends the cycle.                                 *)
LeaveCycle(t) == Goto(t, "idle") /\ job' = [ job EXCEPT ![t] = NoJob ]

(* The next user of the cron cycle, or the end of the task.                *)
Leave(t) ==
  /\ Goto(t, IF t = Cron /\ queue # {} THEN "next" ELSE "idle")
  /\ job' = [ job EXCEPT ![t] = NoJob ]

(* A tick spawned while every modelled task is busy is not followed.       *)
Spawn(u, dry) ==
  \/ \E t \in Ticks :
       /\ pc[t] = "idle"
       /\ Goto(t, "arc")
       /\ job' = [ job EXCEPT ![t] = NewJob(u, clock, dry) ]
  \/ /\ \A t \in Ticks : pc[t] # "idle"
     /\ UNCHANGED << pc, job >>

(* run_cron_cycle lists the active users and fixes the time once.          *)
CronWake ==
  LET active == { u \in Users : policy[u].status = "active" }
  IN  /\ pc[Cron] = "idle" /\ active # {}
      /\ queue' = active
      /\ cycleAt' = clock
      /\ Goto(Cron, "next")
      /\ UNCHANGED << stores, clock, funds, job >>

CronNext(u) ==
  /\ pc[Cron] = "next" /\ u \in queue
  /\ queue' = queue \ {u}
  /\ job' = [ job EXCEPT ![Cron] = NewJob(u, cycleAt, FALSE) ]
  /\ Goto(Cron, "arc")
  /\ UNCHANGED << stores, clock, funds, cycleAt >>

-----------------------------------------------------------------------------
(* fetch and positions.put.                                                *)

Read(t, label, venue, n, next) ==
  /\ pc[t] = label
  /\ job' = [ job EXCEPT ![t].seen[venue] = n ]
  /\ Goto(t, next)
  /\ UNCHANGED << policy, audit, snapshot, clock, funds, cycle >>

FetchArc(t) == /\ Read(t, "arc", ArcIdle, funds[job[t].who][ArcIdle], "arb")
               /\ UNCHANGED stored
FetchArb(t) == /\ Read(t, "arb", ArbIdle, funds[job[t].who][ArbIdle], "aave")
               /\ UNCHANGED stored

(* A failing AAVE read counts as a balance of zero.                        *)
FetchAave(t) ==
  /\ pc[t] = "aave"
  /\ \E n \in {funds[job[t].who][ArbAave]} \cup (IF Faults THEN {0} ELSE {}) :
       /\ Read(t, "aave", ArbAave, n, "tick")
       /\ stored' = [ stored EXCEPT ![job[t].who] = Fetched(job'[t].seen) ]

(* Any other failing read: the tick goes on with the stored position.      *)
FetchFails(t) ==
  /\ Faults /\ pc[t] \in {"arc", "arb"}
  /\ Goto(t, "tick")
  /\ UNCHANGED << stores, clock, funds, job, cycle >>

-----------------------------------------------------------------------------
(* tick_once.                                                              *)

SkipTick(t) ==
  /\ \/ pc[t] = "tick" /\ policy[job[t].who].status # "active"
     \/ pc[t] = "eval" /\ snapshot = NoSnapshot
  /\ Leave(t)
  /\ UNCHANGED << stores, clock, funds, cycle >>

BeginTick(t) ==
  /\ pc[t] = "tick" /\ policy[job[t].who].status = "active"
  /\ job' = [ job EXCEPT ![t].seen = NoHoldings,
                         ![t].version = Version(job[t].who),
                         ![t].now = IF job[t].dry THEN clock ELSE @ ]
  /\ Goto(t, "eval")
  /\ UNCHANGED << stores, clock, funds, cycle >>

EvaluateTick(t) ==
  LET u == job[t].who
      p == policy[u].hist[job[t].version]
  IN  /\ pc[t] = "eval" /\ snapshot # NoSnapshot
      /\ \E d \in Evaluate(p, snapshot, stored[u], job[t].now) :
           /\ IF d.kind = "noop" THEN UNCHANGED audit
                                 ELSE Log(Decided(u, job[t].version, d))
           /\ IF d.kind = "act" /\ ~job[t].dry
                THEN /\ job' = [ job EXCEPT ![t].plan = d.plan ]
                     /\ Goto(t, "gate")
                ELSE Leave(t)
      /\ UNCHANGED << policy, stored, snapshot, clock, funds, cycle >>

(* A store failing before the start event is written ends the tick.        *)
TickFails(t) ==
  /\ Faults /\ pc[t] \in {"tick", "eval", "gate", "start"}
  /\ Leave(t)
  /\ UNCHANGED << stores, clock, funds, cycle >>

-----------------------------------------------------------------------------
(* The gate reads the policy again; the plan is then executed in the name  *)
(* of the version it finds.                                                *)

(* Mutant: the gate sees the policy of the evaluation, the start is booked *)
(* under the one in force.                                                 *)
GatePassOld(t) ==
  LET u == job[t].who
  IN  /\ pc[t] = "gate"
      /\ GatePasses(policy[u].status, policy[u].hist[job[t].version], job[t].plan)
      /\ job' = [ job EXCEPT ![t].gated = Version(u) ]
      /\ Goto(t, "start")
      /\ UNCHANGED << stores, clock, funds, cycle >>

GatePass(t) ==
  LET u == job[t].who
  IN  /\ pc[t] = "gate" /\ GatePasses(policy[u].status, Body(u), job[t].plan)
      /\ job' = [ job EXCEPT ![t].gated = Version(u) ]
      /\ Goto(t, "start")
      /\ UNCHANGED << stores, clock, funds, cycle >>

GateReject(t) ==
  LET u == job[t].who
  IN  /\ pc[t] = "gate" /\ ~GatePasses(policy[u].status, Body(u), job[t].plan)
      /\ Log(Rejected(u, Version(u), job[t].plan))
      /\ Leave(t)
      /\ UNCHANGED << policy, stored, snapshot, clock, funds, cycle >>

FirstOp(plan) ==
  CASE Route(plan) = "bridge"   -> "deposit"
    [] Route(plan) = "supply"   -> "supply"
    [] Route(plan) = "withdraw" -> "withdraw"
    [] OTHER                    -> "none"

(* Mutant: the start event is left to the end of the execution.            *)
StartUnlogged(t) ==
  LET op == FirstOp(job[t].plan)
  IN  /\ pc[t] = "start"
      /\ job' = [ job EXCEPT ![t].op = op, ![t].failed = (op = "none") ]
      /\ Goto(t, IF op = "none" THEN "report" ELSE "build")
      /\ UNCHANGED << stores, clock, funds, cycle >>

StartAction(t) ==
  LET op == FirstOp(job[t].plan)
  IN  /\ pc[t] = "start"
      /\ Log(Started(job[t].who, job[t].gated, job[t].plan))
      /\ job' = [ job EXCEPT ![t].op = op, ![t].failed = (op = "none") ]
      /\ Goto(t, IF op = "none" THEN "report" ELSE "build")
      /\ UNCHANGED << policy, stored, snapshot, clock, funds, cycle >>

-----------------------------------------------------------------------------
(* A user operation: build_userop reads the account's nonce, then          *)
(* sign_and_submit sends it and waits for the receipt.  An operation that  *)
(* reaches the chain uses the nonce up, reverted or not.                   *)

OpChain(t) == IF job[t].op = "deposit" THEN "arc" ELSE ChainOf(job[t].plan.to)

(* What a bridge deposits: the Gateway takes its fee on top of the amount. *)
(* Mutant: the fee is forgotten.                                           *)
DepositBare(plan)   == plan.amount
DepositAmount(plan) == plan.amount + Buffer

OpCan(t) ==
  LET a == funds[job[t].who]
  IN  CASE job[t].op = "deposit"  -> CanDeposit(a, "arc", DepositAmount(job[t].plan))
        [] job[t].op = "supply"   -> CanSupply(a, OpChain(t))
        [] job[t].op = "withdraw" -> CanWithdraw(a, OpChain(t), job[t].plan.amount)

OpEffect(t) ==
  LET a == funds[job[t].who]
  IN  CASE job[t].op = "deposit"  -> Deposit(a, "arc", DepositAmount(job[t].plan))
        [] job[t].op = "supply"   -> SupplyAll(a)
        [] job[t].op = "withdraw" -> Withdraw(a, job[t].plan.amount)

OpRuns(t) == funds' = [ funds EXCEPT ![job[t].who] = OpEffect(t) ]

UsesNonce(t, failed) ==
  job' = [ s \in Tasks |->
             IF s = t THEN [ job[s] EXCEPT !.failed = failed, !.fresh = FALSE ]
             ELSE IF job[s].who = job[t].who /\ OpChain(s) = OpChain(t)
               THEN [ job[s] EXCEPT !.fresh = FALSE ]
             ELSE job[s] ]

Fail(t) ==
  /\ job' = [ job EXCEPT ![t].failed = TRUE ]
  /\ Goto(t, "report")

BuildOp(t) ==
  /\ pc[t] = "build"
  /\ job' = [ job EXCEPT ![t].fresh = TRUE ]
  /\ Goto(t, "built")
  /\ UNCHANGED << stores, clock, funds, cycle >>

OpLands(t) ==
  /\ pc[t] = "built" /\ job[t].fresh /\ OpCan(t)
  /\ OpRuns(t)
  /\ UsesNonce(t, FALSE)
  /\ Goto(t, IF job[t].op = "deposit" THEN "transfer" ELSE "report")
  /\ UNCHANGED << stores, clock, cycle >>

(* Mutant: what reverts is tried again, for ever.                          *)
OpRetries(t) ==
  /\ pc[t] = "built" /\ job[t].fresh /\ ~OpCan(t)
  /\ UsesNonce(t, FALSE)
  /\ Goto(t, "build")
  /\ UNCHANGED << stores, clock, funds, cycle >>

OpReverts(t) ==
  /\ pc[t] = "built" /\ job[t].fresh /\ ~OpCan(t)
  /\ UsesNonce(t, TRUE)
  /\ Goto(t, "report")
  /\ UNCHANGED << stores, clock, funds, cycle >>

(* Sent and mined, but the receipt never reaches the task.                 *)
OpLandsUnseen(t) ==
  /\ Faults /\ pc[t] = "built" /\ job[t].fresh /\ OpCan(t)
  /\ OpRuns(t)
  /\ UsesNonce(t, TRUE)
  /\ Goto(t, "report")
  /\ UNCHANGED << stores, clock, cycle >>

(* The EntryPoint refuses a nonce another task has used.                   *)
OpStale(t) ==
  /\ pc[t] = "built" /\ ~job[t].fresh
  /\ Fail(t)
  /\ UNCHANGED << stores, clock, funds, cycle >>

-----------------------------------------------------------------------------
(* The rest of cross_chain_arc_idle_to_arbitrum_aave.                      *)

Attests(t, fee) ==
  LET u == job[t].who
  IN  /\ pc[t] = "transfer" /\ fee \in Fees
      /\ CanAttest(funds[u], "arc", job[t].plan.amount, fee)
      /\ funds' = [ funds EXCEPT ![u] =
                      Attest(@, "arc", "arb", job[t].plan.amount, fee) ]
      /\ UNCHANGED << stores, clock, cycle >>

(* Mutant: the bridge returns once the Gateway has attested.               *)
TransferOnly(t) ==
  /\ \E fee \in Fees : Attests(t, fee)
  /\ Goto(t, "report")
  /\ UNCHANGED job

TransferAttested(t) ==
  /\ \E fee \in Fees : Attests(t, fee)
  /\ Goto(t, "mint")
  /\ UNCHANGED job

TransferUnseen(t) ==
  /\ Faults
  /\ \E fee \in Fees : Attests(t, fee)
  /\ Fail(t)

(* gatewayMint is sent, not awaited: the supply follows eight seconds      *)
(* later, whether or not the mint is in a block by then.                   *)
SendMintStep(t) ==
  LET u == job[t].who
  IN  /\ pc[t] = "mint" /\ CanMint(funds[u], "arb", job[t].plan.amount)
      /\ funds' = [ funds EXCEPT ![u] = SendMint(@, "arb", job[t].plan.amount) ]
      /\ job' = [ job EXCEPT ![t].op = "supply" ]
      /\ Goto(t, "build")
      /\ UNCHANGED << stores, clock, cycle >>

(* A call that fails ends the plan, whatever its earlier steps have moved. *)
StepFails(t) ==
  /\ Faults /\ pc[t] \in {"build", "built", "transfer", "mint"}
  /\ Fail(t)
  /\ UNCHANGED << stores, clock, funds, cycle >>

Report(t) ==
  /\ pc[t] = "report"
  /\ Log(Done(job[t].who, job[t].gated, job[t].plan, ~job[t].failed))
  /\ Leave(t)
  /\ UNCHANGED << policy, stored, snapshot, clock, funds, cycle >>

ReportFails(t) ==
  /\ Faults /\ pc[t] = "report"
  /\ Leave(t)
  /\ UNCHANGED << stores, clock, funds, cycle >>

-----------------------------------------------------------------------------
(* Owners, workers, chains.                                                *)

(* put_policy of the API, commit_policy of the chat: a new version, whose  *)
(* status is what the request says, and a tick of its own.                 *)
PutPolicy(u, body, status) ==
  /\ Valid(body) /\ Version(u) < MaxVersion
  /\ policy' = [ policy EXCEPT ![u] = [ status |-> status,
                                        hist   |-> Append(@.hist, body) ] ]
  /\ Spawn(u, FALSE)
  /\ UNCHANGED << audit, stored, snapshot, clock, funds, cycle >>

SetStatus(u, status) ==
  /\ policy[u].hist # <<>>
  /\ policy' = [ policy EXCEPT ![u].status = status ]
  /\ UNCHANGED << audit, stored, snapshot, clock, funds, cycle >>

(* pause and resume of the API and pause_policy of the chat change the     *)
(* status only.                                                            *)
PauseOrResume(u, status) == SetStatus(u, status) /\ UNCHANGED << pc, job >>

(* resume_policy of the chat ticks the user at once.                       *)
ResumeByChat(u) == SetStatus(u, "active") /\ Spawn(u, FALSE)

RunOnce(u) ==
  /\ Spawn(u, TRUE)
  /\ UNCHANGED << stores, clock, funds, cycle >>

(* build_snapshot reads the APR of AAVE and nothing else: the peg, the     *)
(* gateway, utilisation, TVL, gas and fee are constants of the source.     *)
(* Money is in tenths of a dollar.                                         *)
BuildSnapshot(apr) ==
  [ builtAt |-> clock, peg |-> 100, gateway |-> "ok",
    listed  |-> {ArcIdle, ArbIdle, ArbAave},
    venues  |-> [ v \in Venue |->
                    IF v = ArbAave
                      THEN [ apr |-> apr, utilization |-> 50, tvlDrop |-> 0 ]
                      ELSE [ apr |-> 0, utilization |-> 0, tvlDrop |-> 0 ] ],
    gas     |-> [ c \in Chain |-> 5 ],
    fee     |-> 1 ]

Publish(apr) ==
  /\ snapshot' = BuildSnapshot(apr)
  /\ UNCHANGED << policy, audit, stored, clock, funds, pc, job, cycle >>

Pass ==
  /\ clock < MaxClock
  /\ clock' = clock + 1
  /\ UNCHANGED << stores, funds, pc, job, cycle >>

Fund(u, c, n) ==
  /\ funds[u]["wallet"] >= n
  /\ funds' = [ funds EXCEPT ![u] = Move(@, "wallet", IdleOn(c), n) ]
  /\ UNCHANGED << stores, clock, pc, job, cycle >>

MintLands(u) ==
  /\ funds[u]["arb_minting"] > 0
  /\ funds' = [ funds EXCEPT ![u] = LandMint(@, "arb", @["arb_minting"]) ]
  /\ UNCHANGED << stores, clock, pc, job, cycle >>

MintDropped(u) ==
  /\ Faults /\ funds[u]["arb_minting"] > 0
  /\ funds' = [ funds EXCEPT ![u] = DropMint(@, "arb", @["arb_minting"]) ]
  /\ UNCHANGED << stores, clock, pc, job, cycle >>

(* The process restarts: the tasks and the in-memory stores are gone.      *)
Crash ==
  /\ Crashes
  /\ stored'   = [ u \in Users |-> Fetched(NoHoldings) ]
  /\ snapshot' = NoSnapshot
  /\ pc'       = [ t \in Tasks |-> "idle" ]
  /\ job'      = [ t \in Tasks |-> NoJob ]
  /\ queue'    = {}
  /\ UNCHANGED << policy, audit, clock, funds, cycleAt >>

-----------------------------------------------------------------------------
TickStep(t) ==
  \/ FetchArc(t) \/ FetchArb(t) \/ FetchAave(t) \/ FetchFails(t)
  \/ SkipTick(t) \/ BeginTick(t) \/ EvaluateTick(t) \/ TickFails(t)
  \/ GatePass(t) \/ GateReject(t) \/ StartAction(t)

ExecStep(t) ==
  \/ BuildOp(t) \/ OpLands(t) \/ OpReverts(t) \/ OpLandsUnseen(t) \/ OpStale(t)
  \/ TransferAttested(t) \/ TransferUnseen(t) \/ SendMintStep(t)
  \/ StepFails(t) \/ Report(t) \/ ReportFails(t)

TaskStep(t) == TickStep(t) \/ ExecStep(t)

CronStep == CronWake \/ \E u \in Users : CronNext(u)

OwnerStep ==
  \E u \in Users :
    \/ /\ "put" \in Requests
       /\ \E b \in Bodies, s \in {"active", "paused"} : PutPolicy(u, b, s)
    \/ /\ "status" \in Requests
       /\ \E s \in {"active", "paused"} : PauseOrResume(u, s)
    \/ "chat_resume" \in Requests /\ ResumeByChat(u)
    \/ "run_once" \in Requests /\ RunOnce(u)
    \/ \E c \in Chain, n \in Amounts : Fund(u, c, n)

WorldStep ==
  \/ Pass
  \/ \E apr \in Aprs : Publish(apr)
  \/ \E u \in Users : MintLands(u) \/ MintDropped(u)
  \/ Crash

Next == CronStep \/ (\E t \in Tasks : TaskStep(t)) \/ OwnerStep \/ WorldStep

Spec == Init /\ [][Next]_vars

(***************************************************************************)
(* Fairness: tokio polls every task that can go on and every awaited call  *)
(* returns, with a result or an error, the two workers' tickers fire       *)
(* again, a mint that was sent is included.  Each fetch builds a new       *)
(* HashMap with a hasher seeded anew, so a venue that ties for the worst   *)
(* holding again and again is the first one of the iteration some time.    *)
(* Owners and the clock owe nothing.                                       *)
(***************************************************************************)
Picks(v) ==
  \E t \in Tasks : EvaluateTick(t) /\ pc'[t] = "gate" /\ job'[t].plan.from = v

Fairness ==
  /\ \A t \in Tasks : WF_vars(TaskStep(t))
  /\ WF_vars(CronStep)
  /\ WF_vars(\E apr \in Aprs : Publish(apr))
  /\ \A u \in Users : WF_vars(MintLands(u))
  /\ \A v \in {ArcIdle, ArbIdle} : SF_vars(Picks(v))

FairSpec == Spec /\ Fairness

-----------------------------------------------------------------------------
(* Every variable keeps its type; in particular no balance, wherever the   *)
(* money is, is ever overdrawn.                                            *)
TypeOK ==
  /\ policy   \in [ Users -> [ status : {"none", "active", "paused"},
                               hist   : Seq(PolicyBody) ] ]
  /\ audit    \subseteq Event
  /\ stored   \in [ Users -> Position ]
  /\ snapshot \in Snapshot \cup {NoSnapshot}
  /\ clock    \in Nat
  /\ funds    \in [ Users -> Account ]
  /\ pc       \in [ Tasks -> Label ]
  /\ job      \in [ Tasks -> Job ]
  /\ queue    \subseteq Users
  /\ cycleAt  \in Nat

(* The audit log explains each execution: an action that starts was        *)
(* decided before, by a version of that owner's policy no newer than the   *)
(* one it is booked under, and it costs no more than the booked version    *)
(* allows, however the owner edits, pauses and resumes in between; and     *)
(* what is reported done was started.                                      *)
StartsWereDecided ==
  \A e \in audit : e.type = "start" =>
     /\ e.version \in 1 .. Version(e.user)
     /\ e.plan.cost <= policy[e.user].hist[e.version].maxGas
     /\ \E v \in 1 .. e.version : Decided(e.user, v, Act(e.plan)) \in audit

DoneWasStarted ==
  \A e \in audit : e.type = "done" =>
     Started(e.user, e.version, e.plan) \in audit

AuditExplains == StartsWereDecided /\ DoneWasStarted

(* The start event is written ahead of the first user operation: whenever  *)
(* an owner's money is anywhere but idle or at the owner's, stranded by a  *)
(* crash or a failure included, the log names an action that started for   *)
(* that owner.                                                             *)
Elsewhere == Location \ { ArcIdle, ArbIdle, "wallet" }

MovedFundsAreAudited ==
  \A u \in Users :
     (\E l \in Elsewhere : funds[u][l] > 0)
        => \E e \in audit : e.type = "start" /\ e.user = u

(* Each task that is about to ask for its transfer finds its own deposit   *)
(* in the Gateway, fee included, and each task that is about to mint its   *)
(* own attestation, even when another task bridges the same account at the *)
(* same time: the indexer may lag, but no transfer is refused for good.    *)
(* It needs the fee to stay within the buffer.                             *)
At(label, u) == { t \in Tasks : pc[t] = label /\ job[t].who = u }

TransferDue == [ t \in Tasks |-> job[t].plan.amount + Buffer ]
MintDue     == [ t \in Tasks |-> job[t].plan.amount ]

TransfersAreCovered ==
  \A u \in Users :
     /\ SumOver(TransferDue, At("transfer", u)) <= funds[u]["arc_escrow"]
     /\ SumOver(MintDue, At("mint", u)) <= funds[u]["arb_attested"]

-----------------------------------------------------------------------------
(* Once an owner has paused for good, the actions under way finish and no  *)
(* other starts, although a task may still sit between its gate and its    *)
(* start event when the pause comes in.                                    *)
PauseQuiesces ==
  \A u \in Users :
     <>[](policy[u].status = "paused")
       => <>[](\A t \in Tasks : ~(job[t].who = u /\ pc[t] \in Executing))

(* An owner who stays active is ticked again and again, whatever the other *)
(* owners and the spawned ticks do and whichever of their calls fail.      *)
ActiveUsersAreServed ==
  \A u \in Users :
     <>[](policy[u].status = "active")
       => []<>(pc[Cron] = "tick" /\ job[Cron].who = u)

(* Money that leaves the idle balance on Arc does not stay on its way.     *)
InFlightLands ==
  \A u \in Users :
     []<>(funds[u]["arb_attested"] + funds[u]["arb_minting"] = 0)

(* An active policy that leaves room beside the venue gets capital to work *)
(* once there is some.                                                     *)
IdleFundsGetSupplied ==
  \A u \in Users :
     ( /\ <>[](policy[u].status = "active")
       /\ <>(funds[u][ArcIdle] + funds[u][ArbIdle] > 0) )
       => <>(funds[u][ArbAave] > 0)
=============================================================================
