---------------------------- MODULE EngineProofs ----------------------------
(***************************************************************************)
(* The safety of the engine, for every set of owners, tasks, policies,     *)
(* markets, amounts and fees, with failing calls and restarts; and then of *)
(* the ways out for an owner beside it, for every set of exits.  What is   *)
(* said of Spec, the engine alone, uses nothing that OwnerExits assumes.   *)
(***************************************************************************)
EXTENDS OwnerExits, OperatorProofs

(***************************************************************************)
(* The inductive invariant.  A task carries the evidence for what it is    *)
(* about to do: the version it evaluated, its decision event, the version  *)
(* the gate passed, its start event.                                       *)
(***************************************************************************)
PolicyInv ==
  \A u \in Users :
     /\ policy[u].status = "active" => policy[u].hist # <<>>
     /\ \A i \in 1 .. Version(u) : Valid(policy[u].hist[i])

Evaluated(t) == job[t].version \in 1 .. Version(job[t].who)

DecisionLogged(t) ==
  "decision" \in Logged
     => Decided(job[t].who, job[t].version, Act(job[t].plan)) \in audit

GatePassed(t) ==
  /\ job[t].gated \in job[t].version .. Version(job[t].who)
  /\ job[t].plan.cost <= policy[job[t].who].hist[job[t].gated].maxGas

StartLogged(t) ==
  "start" \in Logged
     => Started(job[t].who, job[t].gated, job[t].plan) \in audit

TaskInv(t) ==
  /\ pc[t] \notin {"idle", "next"}                    => job[t].who \in Users
  /\ pc[t] \in {"eval", "gate", "start"} \cup Executing => Evaluated(t)
  /\ pc[t] \in {"gate", "start"} \cup Executing       => DecisionLogged(t)
  /\ pc[t] \in {"start"} \cup Executing               => GatePassed(t)
  /\ pc[t] \in Executing                              => StartLogged(t)
  /\ pc[t] \in {"build", "built"}                     => job[t].op # "none"

TasksInv == \A t \in Tasks : TaskInv(t)

AuditInv ==
  /\ "decision" \in Logged => StartsWereDecided
  /\ "start" \in Logged    => DoneWasStarted /\ MovedFundsAreAudited

EngineInv == TypeOK /\ PolicyInv /\ TasksInv /\ AuditInv

-----------------------------------------------------------------------------
(* The types of the parts.                                                 *)

LEMMA NoPlanType == NoPlan \in Plan
BY DEF NoPlan, Plan, Venue

LEMMA NewJobType ==
  ASSUME NEW u \in Users \cup {NoUser}, NEW now \in Nat, NEW dry \in BOOLEAN
  PROVE  NewJob(u, now, dry) \in Job
BY NoPlanType DEF NewJob, Job, NoHoldings

LEMMA NoJobType == NoJob \in Job
BY NewJobType DEF NoJob

LEMMA FetchedType ==
  ASSUME NEW h \in [Venue -> Nat]  PROVE  Fetched(h) \in Position
BY DEF Fetched, Position, Never

LEMMA Places ==
  ASSUME NEW c \in Chain
  PROVE  /\ {IdleOn(c), EscrowOn(c), AttestedFor(c), MintingOn(c)} \subseteq Location
         /\ IdleOn(c) \in {ArcIdle, ArbIdle}
         /\ "arc" \in Chain /\ "arb" \in Chain
         /\ {ArbAave, ArbIdle, "fees", "wallet"} \subseteq Location
BY DEF Chain, IdleOn, EscrowOn, AttestedFor, MintingOn, Location

LEMMA InitInv == Init => EngineInv
<1> SUFFICES ASSUME Init PROVE EngineInv
  OBVIOUS
<1>1. TypeOK
  <2>1. NoHoldings \in [Venue -> Nat]
    BY DEF NoHoldings
  <2>2. funds \in [Users -> Account]
    BY EngineAssumption DEF Init, Account
  <2>3. policy \in [ Users -> [ status : {"none", "active", "paused"},
                                hist   : Seq(PolicyBody) ] ]
    BY DEF Init
  <2>4. stored \in [ Users -> Position ] /\ job \in [ Tasks -> Job ]
    BY <2>1, FetchedType, NoJobType DEF Init
  <2> QED  BY <2>2, <2>3, <2>4 DEF Init, TypeOK, Label, Event
<1>2. PolicyInv
  BY DEF Init, PolicyInv, Version
<1>3. TasksInv
  BY DEF Init, TasksInv, TaskInv, Executing
<1>4. AuditInv
  <2>1. \A u \in Users, l \in Elsewhere : funds[u][l] = 0
    BY DEF Init, Elsewhere
  <2>2. MovedFundsAreAudited
    BY <2>1 DEF MovedFundsAreAudited
  <2>3. StartsWereDecided /\ DoneWasStarted
    BY DEF Init, StartsWereDecided, DoneWasStarted
  <2> QED  BY <2>2, <2>3 DEF AuditInv
<1> QED  BY <1>1, <1>2, <1>3, <1>4 DEF EngineInv

-----------------------------------------------------------------------------
(* Every step keeps the types.                                             *)

LEMMA JobFields ==
  ASSUME NEW j \in Job
  PROVE  /\ \A v \in Venue, n \in Nat : [ j EXCEPT !.seen[v] = n ] \in Job
         /\ \A x \in Plan : [ j EXCEPT !.plan = x ] \in Job
         /\ \A n \in Nat : [ j EXCEPT !.gated = n ] \in Job
         /\ \A b \in BOOLEAN : /\ [ j EXCEPT !.fresh = b ] \in Job
                               /\ [ j EXCEPT !.failed = b ] \in Job
                               /\ [ j EXCEPT !.failed = b, !.fresh = FALSE ] \in Job
         /\ \A op \in {"none", "deposit", "supply", "withdraw"}, b \in BOOLEAN :
               /\ [ j EXCEPT !.op = op ] \in Job
               /\ [ j EXCEPT !.op = op, !.failed = b ] \in Job
         /\ \A n \in Nat, now \in Nat :
               [ j EXCEPT !.seen = NoHoldings, !.version = n, !.now = now ] \in Job
BY DEF Job, NoHoldings

LEMMA TaskStepType ==
  ASSUME TypeOK, NEW t \in Tasks, NEW label \in Label, NEW j \in Job,
         pc' = [ pc EXCEPT ![t] = label ], job' = [ job EXCEPT ![t] = j ]
  PROVE  pc' \in [Tasks -> Label] /\ job' \in [Tasks -> Job]
BY DEF TypeOK

LEMMA LeaveType ==
  ASSUME TypeOK, NEW t \in Tasks, Leave(t)
  PROVE  pc' \in [Tasks -> Label] /\ job' \in [Tasks -> Job]
<1>1. (IF t = Cron /\ queue # {} THEN "next" ELSE "idle") \in Label
  BY DEF Label
<1> QED  BY <1>1, NoJobType, TaskStepType DEF Leave, Goto

LEMMA SpawnType ==
  ASSUME TypeOK, NEW u \in Users, NEW dry \in BOOLEAN, Spawn(u, dry)
  PROVE  pc' \in [Tasks -> Label] /\ job' \in [Tasks -> Job]
<1>1. CASE UNCHANGED << pc, job >>
  BY <1>1 DEF TypeOK
<1>2. ASSUME NEW t \in Ticks, Goto(t, "arc"),
             job' = [ job EXCEPT ![t] = NewJob(u, clock, dry) ]
      PROVE  pc' \in [Tasks -> Label] /\ job' \in [Tasks -> Job]
  <2>1. NewJob(u, clock, dry) \in Job /\ "arc" \in Label /\ t \in Tasks
    BY NewJobType DEF TypeOK, Label, Tasks
  <2> QED  BY <1>2, <2>1, TaskStepType DEF Goto
<1> QED  BY <1>1, <1>2 DEF Spawn

LEMMA LogType ==
  ASSUME TypeOK, NEW e \in Event, Log(e)  PROVE  audit' \subseteq Event
BY DEF TypeOK, Log

(* The policy a task has evaluated, and the newest one.                    *)
LEMMA KnownBody ==
  ASSUME TypeOK, PolicyInv, NEW u \in Users, NEW v \in 1 .. Version(u)
  PROVE  /\ policy[u].hist[v] \in PolicyBody /\ Valid(policy[u].hist[v])
         /\ v \in Nat /\ Version(u) \in Nat /\ Body(u) \in PolicyBody
         /\ Version(u) \in 1 .. Version(u)
BY DEF TypeOK, PolicyInv, Version, Body

(* A decision taken in a tick is well formed, and its plan is within the   *)
(* policy it was decided under.                                            *)
LEMMA TickDecision ==
  ASSUME TypeOK, PolicyInv, NEW t \in Tasks, job[t].who \in Users, Evaluated(t),
         snapshot # NoSnapshot,
         NEW d \in Evaluate(policy[job[t].who].hist[job[t].version], snapshot,
                            stored[job[t].who], job[t].now)
  PROVE  /\ d \in Decision
         /\ d.kind = "act" => d.plan \in Plan /\ d = Act(d.plan)
         /\ Decided(job[t].who, job[t].version, d) \in Event
<1> DEFINE u == job[t].who
           v == job[t].version
           p == policy[u].hist[v]
<1>1. p \in PolicyBody /\ Valid(p) /\ v \in Nat
  BY KnownBody DEF Evaluated
<1>2. snapshot \in Snapshot /\ stored[u] \in Position /\ job[t].now \in Int
  BY DEF TypeOK, Job
<1>3. d \in Decision
  BY <1>1, <1>2, DecisionsWithinPolicy
<1>4. d.kind = "act" => d.plan \in Plan /\ d = Act(d.plan)
  BY <1>3 DEF Decision, Act
<1>5. Decided(u, v, d) \in Event
  BY <1>1, <1>3 DEF Decided, Event
<1> QED  BY <1>3, <1>4, <1>5

(* Steps that change a task and perhaps the log, and nothing else.         *)
LEMMA TypeFrame ==
  ASSUME TypeOK, audit' \subseteq Event,
         pc' \in [Tasks -> Label], job' \in [Tasks -> Job],
         UNCHANGED << policy, stored, snapshot, clock, funds, cycle >>
  PROVE  TypeOK'
BY DEF TypeOK, cycle

LEMMA TickStepType ==
  ASSUME TypeOK, PolicyInv, TasksInv, NEW t \in Tasks, TickStep(t)
  PROVE  TypeOK'
<1> USE DEF Goto
<1>1. /\ job[t] \in Job /\ job \in [Tasks -> Job] /\ pc[t] \in Label
      /\ audit \subseteq Event
  BY DEF TypeOK
<1>2. /\ pc[t] \notin {"idle", "next"} => job[t].who \in Users
      /\ pc[t] \in {"eval", "gate", "start"} \cup Executing => Evaluated(t)
      /\ pc[t] \in {"start"} \cup Executing => GatePassed(t)
  BY DEF TasksInv, TaskInv
<1>3. {"idle", "next", "arb", "aave", "tick", "eval", "gate", "start",
       "build", "report"} \subseteq Label
  BY DEF Label, Executing
<1>4. ASSUME NEW venue \in Venue, NEW n \in Nat, NEW label, NEW next \in Label,
             Read(t, label, venue, n, next)
      PROVE  /\ pc' \in [Tasks -> Label] /\ job' \in [Tasks -> Job]
             /\ job'[t].seen \in [Venue -> Nat]
             /\ UNCHANGED << policy, audit, snapshot, clock, funds, cycle >>
  <2>1. [ job[t] EXCEPT !.seen[venue] = n ] \in Job
    BY <1>1, <1>4, JobFields
  <2>2. job' = [ job EXCEPT ![t] = [ job[t] EXCEPT !.seen[venue] = n ] ]
    BY <1>1, <1>4 DEF Read
  <2>3. job'[t] \in Job
    BY <1>1, <2>1, <2>2
  <2> QED  BY <1>4, <2>1, <2>2, <2>3, TaskStepType DEF Read, Job
<1>5. \A u \in Users : funds[u] \in Account
  BY DEF TypeOK
<1>6. {ArcIdle, ArbIdle, ArbAave} \subseteq Venue \cap Location
  BY DEF Venue, Location
<1>7. CASE FetchArc(t)
  <2>1. funds[job[t].who][ArcIdle] \in Nat
    BY <1>2, <1>5, <1>6, <1>7 DEF FetchArc, Read, Account
  <2> QED  BY <1>1, <1>3, <1>4, <1>6, <1>7, <2>1, TypeFrame DEF FetchArc
<1>8. CASE FetchArb(t)
  <2>1. funds[job[t].who][ArbIdle] \in Nat
    BY <1>2, <1>5, <1>6, <1>8 DEF FetchArb, Read, Account
  <2> QED  BY <1>1, <1>3, <1>4, <1>6, <1>8, <2>1, TypeFrame DEF FetchArb
<1>9. CASE FetchAave(t)
  <2>1. PICK n \in {funds[job[t].who][ArbAave]} \cup (IF Faults THEN {0} ELSE {}) :
          /\ Read(t, "aave", ArbAave, n, "tick")
          /\ stored' = [ stored EXCEPT ![job[t].who] = Fetched(job'[t].seen) ]
    BY <1>9 DEF FetchAave
  <2>2. job[t].who \in Users /\ funds[job[t].who][ArbAave] \in Nat
    BY <1>2, <1>5, <1>6, <1>9 DEF FetchAave, Account
  <2>3. n \in Nat
    BY <2>2
  <2>4. /\ pc' \in [Tasks -> Label] /\ job' \in [Tasks -> Job]
        /\ job'[t].seen \in [Venue -> Nat]
        /\ UNCHANGED << policy, audit, snapshot, clock, funds, cycle >>
    BY <1>3, <1>4, <1>6, <2>1, <2>3
  <2>5. stored' \in [Users -> Position]
    BY <2>1, <2>2, <2>4, FetchedType DEF TypeOK
  <2> QED  BY <2>4, <2>5 DEF TypeOK, cycle
<1>10. CASE FetchFails(t)
  BY <1>1, <1>3, <1>10, TaskStepType, TypeFrame DEF FetchFails, stores
<1>11. CASE SkipTick(t) \/ TickFails(t)
  BY <1>1, <1>11, LeaveType, TypeFrame DEF SkipTick, TickFails, stores
<1>12. CASE BeginTick(t)
  <2> DEFINE n   == Version(job[t].who)
             now == IF job[t].dry THEN clock ELSE job[t].now
             j   == [ job[t] EXCEPT !.seen = NoHoldings, !.version = n,
                                    !.now = now ]
  <2>1. n \in Nat /\ now \in Nat
    BY <1>1, <1>2, <1>12 DEF BeginTick, TypeOK, Job, Version
  <2>2. j \in Job
    BY <1>1, <2>1, JobFields
  <2>3. job' = [ job EXCEPT ![t] = j ]
    BY <1>1, <1>12 DEF BeginTick
  <2> HIDE DEF j
  <2> QED  BY <1>1, <1>3, <1>12, <2>2, <2>3, TaskStepType, TypeFrame
           DEF BeginTick, stores
<1>13. CASE EvaluateTick(t)
  <2>1. snapshot # NoSnapshot /\ job[t].who \in Users /\ Evaluated(t)
    BY <1>2, <1>13 DEF EvaluateTick
  <2>2. PICK d \in Evaluate(policy[job[t].who].hist[job[t].version], snapshot,
                            stored[job[t].who], job[t].now) :
           /\ IF d.kind = "noop"
                THEN UNCHANGED audit
                ELSE Log(Decided(job[t].who, job[t].version, d))
           /\ IF d.kind = "act" /\ ~job[t].dry
                THEN /\ job' = [ job EXCEPT ![t].plan = d.plan ]
                     /\ Goto(t, "gate")
                ELSE Leave(t)
    BY <1>13 DEF EvaluateTick
  <2>3. /\ d.kind = "act" => d.plan \in Plan
        /\ Decided(job[t].who, job[t].version, d) \in Event
    BY <2>1, TickDecision
  <2>4. audit' \subseteq Event
    BY <1>1, <2>2, <2>3, LogType
  <2>5. pc' \in [Tasks -> Label] /\ job' \in [Tasks -> Job]
    <3>1. CASE d.kind = "act" /\ ~job[t].dry
      <4>1. [ job[t] EXCEPT !.plan = d.plan ] \in Job
        BY <1>1, <2>3, <3>1, JobFields
      <4>2. job' = [ job EXCEPT ![t] = [ job[t] EXCEPT !.plan = d.plan ] ]
        BY <1>1, <2>2, <3>1
      <4> QED  BY <1>3, <2>2, <3>1, <4>1, <4>2, TaskStepType
    <3>2. CASE ~(d.kind = "act" /\ ~job[t].dry)
      BY <2>2, <3>2, LeaveType
    <3> QED  BY <3>1, <3>2
  <2> QED  BY <1>13, <2>4, <2>5, TypeFrame DEF EvaluateTick
<1>14. CASE GatePass(t)
  <2>1. Version(job[t].who) \in Nat
    BY <1>2, <1>14 DEF GatePass, TypeOK, Version
  <2>2. [ job[t] EXCEPT !.gated = Version(job[t].who) ] \in Job
    BY <1>1, <2>1, JobFields
  <2>3. job' = [ job EXCEPT ![t] =
                   [ job[t] EXCEPT !.gated = Version(job[t].who) ] ]
    BY <1>1, <1>14 DEF GatePass
  <2> QED  BY <1>1, <1>3, <1>14, <2>2, <2>3, TaskStepType, TypeFrame
           DEF GatePass, stores
<1>15. CASE GateReject(t)
  <2>1. Version(job[t].who) \in Nat /\ job[t].who \in Users /\ job[t].plan \in Plan
    BY <1>1, <1>2, <1>15 DEF GateReject, TypeOK, Version, Job
  <2>2. Rejected(job[t].who, Version(job[t].who), job[t].plan) \in Event
    BY <2>1 DEF Rejected, Event
  <2> QED  BY <1>15, <2>2, LogType, LeaveType, TypeFrame DEF GateReject
<1>16. CASE StartAction(t)
  <2> DEFINE op == FirstOp(job[t].plan)
             j  == [ job[t] EXCEPT !.op = op, !.failed = (op = "none") ]
  <2>1. job[t].who \in Users /\ job[t].plan \in Plan /\ job[t].gated \in Nat
    BY <1>1, <1>2, <1>16 DEF StartAction, Job
  <2>2. Started(job[t].who, job[t].gated, job[t].plan) \in Event
    BY <2>1 DEF Started, Event
  <2>3. op \in {"none", "deposit", "supply", "withdraw"} /\ (op = "none") \in BOOLEAN
    BY DEF FirstOp
  <2>4. j \in Job
    BY <1>1, <2>3, JobFields
  <2>5. job' = [ job EXCEPT ![t] = j ]
    BY <1>1, <1>16 DEF StartAction
  <2>6. (IF op = "none" THEN "report" ELSE "build") \in Label
    BY <1>3
  <2> HIDE DEF j
  <2> QED  BY <1>16, <2>2, <2>4, <2>5, <2>6, LogType, TaskStepType, TypeFrame
           DEF StartAction
<1> QED  BY <1>7, <1>8, <1>9, <1>10, <1>11, <1>12, <1>13, <1>14, <1>15, <1>16
         DEF TickStep

(* A user operation that can run leaves every balance at or above zero.    *)
(* Each operation is one move between two places of the account.           *)
LEMMA OpIsMove ==
  ASSUME TypeOK, NEW t \in Tasks, job[t].who \in Users, job[t].op # "none", OpCan(t)
  PROVE  LET a == funds[job[t].who]
             n == job[t].plan.amount
         IN  \/ /\ job[t].op = "deposit"
                /\ n + Buffer \in Nat /\ n + Buffer <= a[ArcIdle]
                /\ OpEffect(t) = Move(a, ArcIdle, "arc_escrow", n + Buffer)
             \/ /\ job[t].op = "supply"
                /\ a[ArbIdle] \in Nat
                /\ OpEffect(t) = Move(a, ArbIdle, ArbAave, a[ArbIdle])
             \/ /\ job[t].op = "withdraw"
                /\ n \in Nat /\ n <= a[ArbAave]
                /\ OpEffect(t) = Move(a, ArbAave, ArbIdle, n)
<1> DEFINE a == funds[job[t].who]
           n == job[t].plan.amount
<1>1. /\ n \in Nat /\ Buffer \in Nat
      /\ job[t].op \in {"deposit", "supply", "withdraw"}
      /\ a[ArcIdle] \in Nat /\ a[ArbIdle] \in Nat /\ a[ArbAave] \in Nat
  <2>1. a \in Account /\ {ArcIdle, ArbIdle, ArbAave} \subseteq Location
    BY DEF TypeOK, Location
  <2>2. a[ArcIdle] \in Nat /\ a[ArbIdle] \in Nat /\ a[ArbAave] \in Nat
    BY <2>1 DEF Account
  <2> QED  BY <2>2, EngineAssumption DEF TypeOK, Job, Plan
<1>2. IdleOn("arc") = ArcIdle /\ EscrowOn("arc") = "arc_escrow"
  BY DEF IdleOn, EscrowOn
<1>3. CASE job[t].op = "deposit"
  <2>1. n + Buffer \in Nat /\ n + Buffer <= a[ArcIdle]
    BY <1>1, <1>2, <1>3 DEF OpCan, CanDeposit, DepositAmount
  <2>2. OpEffect(t) = Move(a, ArcIdle, "arc_escrow", n + Buffer)
    BY <1>2, <1>3 DEF OpEffect, Deposit, DepositAmount
  <2> QED  BY <1>3, <2>1, <2>2
<1>4. CASE job[t].op = "supply"
  <2>1. OpEffect(t) = Move(a, ArbIdle, ArbAave, a[ArbIdle])
    BY <1>4 DEF OpEffect, SupplyAll
  <2> QED  BY <1>1, <1>4, <2>1
<1>5. CASE job[t].op = "withdraw"
  <2>1. n <= a[ArbAave]
    BY <1>1, <1>5 DEF OpCan, CanWithdraw
  <2>2. OpEffect(t) = Move(a, ArbAave, ArbIdle, n)
    BY <1>5 DEF OpEffect, Withdraw
  <2> QED  BY <1>1, <1>5, <2>1, <2>2
<1> QED  BY <1>1, <1>3, <1>4, <1>5

LEMMA OpEffectType ==
  ASSUME TypeOK, NEW t \in Tasks, job[t].who \in Users, job[t].op # "none",
         OpCan(t)
  PROVE  OpEffect(t) \in Account
<1> DEFINE a == funds[job[t].who]
           n == job[t].plan.amount
<1>1. /\ a \in Account
      /\ {ArcIdle, ArbIdle, ArbAave, "arc_escrow"} \subseteq Location
      /\ ArcIdle # "arc_escrow" /\ ArbIdle # ArbAave
  BY DEF TypeOK, Location, ArcIdle, ArbIdle, ArbAave
<1>2. a[ArbIdle] \in Nat
  BY <1>1 DEF Account
<1>3. PICK from \in Location, to \in Location, m \in Nat :
         from # to /\ m <= a[from] /\ OpEffect(t) = Move(a, from, to, m)
  <2>1. a[ArbIdle] <= a[ArbIdle]
    BY <1>2
  <2> HIDE DEF a, n
  <2>2. \/ /\ n + Buffer \in Nat /\ n + Buffer <= a[ArcIdle]
           /\ OpEffect(t) = Move(a, ArcIdle, "arc_escrow", n + Buffer)
        \/ OpEffect(t) = Move(a, ArbIdle, ArbAave, a[ArbIdle])
        \/ n \in Nat /\ n <= a[ArbAave] /\ OpEffect(t) = Move(a, ArbAave, ArbIdle, n)
    BY OpIsMove DEF a, n
  <2> QED  BY <1>1, <1>2, <2>1, <2>2
<1> HIDE DEF a
<1> QED  BY <1>1, <1>3, MoveType

(* What the Gateway takes from a deposit is there.                         *)
LEMMA AttestType ==
  ASSUME NEW a \in Account, NEW src \in Chain, NEW dst \in Chain,
         NEW n \in Nat, NEW fee \in Nat, CanAttest(a, src, n, fee)
  PROVE  LET from == EscrowOn(src)
             to   == AttestedFor(dst)
             b    == Attest(a, src, dst, n, fee)
         IN  /\ b \in Account
             /\ n + fee <= a[from] /\ b[from] = a[from] - n - fee
             /\ b[to] = a[to] + n
             /\ \A l \in Location \ {from, to, "fees"} : b[l] = a[l]
             /\ \E c \in Account : /\ n <= a[from] /\ c = Move(a, from, to, n)
                                  /\ fee <= c[from] /\ b = Move(c, from, "fees", fee)
<1> DEFINE from == EscrowOn(src)
           to   == AttestedFor(dst)
           c    == Move(a, from, to, n)
<1>1. /\ {from, to, "fees"} \subseteq Location
      /\ from # to /\ from # "fees" /\ to # "fees"
  BY DEF EscrowOn, AttestedFor, Location
<1>2. a[from] \in Nat /\ n + fee <= a[from]
  BY <1>1 DEF CanAttest, Account
<1>3. Attest(a, src, dst, n, fee) = Move(c, from, "fees", fee)
  BY DEF Attest
<1> HIDE DEF from, to
<1>4. n <= a[from]
  BY <1>2
<1>5. /\ c \in Account /\ c[from] = a[from] - n /\ c[to] = a[to] + n
      /\ \A l \in Location \ {from, to} : c[l] = a[l]
  BY <1>1, <1>4, MoveType
<1> HIDE DEF c
<1>6. fee <= c[from]
  BY <1>2, <1>5
<1>7. /\ Move(c, from, "fees", fee) \in Account
      /\ Move(c, from, "fees", fee)[from] = c[from] - fee
      /\ \A l \in Location \ {from, "fees"} : Move(c, from, "fees", fee)[l] = c[l]
  BY <1>1, <1>5, <1>6, MoveType
<1>8. /\ Move(c, from, "fees", fee)[from] = a[from] - n - fee
      /\ Move(c, from, "fees", fee)[to] = a[to] + n
      /\ \A l \in Location \ {from, to, "fees"} : Move(c, from, "fees", fee)[l] = a[l]
  BY <1>1, <1>5, <1>7
<1> QED  BY <1>2, <1>3, <1>4, <1>5, <1>6, <1>7, <1>8 DEF from, to, c

LEMMA UsesNonceType ==
  ASSUME TypeOK, NEW t \in Tasks, NEW broke \in BOOLEAN, UsesNonce(t, broke)
  PROVE  job' \in [Tasks -> Job]
<1>1. \A s \in Tasks : /\ job[s] \in Job
                       /\ [ job[s] EXCEPT !.fresh = FALSE ] \in Job
                       /\ [ job[s] EXCEPT !.failed = broke, !.fresh = FALSE ] \in Job
  BY JobFields DEF TypeOK
<1> QED  BY <1>1 DEF UsesNonce

LEMMA FailType ==
  ASSUME TypeOK, NEW t \in Tasks, Fail(t)
  PROVE  pc' \in [Tasks -> Label] /\ job' \in [Tasks -> Job]
<1>1. [ job[t] EXCEPT !.failed = TRUE ] \in Job /\ "report" \in Label
  BY JobFields DEF TypeOK, Label, Executing
<1>2. job' = [ job EXCEPT ![t] = [ job[t] EXCEPT !.failed = TRUE ] ]
  BY DEF Fail, TypeOK
<1> QED  BY <1>1, <1>2, TaskStepType DEF Fail, Goto

(* Steps that change a task and the funds of its owner.                    *)
LEMMA FundsFrame ==
  ASSUME TypeOK, NEW u \in Users, NEW a \in Account,
         funds' = [ funds EXCEPT ![u] = a ],
         pc' \in [Tasks -> Label], job' \in [Tasks -> Job],
         UNCHANGED << stores, clock, cycle >>
  PROVE  TypeOK'
BY DEF TypeOK, stores, cycle

LEMMA ExecStepType ==
  ASSUME TypeOK, TasksInv, NEW t \in Tasks, ExecStep(t)
  PROVE  TypeOK'
<1> USE DEF Goto
<1>1. /\ job[t] \in Job /\ job \in [Tasks -> Job] /\ audit \subseteq Event
      /\ pc \in [Tasks -> Label]
  BY DEF TypeOK
<1>2. /\ pc[t] \in Executing => job[t].who \in Users
      /\ pc[t] \in {"build", "built"} => job[t].op # "none"
  BY DEF TasksInv, TaskInv, Executing
<1>3. {"build", "built", "transfer", "mint", "report"} \subseteq Label \cap Executing
  BY DEF Label, Executing
<1>4. \A u \in Users : funds[u] \in Account
  BY DEF TypeOK
<1>5. job[t].plan.amount \in Nat
  BY <1>1 DEF Job, Plan
<1>6. CASE BuildOp(t)
  <2>1. [ job[t] EXCEPT !.fresh = TRUE ] \in Job
    BY <1>1, JobFields
  <2>2. job' = [ job EXCEPT ![t] = [ job[t] EXCEPT !.fresh = TRUE ] ]
    BY <1>1, <1>6 DEF BuildOp
  <2> QED  BY <1>1, <1>3, <1>6, <2>1, <2>2, TaskStepType, TypeFrame
           DEF BuildOp, stores
<1>7. CASE OpLands(t) \/ OpLandsUnseen(t)
  <2>1. /\ job[t].who \in Users /\ job[t].op # "none" /\ OpCan(t) /\ OpRuns(t)
        /\ UNCHANGED << stores, clock, cycle >>
    BY <1>2, <1>3, <1>7 DEF OpLands, OpLandsUnseen
  <2>2. job' \in [Tasks -> Job]
    BY <1>7, UsesNonceType DEF OpLands, OpLandsUnseen
  <2>3. pc' \in [Tasks -> Label]
    BY <1>1, <1>3, <1>7 DEF OpLands, OpLandsUnseen
  <2> QED  BY <2>1, <2>2, <2>3, OpEffectType, FundsFrame DEF OpRuns
<1>8. CASE OpReverts(t)
  <2>1. job' \in [Tasks -> Job] /\ pc' \in [Tasks -> Label]
    BY <1>1, <1>3, <1>8, UsesNonceType DEF OpReverts
  <2> QED  BY <1>1, <1>8, <2>1, TypeFrame DEF OpReverts, stores
<1>9. CASE OpStale(t) \/ StepFails(t)
  BY <1>1, <1>9, FailType, TypeFrame DEF OpStale, StepFails, stores
<1>10. ASSUME NEW fee \in Fees, Attests(t, fee),
              pc' \in [Tasks -> Label], job' \in [Tasks -> Job]
       PROVE  TypeOK'
  <2>1. job[t].who \in Users /\ fee \in Nat
    BY <1>2, <1>3, <1>10, EngineAssumption DEF Attests
  <2>2. Attest(funds[job[t].who], "arc", "arb", job[t].plan.amount, fee) \in Account
    BY <1>4, <1>5, <1>10, <2>1, AttestType DEF Attests, Chain
  <2>3. funds' = [ funds EXCEPT ![job[t].who] =
           Attest(funds[job[t].who], "arc", "arb", job[t].plan.amount, fee) ]
    BY <1>10 DEF Attests
  <2> QED  BY <1>10, <2>1, <2>2, <2>3, FundsFrame DEF Attests
<1>11. CASE TransferAttested(t)
  <2>1. pc' \in [Tasks -> Label] /\ job' \in [Tasks -> Job]
    BY <1>1, <1>3, <1>11 DEF TransferAttested
  <2> QED  BY <1>10, <1>11, <2>1 DEF TransferAttested
<1>12. CASE TransferUnseen(t)
  <2>1. pc' \in [Tasks -> Label] /\ job' \in [Tasks -> Job]
    BY <1>12, FailType DEF TransferUnseen
  <2> QED  BY <1>10, <1>12, <2>1 DEF TransferUnseen
<1>13. CASE SendMintStep(t)
  <2> DEFINE a == funds[job[t].who]
             n == job[t].plan.amount
  <2>1. job[t].who \in Users /\ n <= a["arb_attested"]
    <3>1. a["arb_attested"] \in Nat /\ job[t].who \in Users
      BY <1>2, <1>3, <1>4, <1>13 DEF SendMintStep, Account, Location
    <3> QED  BY <1>5, <1>13, <3>1 DEF SendMintStep, CanMint, AttestedFor
  <2>2. SendMint(a, "arb", n) = Move(a, "arb_attested", "arb_minting", n)
    BY DEF SendMint, AttestedFor, MintingOn
  <2>3. a \in Account
    BY <1>4, <2>1
  <2>4. {"arb_attested", "arb_minting"} \subseteq Location
    BY DEF Location
  <2>5. funds' = [ funds EXCEPT ![job[t].who] = SendMint(a, "arb", n) ]
    BY <1>13 DEF SendMintStep
  <2>6. pc' \in [Tasks -> Label] /\ job' \in [Tasks -> Job]
    <3>1. [ job[t] EXCEPT !.op = "supply" ] \in Job
      BY <1>1, JobFields
    <3>2. job' = [ job EXCEPT ![t] = [ job[t] EXCEPT !.op = "supply" ] ]
      BY <1>1, <1>13 DEF SendMintStep
    <3> QED  BY <1>3, <1>13, <3>1, <3>2, TaskStepType DEF SendMintStep
  <2> HIDE DEF a, n
  <2>7. SendMint(a, "arb", n) \in Account
    BY <1>5, <2>1, <2>2, <2>3, <2>4, MoveType DEF n
  <2> QED  BY <1>13, <2>1, <2>5, <2>6, <2>7, FundsFrame DEF SendMintStep
<1>14. CASE Report(t)
  <2>1. job[t].who \in Users /\ job[t].plan \in Plan /\ job[t].gated \in Nat
    BY <1>1, <1>2, <1>3, <1>14 DEF Report, Job
  <2>2. Done(job[t].who, job[t].gated, job[t].plan, ~job[t].failed) \in Event
    BY <2>1 DEF Done, Event
  <2> QED  BY <1>14, <2>2, LogType, LeaveType, TypeFrame DEF Report
<1>15. CASE ReportFails(t)
  BY <1>1, <1>15, LeaveType, TypeFrame DEF ReportFails, stores
<1> QED  BY <1>6, <1>7, <1>8, <1>9, <1>11, <1>12, <1>13, <1>14, <1>15
         DEF ExecStep

LEMMA CronStepType ==
  ASSUME TypeOK, CronStep  PROVE  TypeOK'
<1>1. Cron \in Tasks /\ {"next", "arc"} \subseteq Label
  BY DEF Tasks, Label
<1>2. CASE CronWake
  BY <1>1, <1>2 DEF CronWake, Goto, TypeOK, stores
<1>3. ASSUME NEW u \in Users, CronNext(u)  PROVE  TypeOK'
  <2>1. NewJob(u, cycleAt, FALSE) \in Job
    BY NewJobType DEF TypeOK
  <2>2. pc' \in [Tasks -> Label] /\ job' \in [Tasks -> Job]
    BY <1>1, <1>3, <2>1, TaskStepType DEF CronNext, Goto
  <2> QED  BY <1>3, <2>2 DEF CronNext, TypeOK, stores
<1> QED  BY <1>2, <1>3 DEF CronStep

(* What an owner can ask for.                                              *)
LEMMA OwnerKinds ==
  ASSUME OwnerStep
  PROVE  \E u \in Users :
           \/ \E b \in Bodies, s \in {"active", "paused"} : PutPolicy(u, b, s)
           \/ \E s \in {"active", "paused"} : PauseOrResume(u, s)
           \/ ResumeByChat(u)
           \/ RunOnce(u)
           \/ \E c \in Chain, n \in Amounts : Fund(u, c, n)
BY DEF OwnerStep

LEMMA OwnerStepType ==
  ASSUME TypeOK, OwnerStep  PROVE  TypeOK'
<1>1. PICK u \in Users :
        \/ \E b \in Bodies, s \in {"active", "paused"} : PutPolicy(u, b, s)
        \/ \E s \in {"active", "paused"} : PauseOrResume(u, s)
        \/ ResumeByChat(u)
        \/ RunOnce(u)
        \/ \E c \in Chain, n \in Amounts : Fund(u, c, n)
  BY OwnerKinds
<1>2. /\ policy \in [ Users -> [ status : {"none", "active", "paused"},
                                 hist   : Seq(PolicyBody) ] ]
      /\ policy[u].hist \in Seq(PolicyBody)
  BY DEF TypeOK
<1>3. ASSUME NEW b \in Bodies, NEW s \in {"active", "paused"}, PutPolicy(u, b, s)
      PROVE  TypeOK'
  <2>1. Append(policy[u].hist, b) \in Seq(PolicyBody)
    BY <1>2, EngineAssumption
  <2>2. policy' = [ policy EXCEPT ![u] =
                      [ status |-> s, hist |-> Append(policy[u].hist, b) ] ]
    BY <1>2, <1>3 DEF PutPolicy
  <2>3. [ status |-> s, hist |-> Append(policy[u].hist, b) ]
          \in [ status : {"none", "active", "paused"}, hist : Seq(PolicyBody) ]
    BY <2>1
  <2>4. policy' \in [ Users -> [ status : {"none", "active", "paused"},
                                 hist   : Seq(PolicyBody) ] ]
    BY <1>2, <2>2, <2>3
  <2>5. pc' \in [Tasks -> Label] /\ job' \in [Tasks -> Job]
    BY <1>3, SpawnType DEF PutPolicy
  <2> QED  BY <1>3, <2>4, <2>5 DEF PutPolicy, TypeOK, cycle
<1>4. ASSUME NEW s \in {"active", "paused"}, SetStatus(u, s),
             pc' \in [Tasks -> Label], job' \in [Tasks -> Job]
      PROVE  TypeOK'
  <2>1. policy' = [ policy EXCEPT ![u] = [ policy[u] EXCEPT !.status = s ] ]
    BY <1>2, <1>4 DEF SetStatus
  <2>2. policy' \in [ Users -> [ status : {"none", "active", "paused"},
                                 hist   : Seq(PolicyBody) ] ]
    BY <1>2, <2>1
  <2> QED  BY <1>4, <2>2 DEF SetStatus, TypeOK, cycle
<1>5. CASE \E s \in {"active", "paused"} : PauseOrResume(u, s)
  BY <1>4, <1>5 DEF PauseOrResume, TypeOK
<1>6. CASE ResumeByChat(u)
  BY <1>4, <1>6, SpawnType DEF ResumeByChat
<1>7. CASE RunOnce(u)
  BY <1>7, SpawnType, TypeFrame DEF RunOnce, stores, TypeOK
<1>8. ASSUME NEW c \in Chain, NEW n \in Amounts, Fund(u, c, n)
      PROVE  TypeOK'
  <2>1. /\ funds[u] \in Account /\ n \in Nat
        /\ IdleOn(c) \in Location /\ "wallet" \in Location /\ IdleOn(c) # "wallet"
    BY EngineAssumption, Places DEF TypeOK, ArcIdle, ArbIdle
  <2>2. n <= funds[u]["wallet"]
    BY <1>8, <2>1 DEF Fund, Account
  <2>3. Move(funds[u], "wallet", IdleOn(c), n) \in Account
    BY <2>1, <2>2, MoveType
  <2>4. funds' = [ funds EXCEPT ![u] = Move(funds[u], "wallet", IdleOn(c), n) ]
    BY <1>8 DEF Fund, TypeOK
  <2> QED  BY <1>8, <2>3, <2>4, FundsFrame DEF Fund, TypeOK
<1> QED  BY <1>1, <1>3, <1>5, <1>6, <1>7, <1>8

LEMMA WorldStepType ==
  ASSUME TypeOK, WorldStep  PROVE  TypeOK'
<1>1. CASE Pass
  BY <1>1 DEF Pass, TypeOK, stores, cycle
<1>2. ASSUME NEW apr \in Aprs, Publish(apr)  PROVE  TypeOK'
  <2>1. apr \in Nat /\ clock \in Int
    BY EngineAssumption DEF TypeOK
  <2>2. BuildSnapshot(apr) \in Snapshot
    BY <2>1 DEF BuildSnapshot, Snapshot, VenueState, Venue
  <2> QED  BY <1>2, <2>2 DEF Publish, TypeOK, cycle
<1>3. ASSUME NEW u \in Users, MintLands(u) \/ MintDropped(u)  PROVE  TypeOK'
  <2> DEFINE a == funds[u]
             n == a["arb_minting"]
  <2>1. a \in Account /\ n \in Nat /\ n <= a["arb_minting"]
    <3>1. a \in Account /\ "arb_minting" \in Location
      BY DEF TypeOK, Location
    <3>2. n \in Nat
      BY <3>1 DEF Account
    <3> QED  BY <3>1, <3>2
  <2>2. /\ LandMint(a, "arb", n) = Move(a, "arb_minting", ArbIdle, n)
        /\ DropMint(a, "arb", n) = Move(a, "arb_minting", "arb_attested", n)
    BY DEF LandMint, DropMint, MintingOn, IdleOn, AttestedFor
  <2>3. /\ {"arb_minting", "arb_attested", ArbIdle} \subseteq Location
        /\ "arb_minting" # ArbIdle
    BY DEF Location, ArbIdle
  <2>4. \/ funds' = [ funds EXCEPT ![u] = LandMint(a, "arb", n) ]
        \/ funds' = [ funds EXCEPT ![u] = DropMint(a, "arb", n) ]
    BY <1>3 DEF MintLands, MintDropped, TypeOK
  <2> HIDE DEF a, n
  <2>5. LandMint(a, "arb", n) \in Account /\ DropMint(a, "arb", n) \in Account
    BY <2>1, <2>2, <2>3, MoveType DEF n
  <2> QED  BY <1>3, <2>4, <2>5, FundsFrame DEF MintLands, MintDropped, TypeOK
<1>4. CASE Crash
  <2>1. NoHoldings \in [Venue -> Nat]
    BY DEF NoHoldings
  <2>2. stored' \in [Users -> Position]
    BY <1>4, <2>1, FetchedType DEF Crash
  <2>3. pc' \in [Tasks -> Label] /\ job' \in [Tasks -> Job]
    BY <1>4, NoJobType DEF Crash, Label
  <2> QED  BY <1>4, <2>2, <2>3 DEF Crash, TypeOK
<1> QED  BY <1>1, <1>2, <1>3, <1>4 DEF WorldStep

LEMMA NextType == TypeOK /\ PolicyInv /\ TasksInv /\ [Next]_vars => TypeOK'
<1> SUFFICES ASSUME TypeOK, PolicyInv, TasksInv, [Next]_vars  PROVE  TypeOK'
  OBVIOUS
<1>1. CASE UNCHANGED vars
  BY <1>1 DEF vars, stores, cycle, TypeOK
<1> QED  BY <1>1, CronStepType, OwnerStepType, WorldStepType, TickStepType,
            ExecStepType DEF Next, TaskStep

-----------------------------------------------------------------------------
(* Policies and the log are only ever appended to.                         *)

HistoryGrows ==
  \A u \in Users :
     /\ Version(u) \in Nat /\ Version(u)' \in Nat /\ Version(u) <= Version(u)'
     /\ \A i \in 1 .. Version(u) : policy'[u].hist[i] = policy[u].hist[i]

LEMMA SamePolicy ==
  ASSUME TypeOK, PolicyInv, policy' = policy  PROVE  PolicyInv' /\ HistoryGrows
BY DEF TypeOK, PolicyInv, HistoryGrows, Version

LEMMA OwnersOnly ==
  ASSUME CronStep \/ (\E t \in Tasks : TaskStep(t)) \/ WorldStep
  PROVE  policy' = policy
<1>1. CASE CronStep
  BY <1>1 DEF CronStep, CronWake, CronNext, stores
<1>2. ASSUME NEW t \in Tasks, TickStep(t)  PROVE  policy' = policy
  BY <1>2 DEF TickStep, FetchArc, FetchArb, FetchAave, Read, FetchFails, SkipTick,
              BeginTick, EvaluateTick, TickFails, GatePass, GateReject,
              StartAction, stores
<1>3. ASSUME NEW t \in Tasks, ExecStep(t)  PROVE  policy' = policy
  BY <1>3 DEF ExecStep, BuildOp, OpLands, OpReverts, OpLandsUnseen, OpStale,
              TransferAttested, TransferUnseen, Attests, SendMintStep, StepFails,
              Report, ReportFails, stores
<1>4. CASE WorldStep
  BY <1>4 DEF WorldStep, Pass, Publish, MintLands, MintDropped, Crash, stores
<1> QED  BY <1>1, <1>2, <1>3, <1>4 DEF TaskStep

LEMMA NextPolicy ==
  ASSUME TypeOK, PolicyInv, [Next]_vars  PROVE  PolicyInv' /\ HistoryGrows
<1>1. CASE UNCHANGED vars \/ policy' = policy
  BY <1>1, SamePolicy DEF vars, stores
<1>2. CASE OwnerStep
  <2>1. PICK u \in Users :
          \/ \E b \in Bodies, s \in {"active", "paused"} : PutPolicy(u, b, s)
          \/ \E s \in {"active", "paused"} : PauseOrResume(u, s)
          \/ ResumeByChat(u)
          \/ RunOnce(u)
          \/ \E c \in Chain, n \in Amounts : Fund(u, c, n)
    BY <1>2, OwnerKinds
  <2>2. /\ policy \in [ Users -> [ status : {"none", "active", "paused"},
                                   hist   : Seq(PolicyBody) ] ]
        /\ policy[u].hist \in Seq(PolicyBody)
    BY DEF TypeOK
  <2>3. ASSUME NEW b \in Bodies, NEW s \in {"active", "paused"}, PutPolicy(u, b, s)
        PROVE  PolicyInv' /\ HistoryGrows
    <3> DEFINE h == policy[u].hist
               g == Append(h, b)
    <3>1. policy' = [ policy EXCEPT ![u] = [ status |-> s, hist |-> g ] ]
      BY <2>2, <2>3 DEF PutPolicy
    <3>2. /\ h \in Seq(PolicyBody) /\ b \in PolicyBody /\ Valid(b)
      BY <2>2, <2>3, EngineAssumption DEF PutPolicy
    <3> HIDE DEF h
    <3>3. /\ Len(h) \in Nat /\ Len(g) = Len(h) + 1 /\ g[Len(h) + 1] = b
          /\ g # <<>>
          /\ \A i \in 1 .. Len(h) : g[i] = h[i]
      BY <3>2
    <3> HIDE DEF g
    <3>4. \A w \in Users : /\ w = u => policy'[w].hist = g /\ policy[w].hist = h
                           /\ w # u => policy'[w] = policy[w]
      BY <2>2, <3>1 DEF h
    <3>5. \A w \in Users : Len(policy[w].hist) \in Nat
      BY DEF TypeOK
    <3>6. HistoryGrows
      BY <3>3, <3>4, <3>5 DEF HistoryGrows, Version
    <3>7. PolicyInv'
      <4> SUFFICES ASSUME NEW w \in Users
                   PROVE  /\ policy'[w].status = "active" => policy'[w].hist # <<>>
                          /\ \A i \in 1 .. Len(policy'[w].hist) :
                                Valid(policy'[w].hist[i])
        BY DEF PolicyInv, Version
      <4>1. CASE w # u
        BY <3>4, <4>1 DEF PolicyInv, Version
      <4>2. CASE w = u
        <5>1. \A i \in 1 .. Len(h) : Valid(h[i])
          BY <3>4, <4>2 DEF PolicyInv, Version
        <5>2. ASSUME NEW i \in 1 .. Len(g)  PROVE  Valid(g[i])
          <6>1. i \in 1 .. Len(h) \/ i = Len(h) + 1
            BY <3>3
          <6> QED  BY <3>2, <3>3, <5>1, <6>1
        <5> QED  BY <3>3, <3>4, <4>2, <5>2
      <4> QED  BY <4>1, <4>2
    <3> QED  BY <3>6, <3>7
  <2>4. ASSUME NEW s \in {"active", "paused"}, SetStatus(u, s)
        PROVE  PolicyInv' /\ HistoryGrows
    <3>1. \A w \in Users : policy'[w].hist = policy[w].hist
      BY <2>2, <2>4 DEF SetStatus
    <3>2. \A w \in Users : w = u \/ policy'[w] = policy[w]
      BY <2>2, <2>4 DEF SetStatus
    <3>3. HistoryGrows
      BY <3>1 DEF HistoryGrows, Version, TypeOK
    <3> QED  BY <2>4, <3>1, <3>2, <3>3 DEF PolicyInv, Version, SetStatus
  <2>5. CASE RunOnce(u) \/ \E c \in Chain, n \in Amounts : Fund(u, c, n)
    BY <1>1, <2>5 DEF RunOnce, Fund, stores
  <2> QED  BY <2>1, <2>3, <2>4, <2>5 DEF PauseOrResume, ResumeByChat
<1> QED  BY <1>1, <1>2, OwnersOnly DEF Next

-----------------------------------------------------------------------------
(* The evidence a task carries.                                            *)

Carries(s) ==
  /\ job'[s].who = job[s].who
  /\ job'[s].version = job[s].version
  /\ job'[s].plan = job[s].plan
  /\ job'[s].gated = job[s].gated

(* It stays good while others act, and while the task executes.            *)
LEMMA TaskFrame ==
  ASSUME TypeOK, HistoryGrows, audit \subseteq audit',
         NEW s \in Tasks, TaskInv(s), Carries(s),
         pc'[s] = pc[s] \/ (pc[s] \in Executing /\ pc'[s] \in Executing),
         pc'[s] \in {"build", "built"} => job'[s].op # "none"
  PROVE  TaskInv(s)'
<1>1. job[s].gated \in Nat /\ job[s].version \in Nat
  BY DEF TypeOK, Job
<1>2. job[s].who \in Users /\ Evaluated(s) => Evaluated(s)'
  BY <1>1 DEF Evaluated, HistoryGrows, Carries
<1>3. DecisionLogged(s) => DecisionLogged(s)'
  BY DEF DecisionLogged, Carries
<1>4. job[s].who \in Users /\ Evaluated(s) /\ GatePassed(s) => GatePassed(s)'
  <2> SUFFICES ASSUME job[s].who \in Users, Evaluated(s), GatePassed(s)
               PROVE  GatePassed(s)'
    OBVIOUS
  <2> DEFINE u == job[s].who
  <2>1. /\ job[s].gated \in 1 .. Version(u)
        /\ job[s].gated \in job[s].version .. Len(policy'[u].hist)
    <3>1. /\ Version(u) \in Nat /\ Len(policy'[u].hist) \in Nat
          /\ Version(u) <= Len(policy'[u].hist)
      BY DEF HistoryGrows, Version
    <3>2. job[s].gated \in job[s].version .. Version(u) /\ 1 <= job[s].version
      BY <1>1 DEF GatePassed, Evaluated
    <3> QED  BY <1>1, <3>1, <3>2
  <2>2. policy'[u].hist[job[s].gated] = policy[u].hist[job[s].gated]
    BY <2>1 DEF HistoryGrows
  <2> QED  BY <2>1, <2>2 DEF GatePassed, Carries, Version
<1>5. StartLogged(s) => StartLogged(s)'
  BY DEF StartLogged, Carries
<1>6. "idle" \notin Executing /\ "next" \notin Executing
  BY DEF Executing
<1> QED  BY <1>2, <1>3, <1>4, <1>5, <1>6 DEF TaskInv, Carries

LEMMA OthersKeep ==
  ASSUME TypeOK, TasksInv, HistoryGrows, audit \subseteq audit', NEW t \in Tasks,
         \A s \in Tasks \ {t} : pc'[s] = pc[s] /\ job'[s] = job[s]
  PROVE  \A s \in Tasks \ {t} : TaskInv(s)'
<1> SUFFICES ASSUME NEW s \in Tasks \ {t}  PROVE  TaskInv(s)'
  OBVIOUS
<1>1. Carries(s) /\ pc'[s] = pc[s] /\ job'[s] = job[s]
  BY DEF Carries
<1>2. TaskInv(s) /\ (pc[s] \in {"build", "built"} => job[s].op # "none")
  BY DEF TasksInv, TaskInv
<1> QED  BY <1>1, <1>2, TaskFrame

LEMMA TickStepTasks ==
  ASSUME TypeOK, PolicyInv, TasksInv, NEW t \in Tasks, TickStep(t), policy' = policy
  PROVE  TasksInv' /\ audit \subseteq audit'
<1> USE DEF Goto
<1>1. HistoryGrows /\ job[t] \in Job /\ job \in [Tasks -> Job] /\ pc \in [Tasks -> Label]
  BY SamePolicy DEF TypeOK
<1>2. /\ pc[t] \notin {"idle", "next"} => job[t].who \in Users
      /\ pc[t] \in {"eval", "gate", "start"} => Evaluated(t)
      /\ pc[t] \in {"gate", "start"} => DecisionLogged(t)
      /\ pc[t] = "start" => GatePassed(t)
  BY DEF TasksInv, TaskInv
<1>3. SUFFICES ASSUME TRUE
               PROVE  /\ audit \subseteq audit'
                      /\ \A s \in Tasks \ {t} : pc'[s] = pc[s] /\ job'[s] = job[s]
                      /\ TaskInv(t)'
  BY <1>1, OthersKeep DEF TasksInv
<1> USE DEF Executing
<1>4. CASE FetchArc(t) \/ FetchArb(t) \/ FetchAave(t)
  <2>1. ASSUME NEW venue \in Venue, NEW n, NEW label \in {"arc", "arb", "aave"},
               NEW next \in {"arb", "aave", "tick"}, Read(t, label, venue, n, next)
        PROVE  /\ audit \subseteq audit'
               /\ \A s \in Tasks \ {t} : pc'[s] = pc[s] /\ job'[s] = job[s]
               /\ TaskInv(t)'
    <3>1. job' = [ job EXCEPT ![t] = [ job[t] EXCEPT !.seen[venue] = n ] ]
      BY <1>1, <2>1 DEF Read
    <3>2. job'[t] = [ job[t] EXCEPT !.seen[venue] = n ]
      BY <1>1, <3>1
    <3>3. job'[t].who = job[t].who /\ job[t].who \in Users
      BY <1>1, <1>2, <2>1, <3>2 DEF Read, Job
    <3> QED  BY <1>1, <2>1, <3>3 DEF Read, TaskInv
  <2>2. {ArcIdle, ArbIdle, ArbAave} \subseteq Venue
    BY DEF Venue
  <2>3. CASE FetchArc(t)
    BY <2>1, <2>2, <2>3 DEF FetchArc
  <2>4. CASE FetchArb(t)
    BY <2>1, <2>2, <2>4 DEF FetchArb
  <2>5. CASE FetchAave(t)
    <3>1. PICK n : Read(t, "aave", ArbAave, n, "tick")
      BY <2>5 DEF FetchAave
    <3> QED  BY <2>1, <2>2, <3>1
  <2> QED  BY <1>4, <2>3, <2>4, <2>5
<1>5. CASE FetchFails(t)
  BY <1>1, <1>2, <1>5 DEF FetchFails, stores, TaskInv
<1>6. CASE Leave(t) /\ audit \subseteq audit'
  BY <1>1, <1>6 DEF Leave, TaskInv
<1>7. CASE SkipTick(t) \/ TickFails(t)
  BY <1>6, <1>7 DEF SkipTick, TickFails, stores
<1>8. CASE BeginTick(t)
  <2>1. /\ job'[t].who = job[t].who
        /\ job'[t].version = Version(job[t].who)
        /\ job[t].who \in Users
    BY <1>1, <1>2, <1>8 DEF BeginTick
  <2>2. Version(job[t].who) \in 1 .. Version(job[t].who)
    <3>1. policy[job[t].who].hist # <<>> /\ policy[job[t].who].hist \in Seq(PolicyBody)
      BY <1>8, <2>1 DEF BeginTick, PolicyInv, TypeOK
    <3>2. Len(policy[job[t].who].hist) \in Nat /\ Len(policy[job[t].who].hist) # 0
      BY <3>1
    <3> QED  BY <3>2 DEF Version
  <2>3. Evaluated(t)'
    BY <2>1, <2>2 DEF Evaluated, Version
  <2> QED  BY <1>1, <1>8, <2>1, <2>3 DEF BeginTick, stores, TaskInv
<1>9. CASE EvaluateTick(t)
  <2>1. snapshot # NoSnapshot /\ job[t].who \in Users /\ Evaluated(t)
    BY <1>2, <1>9 DEF EvaluateTick
  <2>2. PICK d \in Evaluate(policy[job[t].who].hist[job[t].version], snapshot,
                            stored[job[t].who], job[t].now) :
           /\ IF d.kind = "noop"
                THEN UNCHANGED audit
                ELSE Log(Decided(job[t].who, job[t].version, d))
           /\ IF d.kind = "act" /\ ~job[t].dry
                THEN /\ job' = [ job EXCEPT ![t].plan = d.plan ]
                     /\ Goto(t, "gate")
                ELSE Leave(t)
    BY <1>9 DEF EvaluateTick
  <2>3. audit \subseteq audit'
    BY <2>2 DEF Log
  <2>4. CASE ~(d.kind = "act" /\ ~job[t].dry)
    BY <1>6, <2>2, <2>3, <2>4
  <2>5. CASE d.kind = "act" /\ ~job[t].dry
    <3>1. d = Act(d.plan)
      BY <2>1, <2>5, TickDecision
    <3>2. /\ job' = [ job EXCEPT ![t].plan = d.plan ]
          /\ Goto(t, "gate")
          /\ Log(Decided(job[t].who, job[t].version, d))
      BY <2>2, <2>5
    <3>3. /\ job'[t].who = job[t].who /\ job'[t].version = job[t].version
          /\ job'[t].plan = d.plan
      BY <1>1, <3>2 DEF Job
    <3>4. Evaluated(t)'
      BY <2>1, <3>3 DEF Evaluated, Version
    <3>5. DecisionLogged(t)'
      BY <3>1, <3>2, <3>3 DEF DecisionLogged, Log, Decided
    <3> QED  BY <1>1, <2>1, <2>3, <3>2, <3>3, <3>4, <3>5 DEF TaskInv
  <2> QED  BY <2>4, <2>5
<1>10. CASE GatePass(t)
  <2> DEFINE u == job[t].who
  <2>1. /\ u \in Users /\ Evaluated(t) /\ DecisionLogged(t)
        /\ job[t].plan.cost <= Body(u).maxGas
        /\ audit' = audit
    BY <1>2, <1>10 DEF GatePass, GatePasses, stores
  <2>2. /\ job'[t].who = u /\ job'[t].version = job[t].version
        /\ job'[t].plan = job[t].plan /\ job'[t].gated = Version(u)
    BY <1>1, <1>10 DEF GatePass, Job
  <2>3. Version(u) \in Nat /\ job[t].version \in Nat /\ job[t].version <= Version(u)
    BY <1>1, <2>1 DEF TypeOK, Version, Job, Evaluated
  <2>4. Version(u) \in job[t].version .. Version(u)
    BY <2>3
  <2>5. Evaluated(t)' /\ DecisionLogged(t)'
    BY <2>1, <2>2 DEF Evaluated, DecisionLogged, Version
  <2>6. GatePassed(t)'
    BY <2>1, <2>2, <2>4 DEF GatePassed, Body, Version
  <2> QED  BY <1>1, <1>10, <2>1, <2>2, <2>5, <2>6 DEF GatePass, TaskInv
<1>11. CASE GateReject(t)
  BY <1>6, <1>11 DEF GateReject, Log
<1>12. CASE StartAction(t)
  <2> DEFINE op == FirstOp(job[t].plan)
  <2>1. /\ job[t].who \in Users /\ Evaluated(t) /\ DecisionLogged(t) /\ GatePassed(t)
        /\ Log(Started(job[t].who, job[t].gated, job[t].plan))
    BY <1>2, <1>12 DEF StartAction
  <2>2. /\ job'[t].who = job[t].who /\ job'[t].version = job[t].version
        /\ job'[t].plan = job[t].plan /\ job'[t].gated = job[t].gated
        /\ job'[t].op = op
    BY <1>1, <1>12 DEF StartAction, Job
  <2>3. audit \subseteq audit'
    BY <2>1 DEF Log
  <2>4. StartLogged(t)'
    BY <2>1, <2>2 DEF StartLogged, Log, Started
  <2>5. Evaluated(t)' /\ DecisionLogged(t)' /\ GatePassed(t)'
    BY <2>1, <2>2, <2>3 DEF Evaluated, DecisionLogged, GatePassed, Version
  <2>6. pc' = [ pc EXCEPT ![t] = IF op = "none" THEN "report" ELSE "build" ]
    BY <1>12 DEF StartAction
  <2>7. \A s \in Tasks \ {t} : pc'[s] = pc[s] /\ job'[s] = job[s]
    BY <1>1, <1>12, <2>6 DEF StartAction
  <2> HIDE DEF op
  <2>8. TaskInv(t)'
    BY <1>1, <2>1, <2>2, <2>4, <2>5, <2>6 DEF TaskInv
  <2> QED  BY <2>3, <2>7, <2>8
<1> QED  BY <1>4, <1>5, <1>7, <1>8, <1>9, <1>10, <1>11, <1>12 DEF TickStep

(* A step of the execution: the task keeps its evidence and only what      *)
(* concerns the user operation of other tasks changes.                     *)
LEMMA ExecStepTasks ==
  ASSUME TypeOK, PolicyInv, TasksInv, NEW t \in Tasks, ExecStep(t), policy' = policy
  PROVE  TasksInv' /\ audit \subseteq audit'
<1> USE DEF Goto
<1>1. /\ HistoryGrows /\ job[t] \in Job /\ job \in [Tasks -> Job]
      /\ pc \in [Tasks -> Label]
      /\ \A s \in Tasks : TaskInv(s)
  BY SamePolicy DEF TypeOK, TasksInv
<1>2. \A s \in Tasks : pc[s] \in {"build", "built"} => job[s].op # "none"
  BY <1>1 DEF TaskInv
<1>3. audit \subseteq audit'
  BY DEF ExecStep, BuildOp, OpLands, OpReverts, OpLandsUnseen, OpStale,
         TransferAttested, TransferUnseen, Attests, SendMintStep, StepFails,
         Report, ReportFails, Log, stores
<1> SUFFICES TasksInv'
  BY <1>3
<1>4. ASSUME Leave(t)  PROVE  TasksInv'
  <2>1. TaskInv(t)'
    BY <1>1, <1>4 DEF Leave, TaskInv, Executing
  <2>2. \A s \in Tasks \ {t} : pc'[s] = pc[s] /\ job'[s] = job[s]
    BY <1>1, <1>4 DEF Leave
  <2> QED  BY <1>1, <1>3, <2>1, <2>2, OthersKeep DEF TasksInv
<1>5. ASSUME pc[t] \in Executing, pc'[t] \in Executing,
             \A s \in Tasks \ {t} : pc'[s] = pc[s],
             \A s \in Tasks : Carries(s),
             \A s \in Tasks \ {t} : job'[s].op = job[s].op,
             pc'[t] \in {"build", "built"} => job'[t].op # "none"
      PROVE  TasksInv'
  <2> SUFFICES ASSUME NEW s \in Tasks  PROVE  TaskInv(s)'
    BY DEF TasksInv
  <2>1. pc'[s] \in {"build", "built"} => job'[s].op # "none"
    BY <1>2, <1>5
  <2> QED  BY <1>1, <1>3, <1>5, <2>1, TaskFrame
<1>6. {"build", "built", "transfer", "mint", "report"} \subseteq Executing
  BY DEF Executing
<1>7. CASE Fail(t) /\ pc[t] \in Executing
  <2>1. \A s \in Tasks : Carries(s) /\ job'[s].op = job[s].op
    BY <1>1, <1>7 DEF Fail, Carries, Job
  <2> QED  BY <1>1, <1>5, <1>6, <1>7, <2>1 DEF Fail
<1>8. ASSUME NEW broke, UsesNonce(t, broke), pc[t] = "built",
             NEW next \in {"transfer", "report"}, pc' = [ pc EXCEPT ![t] = next ]
      PROVE  TasksInv'
  <2>1. \A s \in Tasks : Carries(s) /\ job'[s].op = job[s].op
    BY <1>1, <1>8 DEF UsesNonce, Carries, Job
  <2> QED  BY <1>1, <1>5, <1>6, <1>8, <2>1
<1>9. CASE BuildOp(t)
  <2>1. \A s \in Tasks : Carries(s) /\ job'[s].op = job[s].op
    BY <1>1, <1>9 DEF BuildOp, Carries, Job
  <2> QED  BY <1>1, <1>2, <1>5, <1>6, <1>9, <2>1 DEF BuildOp
<1>10. CASE OpLands(t) \/ OpReverts(t) \/ OpLandsUnseen(t)
  BY <1>8, <1>10 DEF OpLands, OpReverts, OpLandsUnseen
<1>11. CASE OpStale(t) \/ StepFails(t) \/ TransferUnseen(t)
  BY <1>6, <1>7, <1>11 DEF OpStale, StepFails, TransferUnseen, Attests
<1>12. CASE TransferAttested(t)
  <2>1. \A s \in Tasks : Carries(s) /\ job'[s].op = job[s].op
    BY <1>12 DEF TransferAttested, Carries
  <2> QED  BY <1>1, <1>5, <1>6, <1>12, <2>1 DEF TransferAttested, Attests
<1>13. CASE SendMintStep(t)
  <2>1. /\ \A s \in Tasks : Carries(s)
        /\ \A s \in Tasks \ {t} : job'[s].op = job[s].op
        /\ job'[t].op = "supply"
    BY <1>1, <1>13 DEF SendMintStep, Carries, Job
  <2> QED  BY <1>1, <1>5, <1>6, <1>13, <2>1 DEF SendMintStep
<1>14. CASE Report(t) \/ ReportFails(t)
  BY <1>4, <1>14 DEF Report, ReportFails
<1> QED  BY <1>3, <1>9, <1>10, <1>11, <1>12, <1>13, <1>14 DEF ExecStep

(* A task that starts has nothing to show yet.                             *)
LEMMA FreshTask ==
  ASSUME NEW t \in Tasks, NEW u \in Users, NEW now, NEW dry,
         pc'[t] = "arc", job'[t] = NewJob(u, now, dry)
  PROVE  TaskInv(t)'
BY DEF TaskInv, NewJob, Executing

LEMMA SpawnTasks ==
  ASSUME TypeOK, TasksInv, HistoryGrows, audit \subseteq audit',
         NEW u \in Users, NEW dry, Spawn(u, dry)
  PROVE  TasksInv'
<1>1. CASE UNCHANGED << pc, job >>
  <2> SUFFICES ASSUME NEW s \in Tasks  PROVE  TaskInv(s)'
    BY DEF TasksInv
  <2>1. Carries(s) /\ pc'[s] = pc[s] /\ job'[s] = job[s]
    BY <1>1 DEF Carries
  <2>2. TaskInv(s) /\ (pc[s] \in {"build", "built"} => job[s].op # "none")
    BY DEF TasksInv, TaskInv
  <2> QED  BY <2>1, <2>2, TaskFrame
<1>2. ASSUME NEW t \in Ticks, Goto(t, "arc"),
             job' = [ job EXCEPT ![t] = NewJob(u, clock, dry) ]
      PROVE  TasksInv'
  <2>1. t \in Tasks /\ pc \in [Tasks -> Label] /\ job \in [Tasks -> Job]
    BY DEF TypeOK, Tasks
  <2>2. /\ \A s \in Tasks \ {t} : pc'[s] = pc[s] /\ job'[s] = job[s]
        /\ pc'[t] = "arc" /\ job'[t] = NewJob(u, clock, dry)
    BY <1>2, <2>1 DEF Goto
  <2> QED  BY <2>1, <2>2, FreshTask, OthersKeep DEF TasksInv
<1> QED  BY <1>1, <1>2 DEF Spawn

LEMMA NextTasks ==
  ASSUME TypeOK, PolicyInv, TasksInv, [Next]_vars
  PROVE  TasksInv' /\ audit \subseteq audit'
<1>1. HistoryGrows
  BY NextPolicy
<1>2. /\ pc \in [Tasks -> Label] /\ job \in [Tasks -> Job] /\ Cron \in Tasks
  BY DEF TypeOK, Tasks
<1>3. ASSUME audit \subseteq audit', UNCHANGED << pc, job >>  PROVE  TasksInv'
  <2> SUFFICES ASSUME NEW s \in Tasks  PROVE  TaskInv(s)'
    BY DEF TasksInv
  <2>1. Carries(s) /\ pc'[s] = pc[s] /\ job'[s] = job[s]
    BY <1>3 DEF Carries
  <2>2. TaskInv(s) /\ (pc[s] \in {"build", "built"} => job[s].op # "none")
    BY DEF TasksInv, TaskInv
  <2> QED  BY <1>1, <1>3, <2>1, <2>2, TaskFrame
<1>4. CASE UNCHANGED vars
  BY <1>3, <1>4 DEF vars, stores
<1>5. CASE CronWake
  <2>1. /\ audit' = audit /\ job' = job
        /\ pc'[Cron] = "next"
        /\ \A s \in Tasks \ {Cron} : pc'[s] = pc[s]
    BY <1>2, <1>5 DEF CronWake, Goto, stores
  <2>2. TaskInv(Cron)'
    BY <2>1 DEF TaskInv, Executing
  <2> QED  BY <1>1, <1>2, <2>1, <2>2, OthersKeep DEF TasksInv
<1>6. ASSUME NEW u \in Users, CronNext(u)
      PROVE  TasksInv' /\ audit \subseteq audit'
  <2>1. /\ audit' = audit
        /\ pc'[Cron] = "arc" /\ job'[Cron] = NewJob(u, cycleAt, FALSE)
        /\ \A s \in Tasks \ {Cron} : pc'[s] = pc[s] /\ job'[s] = job[s]
    BY <1>2, <1>6 DEF CronNext, Goto, stores
  <2>2. TaskInv(Cron)'
    BY <1>2, <2>1, FreshTask
  <2>3. \A s \in Tasks \ {Cron} : TaskInv(s)'
    BY <1>1, <1>2, <2>1, OthersKeep
  <2> QED  BY <2>1, <2>2, <2>3 DEF TasksInv
<1>7. CASE \E t \in Tasks : TaskStep(t)
  BY <1>7, OwnersOnly, TickStepTasks, ExecStepTasks DEF TaskStep
<1>8. CASE OwnerStep
  <2>1. PICK u \in Users :
          \/ \E b \in Bodies, s \in {"active", "paused"} : PutPolicy(u, b, s)
          \/ \E s \in {"active", "paused"} : PauseOrResume(u, s)
          \/ ResumeByChat(u)
          \/ RunOnce(u)
          \/ \E c \in Chain, n \in Amounts : Fund(u, c, n)
    BY <1>8, OwnerKinds
  <2>2. audit' = audit
    BY <2>1 DEF PutPolicy, PauseOrResume, ResumeByChat, SetStatus, RunOnce, Fund, stores
  <2>3. \/ \E dry \in BOOLEAN : Spawn(u, dry)
        \/ UNCHANGED << pc, job >>
    BY <2>1 DEF PutPolicy, PauseOrResume, ResumeByChat, RunOnce, Fund
  <2> QED  BY <1>1, <1>3, <2>2, <2>3, SpawnTasks
<1>9. CASE WorldStep
  <2>1. audit' = audit
    BY <1>9 DEF WorldStep, Pass, Publish, MintLands, MintDropped, Crash, stores
  <2>2. CASE Crash
    BY <2>1, <2>2 DEF Crash, TasksInv, TaskInv, Executing
  <2>3. CASE ~Crash
    BY <1>3, <1>9, <2>1, <2>3 DEF WorldStep, Pass, Publish, MintLands, MintDropped
  <2> QED  BY <2>1, <2>2, <2>3
<1> QED  BY <1>4, <1>5, <1>6, <1>7, <1>8, <1>9 DEF Next, CronStep, vars, stores,
                                                  CronWake

-----------------------------------------------------------------------------
(* The log.                                                                *)

LEMMA NextLogs ==
  ASSUME [Next]_vars
  PROVE  \/ audit' = audit
         \/ \E t \in Tasks :
              \/ \E d : Log(Decided(job[t].who, job[t].version, d))
              \/ \E v, plan : Log(Rejected(job[t].who, v, plan))
              \/ StartAction(t)
              \/ Report(t)
<1>1. CASE UNCHANGED vars
  BY <1>1 DEF vars, stores
<1>2. CASE CronStep
  BY <1>2 DEF CronStep, CronWake, CronNext, stores
<1>3. ASSUME NEW t \in Tasks, TickStep(t)
      PROVE  \/ audit' = audit
             \/ \E d : Log(Decided(job[t].who, job[t].version, d))
             \/ \E v, plan : Log(Rejected(job[t].who, v, plan))
             \/ StartAction(t)
  <2>1. CASE EvaluateTick(t)
    BY <2>1 DEF EvaluateTick
  <2>2. CASE GateReject(t)
    BY <2>2 DEF GateReject
  <2> QED  BY <1>3, <2>1, <2>2 DEF TickStep, FetchArc, FetchArb, FetchAave, Read,
                FetchFails, SkipTick, BeginTick, TickFails, GatePass, stores
<1>4. ASSUME NEW t \in Tasks, ExecStep(t)  PROVE  audit' = audit \/ Report(t)
  BY <1>4 DEF ExecStep, BuildOp, OpLands, OpReverts, OpLandsUnseen, OpStale,
              TransferAttested, TransferUnseen, Attests, SendMintStep, StepFails,
              ReportFails, stores
<1>5. CASE OwnerStep
  BY <1>5, OwnerKinds DEF PutPolicy, PauseOrResume, ResumeByChat, SetStatus,
                          RunOnce, Fund, stores
<1>6. CASE WorldStep
  BY <1>6 DEF WorldStep, Pass, Publish, MintLands, MintDropped, Crash, stores
<1> QED  BY <1>1, <1>2, <1>3, <1>4, <1>5, <1>6 DEF Next, TaskStep

LEMMA StartsFrame ==
  ASSUME TypeOK, HistoryGrows, audit \subseteq audit', StartsWereDecided,
         \A e \in audit' : e.type = "start" => e \in audit
  PROVE  StartsWereDecided'
<1> SUFFICES ASSUME NEW e \in audit, e.type = "start"
             PROVE  /\ e.version \in 1 .. Len(policy'[e.user].hist)
                    /\ e.plan.cost <= policy'[e.user].hist[e.version].maxGas
                    /\ \E v \in 1 .. e.version :
                          Decided(e.user, v, Act(e.plan)) \in audit'
  BY DEF StartsWereDecided, Version
<1>1. e.user \in Users
  BY DEF TypeOK, Event
<1>2. /\ e.version \in 1 .. Version(e.user)
      /\ e.plan.cost <= policy[e.user].hist[e.version].maxGas
      /\ \E v \in 1 .. e.version : Decided(e.user, v, Act(e.plan)) \in audit
  BY DEF StartsWereDecided
<1>3. e.version \in 1 .. Len(policy'[e.user].hist)
  BY <1>1, <1>2 DEF HistoryGrows, Version
<1>4. policy'[e.user].hist[e.version] = policy[e.user].hist[e.version]
  BY <1>1, <1>2 DEF HistoryGrows
<1> QED  BY <1>2, <1>3, <1>4

LEMMA NextStarts ==
  ASSUME TypeOK, PolicyInv, TasksInv, "decision" \in Logged, StartsWereDecided,
         [Next]_vars
  PROVE  StartsWereDecided'
<1>1. HistoryGrows /\ audit \subseteq audit'
  BY NextPolicy, NextTasks
<1>2. CASE \A e \in audit' : e.type = "start" => e \in audit
  BY <1>1, <1>2, StartsFrame
<1>3. ASSUME NEW e, Log(e), e.type # "start"  PROVE  StartsWereDecided'
  BY <1>2, <1>3 DEF Log
<1>4. ASSUME NEW t \in Tasks, StartAction(t)  PROVE  StartsWereDecided'
  <2> DEFINE u == job[t].who
             e == Started(u, job[t].gated, job[t].plan)
  <2>1. /\ u \in Users /\ Evaluated(t) /\ DecisionLogged(t) /\ GatePassed(t)
        /\ policy' = policy /\ audit' \subseteq audit \cup {e}
    BY <1>4 DEF StartAction, TasksInv, TaskInv, Log
  <2>2. /\ job[t].gated \in 1 .. Version(u)
        /\ job[t].version \in 1 .. job[t].gated
    <3>1. Version(u) \in Nat /\ job[t].gated \in Nat /\ job[t].version \in Nat
      BY <2>1 DEF TypeOK, Version, Job
    <3> QED  BY <2>1, <3>1 DEF Evaluated, GatePassed
  <2>3. Decided(u, job[t].version, Act(job[t].plan)) \in audit'
    BY <1>1, <2>1 DEF DecisionLogged
  <2>4. e.user = u /\ e.version = job[t].gated /\ e.plan = job[t].plan
    BY DEF Started
  <2>5. /\ e.version \in 1 .. Version(e.user)
        /\ e.plan.cost <= policy[e.user].hist[e.version].maxGas
        /\ \E v \in 1 .. e.version : Decided(e.user, v, Act(e.plan)) \in audit'
    BY <2>1, <2>2, <2>3, <2>4 DEF GatePassed
  <2> HIDE DEF e
  <2> QED  BY <1>1, <2>1, <2>5 DEF StartsWereDecided, Version
<1>5. ASSUME NEW t \in Tasks, Report(t)  PROVE  StartsWereDecided'
  BY <1>3, <1>5 DEF Report, Done
<1>6. \A u, v, d : Decided(u, v, d).type # "start"
  BY DEF Decided
<1>7. \A u, v, plan : Rejected(u, v, plan).type # "start"
  BY DEF Rejected
<1> QED  BY <1>2, <1>3, <1>4, <1>5, <1>6, <1>7, NextLogs

LEMMA NextDone ==
  ASSUME TypeOK, PolicyInv, TasksInv, "start" \in Logged, DoneWasStarted,
         [Next]_vars
  PROVE  DoneWasStarted'
<1>1. audit \subseteq audit'
  BY NextTasks
<1>2. CASE \A e \in audit' : e.type = "done" => e \in audit
  BY <1>1, <1>2 DEF DoneWasStarted
<1>3. ASSUME NEW e, Log(e), e.type # "done"  PROVE  DoneWasStarted'
  BY <1>2, <1>3 DEF Log
<1>4. ASSUME NEW t \in Tasks, Report(t)  PROVE  DoneWasStarted'
  <2> DEFINE e == Done(job[t].who, job[t].gated, job[t].plan, ~job[t].failed)
  <2>1. Started(job[t].who, job[t].gated, job[t].plan) \in audit
    BY <1>4 DEF Report, TasksInv, TaskInv, StartLogged, Executing
  <2>2. e.user = job[t].who /\ e.version = job[t].gated /\ e.plan = job[t].plan
    BY DEF Done
  <2>3. audit' \subseteq audit \cup {e}
    BY <1>4 DEF Report, Log
  <2> HIDE DEF e
  <2> QED  BY <1>1, <2>1, <2>2, <2>3 DEF DoneWasStarted
<1>5. ASSUME NEW t \in Tasks, StartAction(t)  PROVE  DoneWasStarted'
  BY <1>3, <1>5 DEF StartAction, Started
<1>6. \A u, v, d : Decided(u, v, d).type # "done"
  BY DEF Decided
<1>7. \A u, v, plan : Rejected(u, v, plan).type # "done"
  BY DEF Rejected
<1> QED  BY <1>2, <1>3, <1>4, <1>5, <1>6, <1>7, NextLogs

-----------------------------------------------------------------------------
(* The funds.                                                              *)

HasStarted(u) == \E e \in audit : e.type = "start" /\ e.user = u

LEMMA FundsMove ==
  ASSUME TypeOK, audit \subseteq audit', MovedFundsAreAudited,
         NEW u \in Users, NEW a, funds' = [ funds EXCEPT ![u] = a ],
         HasStarted(u) \/ \A l \in Elsewhere : a[l] = funds[u][l]
  PROVE  MovedFundsAreAudited'
<1> SUFFICES ASSUME NEW w \in Users, NEW l \in Elsewhere, funds'[w][l] > 0
             PROVE  \E e \in audit : e.type = "start" /\ e.user = w
  BY DEF MovedFundsAreAudited
<1>1. funds'[w] = IF w = u THEN a ELSE funds[w]
  BY DEF TypeOK
<1>2. HasStarted(w) \/ funds[w][l] > 0
  BY <1>1
<1> QED  BY <1>2 DEF HasStarted, MovedFundsAreAudited

LEMMA NextFunds ==
  ASSUME TypeOK, PolicyInv, TasksInv, "start" \in Logged, MovedFundsAreAudited,
         [Next]_vars
  PROVE  MovedFundsAreAudited'
<1>1. audit \subseteq audit'
  BY NextTasks
<1>2. CASE funds' = funds
  BY <1>1, <1>2 DEF MovedFundsAreAudited
<1>3. \A t \in Tasks : pc[t] \in Executing => job[t].who \in Users /\ HasStarted(job[t].who)
  <2> SUFFICES ASSUME NEW t \in Tasks, pc[t] \in Executing
               PROVE  job[t].who \in Users /\ HasStarted(job[t].who)
    OBVIOUS
  <2>1. /\ job[t].who \in Users
        /\ Started(job[t].who, job[t].gated, job[t].plan) \in audit
    BY DEF TasksInv, TaskInv, StartLogged, Executing
  <2>2. \A u, v, plan : Started(u, v, plan).type = "start" /\ Started(u, v, plan).user = u
    BY DEF Started
  <2> QED  BY <2>1, <2>2 DEF HasStarted
<1>4. CASE CronStep
  BY <1>2, <1>4 DEF CronStep, CronWake, CronNext
<1>5. ASSUME NEW t \in Tasks, TickStep(t)  PROVE  MovedFundsAreAudited'
  BY <1>2, <1>5 DEF TickStep, FetchArc, FetchArb, FetchAave, Read, FetchFails,
              SkipTick, BeginTick, EvaluateTick, TickFails, GatePass, GateReject,
              StartAction
<1>6. ASSUME NEW t \in Tasks, ExecStep(t)  PROVE  MovedFundsAreAudited'
  <2>1. \/ funds' = funds
        \/ pc[t] \in Executing /\ \E a : funds' = [ funds EXCEPT ![job[t].who] = a ]
    <3>1. CASE OpLands(t) \/ OpLandsUnseen(t)
      BY <3>1 DEF OpLands, OpLandsUnseen, OpRuns, Executing
    <3>2. CASE TransferAttested(t) \/ TransferUnseen(t)
      BY <3>2 DEF TransferAttested, TransferUnseen, Attests, Executing
    <3>3. CASE SendMintStep(t)
      BY <3>3 DEF SendMintStep, Executing
    <3> QED  BY <1>6, <3>1, <3>2, <3>3 DEF ExecStep, BuildOp, OpReverts, OpStale,
                  StepFails, Report, ReportFails
  <2> QED  BY <1>1, <1>2, <1>3, <2>1, FundsMove
<1>7. CASE OwnerStep
  <2>1. PICK u \in Users :
          \/ \E b \in Bodies, s \in {"active", "paused"} : PutPolicy(u, b, s)
          \/ \E s \in {"active", "paused"} : PauseOrResume(u, s)
          \/ ResumeByChat(u)
          \/ RunOnce(u)
          \/ \E c \in Chain, n \in Amounts : Fund(u, c, n)
    BY <1>7, OwnerKinds
  <2>2. ASSUME NEW c \in Chain, NEW n \in Amounts, Fund(u, c, n)
        PROVE  MovedFundsAreAudited'
    <3> DEFINE a == Move(funds[u], "wallet", IdleOn(c), n)
    <3>1. funds' = [ funds EXCEPT ![u] = a ]
      BY <2>2 DEF Fund, TypeOK
    <3>2. IdleOn(c) \in {ArcIdle, ArbIdle} /\ funds[u] \in Account
      BY Places DEF TypeOK
    <3>3. \A l \in Elsewhere : l \in Location /\ l # IdleOn(c) /\ l # "wallet"
      BY <3>2 DEF Elsewhere
    <3>4. \A l \in Elsewhere : a[l] = funds[u][l]
      BY <3>2, <3>3 DEF Move, Account
    <3> QED  BY <1>1, <3>1, <3>4, FundsMove, Zenon
  <2> QED  BY <1>2, <2>1, <2>2 DEF PutPolicy, PauseOrResume, ResumeByChat,
                                   SetStatus, RunOnce
<1>8. CASE WorldStep
  <2>1. ASSUME NEW u \in Users, MintLands(u) \/ MintDropped(u)
        PROVE  MovedFundsAreAudited'
    <3>1. "arb_minting" \in Elsewhere
      BY DEF Elsewhere, Location, ArcIdle, ArbIdle
    <3>2. HasStarted(u)
      BY <2>1, <3>1 DEF MintLands, MintDropped, MovedFundsAreAudited, HasStarted
    <3>3. \E a : funds' = [ funds EXCEPT ![u] = a ]
      BY <2>1 DEF MintLands, MintDropped
    <3> QED  BY <1>1, <3>2, <3>3, FundsMove
  <2> QED  BY <1>2, <1>8, <2>1 DEF WorldStep, Pass, Publish, Crash
<1>9. CASE UNCHANGED vars
  BY <1>2, <1>9 DEF vars
<1> QED  BY <1>4, <1>5, <1>6, <1>7, <1>8, <1>9 DEF Next, TaskStep

-----------------------------------------------------------------------------
LEMMA NextInv == EngineInv /\ [Next]_vars => EngineInv'
<1> SUFFICES ASSUME EngineInv, [Next]_vars  PROVE  EngineInv'
  OBVIOUS
<1>1. TypeOK /\ PolicyInv /\ TasksInv /\ AuditInv
  BY DEF EngineInv
<1>2. TypeOK' /\ PolicyInv' /\ TasksInv'
  BY <1>1, NextType, NextPolicy, NextTasks
<1>3. AuditInv'
  BY <1>1, NextStarts, NextDone, NextFunds DEF AuditInv
<1> QED  BY <1>2, <1>3 DEF EngineInv

THEOREM EngineInvariant == Spec => []EngineInv
BY InitInv, NextInv, PTL DEF Spec

(* The variables keep their types: no balance is ever overdrawn, wherever  *)
(* the money is and whichever tasks move it at the same time.              *)
THEOREM EngineTypeOK == Spec => []TypeOK
<1>1. EngineInv => TypeOK
  BY DEF EngineInv
<1> QED  BY EngineInvariant, <1>1, PTL

(* Every start in the log was decided before, under a version no newer     *)
(* than the one it is booked under and at a cost that version allows;      *)
(* every end in the log belongs to a start (audit.rs, executor.rs).        *)
THEOREM EngineAuditExplains ==
  ASSUME {"decision", "start"} \subseteq Logged  PROVE  Spec => []AuditExplains
<1>1. EngineInv => AuditExplains
  BY DEF EngineInv, AuditInv, AuditExplains
<1> QED  BY EngineInvariant, <1>1, PTL

(* Whatever is not idle or with the owner is in the log: capital cannot    *)
(* leave for the Gateway, a mint or AAVE before the start event.           *)
THEOREM EngineMovesAreAudited ==
  ASSUME "start" \in Logged  PROVE  Spec => []MovedFundsAreAudited
<1>1. EngineInv => MovedFundsAreAudited
  BY DEF EngineInv, AuditInv
<1> QED  BY EngineInvariant, <1>1, PTL

-----------------------------------------------------------------------------
(***************************************************************************)
(* What the tasks are about to ask of the Gateway is there.  Each step     *)
(* moves one task and the money of its owner, or none.                     *)
(***************************************************************************)
TransferSum(u) == SumOver(TransferDue, At("transfer", u))
MintSum(u)     == SumOver(MintDue, At("mint", u))

OthersStay(t) ==
  \A s \in Tasks \ {t} : /\ pc'[s] = pc[s]
                         /\ job'[s].who = job[s].who /\ job'[s].plan = job[s].plan

LEMMA DueTypes ==
  ASSUME TypeOK
  PROVE  \A t \in Tasks : TransferDue[t] \in Nat /\ MintDue[t] \in Nat
BY EngineAssumption DEF TypeOK, Job, Plan, TransferDue, MintDue

LEMMA SumsFollow ==
  ASSUME TypeOK, TypeOK', IsFiniteSet(Tasks), NEW t \in Tasks, OthersStay(t),
         NEW u \in Users
  PROVE  /\ TransferSum(u) \in Nat /\ TransferSum(u)' \in Nat
         /\ TransferSum(u)' + (IF pc[t] = "transfer" /\ job[t].who = u
                                 THEN job[t].plan.amount + Buffer ELSE 0)
              = TransferSum(u) + (IF pc'[t] = "transfer" /\ job'[t].who = u
                                    THEN job'[t].plan.amount + Buffer ELSE 0)
         /\ MintSum(u) \in Nat /\ MintSum(u)' \in Nat
         /\ MintSum(u)' + (IF pc[t] = "mint" /\ job[t].who = u
                             THEN job[t].plan.amount ELSE 0)
              = MintSum(u) + (IF pc'[t] = "mint" /\ job'[t].who = u
                                THEN job'[t].plan.amount ELSE 0)
<1>1. ASSUME NEW label, NEW w, NEW v,
             \A s \in Tasks : w[s] \in Nat /\ v[s] \in Nat,
             \A s \in Tasks \ {t} : w[s] = v[s]
      PROVE  LET S == At(label, u)
                 T == At(label, u)'
             IN  /\ SumOver(w, S) \in Nat /\ SumOver(v, T) \in Nat
                 /\ SumOver(v, T) + (IF t \in S THEN w[t] ELSE 0)
                      = SumOver(w, S) + (IF t \in T THEN v[t] ELSE 0)
  <2> DEFINE S == At(label, u)
             T == At(label, u)'
  <2>1. S \subseteq Tasks /\ T \subseteq Tasks /\ S \ {t} = T \ {t}
    BY DEF At, OthersStay
  <2>2. IsFiniteSet(S)
    BY <2>1, FS_Subset
  <2> HIDE DEF S, T
  <2> QED  BY <1>1, <2>1, <2>2, SumOneChanges DEF S, T
<1>2. \A s \in Tasks : /\ TransferDue[s] \in Nat /\ TransferDue'[s] \in Nat
                       /\ MintDue[s] \in Nat /\ MintDue'[s] \in Nat
  <2>1. \A s \in Tasks : job'[s].plan.amount \in Nat /\ Buffer \in Nat
    BY EngineAssumption DEF TypeOK, Job, Plan
  <2> QED  BY <2>1, DueTypes DEF TransferDue, MintDue
<1>3. \A s \in Tasks \ {t} : TransferDue[s] = TransferDue'[s] /\ MintDue[s] = MintDue'[s]
  BY DEF TransferDue, MintDue, OthersStay
<1>4. /\ \A label : /\ t \in At(label, u) <=> pc[t] = label /\ job[t].who = u
                    /\ t \in At(label, u)' <=> pc'[t] = label /\ job'[t].who = u
      /\ TransferDue[t] = job[t].plan.amount + Buffer
      /\ TransferDue'[t] = job'[t].plan.amount + Buffer
      /\ MintDue[t] = job[t].plan.amount /\ MintDue'[t] = job'[t].plan.amount
  BY DEF At, TransferDue, MintDue
<1>5. /\ TransferSum(u) \in Nat /\ TransferSum(u)' \in Nat
      /\ TransferSum(u)' + (IF pc[t] = "transfer" /\ job[t].who = u
                              THEN job[t].plan.amount + Buffer ELSE 0)
           = TransferSum(u) + (IF pc'[t] = "transfer" /\ job'[t].who = u
                                 THEN job'[t].plan.amount + Buffer ELSE 0)
  BY <1>1, <1>2, <1>3, <1>4 DEF TransferSum
<1>6. /\ MintSum(u) \in Nat /\ MintSum(u)' \in Nat
      /\ MintSum(u)' + (IF pc[t] = "mint" /\ job[t].who = u
                          THEN job[t].plan.amount ELSE 0)
           = MintSum(u) + (IF pc'[t] = "mint" /\ job'[t].who = u
                             THEN job'[t].plan.amount ELSE 0)
  BY <1>1, <1>2, <1>3, <1>4 DEF MintSum
<1> QED  BY <1>5, <1>6

(* A step that brings no task to its transfer or mint and leaves at least  *)
(* as much in the Gateway.                                                 *)
LEMMA QuietStep ==
  ASSUME TypeOK, TypeOK', IsFiniteSet(Tasks), TransfersAreCovered,
         NEW t \in Tasks, OthersStay(t), pc'[t] \notin { "transfer", "mint" },
         \A u \in Users : /\ funds[u]["arc_escrow"] <= funds'[u]["arc_escrow"]
                          /\ funds[u]["arb_attested"] <= funds'[u]["arb_attested"]
  PROVE  TransfersAreCovered'
<1> SUFFICES ASSUME NEW u \in Users
             PROVE  /\ TransferSum(u)' <= funds'[u]["arc_escrow"]
                    /\ MintSum(u)' <= funds'[u]["arb_attested"]
  BY DEF TransfersAreCovered, TransferSum, MintSum
<1>1. /\ TransferSum(u) <= funds[u]["arc_escrow"]
      /\ MintSum(u) <= funds[u]["arb_attested"]
  BY DEF TransfersAreCovered, TransferSum, MintSum
<1>2. /\ job[t].plan.amount \in Nat /\ Buffer \in Nat
      /\ funds[u] \in Account /\ funds'[u] \in Account
  BY EngineAssumption DEF TypeOK, Job, Plan
<1>3. /\ funds[u]["arc_escrow"] \in Nat /\ funds'[u]["arc_escrow"] \in Nat
      /\ funds[u]["arb_attested"] \in Nat /\ funds'[u]["arb_attested"] \in Nat
  BY <1>2 DEF Account, Location
<1> QED  BY <1>1, <1>2, <1>3, SumsFollow

(* A step of a task that keeps its owner and plan.                         *)
LEMMA BridgeStep ==
  ASSUME TypeOK, TypeOK', IsFiniteSet(Tasks), TransfersAreCovered,
         NEW t \in Tasks, OthersStay(t),
         job'[t].who = job[t].who, job'[t].plan = job[t].plan,
         \A w \in Users \ {job[t].who} : funds'[w] = funds[w],
         LET n == job[t].plan.amount
             u == job[t].who
         IN  /\ funds[u]["arc_escrow"] + (IF pc'[t] = "transfer" THEN n + Buffer ELSE 0)
                  <= funds'[u]["arc_escrow"] + (IF pc[t] = "transfer" THEN n + Buffer ELSE 0)
             /\ funds[u]["arb_attested"] + (IF pc'[t] = "mint" THEN n ELSE 0)
                  <= funds'[u]["arb_attested"] + (IF pc[t] = "mint" THEN n ELSE 0)
  PROVE  TransfersAreCovered'
<1> SUFFICES ASSUME NEW w \in Users
             PROVE  /\ TransferSum(w)' <= funds'[w]["arc_escrow"]
                    /\ MintSum(w)' <= funds'[w]["arb_attested"]
  BY DEF TransfersAreCovered, TransferSum, MintSum
<1>1. /\ TransferSum(w) <= funds[w]["arc_escrow"]
      /\ MintSum(w) <= funds[w]["arb_attested"]
  BY DEF TransfersAreCovered, TransferSum, MintSum
<1>2. /\ job[t].plan.amount \in Nat /\ Buffer \in Nat
      /\ funds[w] \in Account /\ funds'[w] \in Account
  BY EngineAssumption DEF TypeOK, Job, Plan
<1>3. /\ funds[w]["arc_escrow"] \in Nat /\ funds'[w]["arc_escrow"] \in Nat
      /\ funds[w]["arb_attested"] \in Nat /\ funds'[w]["arb_attested"] \in Nat
  BY <1>2 DEF Account, Location
<1>4. /\ TransferSum(w) \in Nat /\ TransferSum(w)' \in Nat
      /\ MintSum(w) \in Nat /\ MintSum(w)' \in Nat
  BY SumsFollow
<1>5. CASE w = job[t].who
  BY <1>1, <1>2, <1>3, <1>5, SumsFollow
<1>6. CASE w # job[t].who
  <2>1. TransferSum(w)' = TransferSum(w) /\ MintSum(w)' = MintSum(w)
    BY <1>4, <1>6, SumsFollow
  <2> QED  BY <1>1, <1>6, <2>1
<1> QED  BY <1>5, <1>6

(* A step of no task.                                                      *)
LEMMA StillStep ==
  ASSUME TypeOK, TypeOK', IsFiniteSet(Tasks), TransfersAreCovered,
         UNCHANGED << pc, job >>,
         \A u \in Users : /\ funds[u]["arc_escrow"] <= funds'[u]["arc_escrow"]
                          /\ funds[u]["arb_attested"] <= funds'[u]["arb_attested"]
  PROVE  TransfersAreCovered'
<1> SUFFICES ASSUME NEW u \in Users
             PROVE  /\ TransferSum(u)' <= funds'[u]["arc_escrow"]
                    /\ MintSum(u)' <= funds'[u]["arb_attested"]
  BY DEF TransfersAreCovered, TransferSum, MintSum
<1>1. /\ TransferSum(u) <= funds[u]["arc_escrow"]
      /\ MintSum(u) <= funds[u]["arb_attested"]
  BY DEF TransfersAreCovered, TransferSum, MintSum
<1>2. TransferSum(u)' = TransferSum(u) /\ MintSum(u)' = MintSum(u)
  BY DEF TransferSum, MintSum, TransferDue, MintDue, At
<1>3. Cron \in Tasks /\ OthersStay(Cron)
  BY DEF Tasks, OthersStay
<1>4. TransferSum(u) \in Nat /\ MintSum(u) \in Nat
  BY <1>3, SumsFollow
<1>5. funds[u] \in Account /\ funds'[u] \in Account
  BY DEF TypeOK
<1>6. /\ funds[u]["arc_escrow"] \in Nat /\ funds'[u]["arc_escrow"] \in Nat
      /\ funds[u]["arb_attested"] \in Nat /\ funds'[u]["arb_attested"] \in Nat
  BY <1>5 DEF Account, Location
<1> QED  BY <1>1, <1>2, <1>4, <1>6

LEMMA LeaveMoves ==
  ASSUME TypeOK, NEW t \in Tasks, Leave(t)
  PROVE  OthersStay(t) /\ pc'[t] \notin { "transfer", "mint" }
BY DEF Leave, Goto, TypeOK, OthersStay

LEMMA TickMoves ==
  ASSUME TypeOK, NEW t \in Tasks, TickStep(t)
  PROVE  OthersStay(t) /\ pc'[t] \notin { "transfer", "mint" } /\ funds' = funds
<1>1. pc \in [Tasks -> Label] /\ job \in [Tasks -> Job] /\ job[t] \in Job
  BY DEF TypeOK
<1>2. ASSUME NEW label \in { "arb", "aave", "tick", "eval", "gate", "start", "report", "build" },
             Goto(t, label), \A s \in Tasks \ {t} : job'[s] = job[s]
      PROVE  OthersStay(t) /\ pc'[t] \notin { "transfer", "mint" }
  BY <1>1, <1>2 DEF Goto, OthersStay
<1>3. CASE FetchArc(t) \/ FetchArb(t) \/ FetchAave(t)
  <2>1. ASSUME NEW venue, NEW n, NEW label, NEW next \in { "arb", "aave", "tick" },
               Read(t, label, venue, n, next)
        PROVE  OthersStay(t) /\ pc'[t] \notin { "transfer", "mint" } /\ funds' = funds
    BY <1>1, <1>2, <2>1 DEF Read
  <2> QED  BY <1>3, <2>1 DEF FetchArc, FetchArb, FetchAave
<1>4. CASE FetchFails(t)
  BY <1>2, <1>4 DEF FetchFails
<1>5. CASE SkipTick(t) \/ TickFails(t) \/ GateReject(t)
  BY <1>5, LeaveMoves DEF SkipTick, TickFails, GateReject
<1>6. CASE BeginTick(t)
  BY <1>1, <1>2, <1>6 DEF BeginTick
<1>7. CASE EvaluateTick(t)
  <2>1. PICK d : IF d.kind = "act" /\ ~job[t].dry
                   THEN /\ job' = [ job EXCEPT ![t].plan = d.plan ]
                        /\ Goto(t, "gate")
                   ELSE Leave(t)
    BY <1>7 DEF EvaluateTick
  <2>2. CASE d.kind = "act" /\ ~job[t].dry
    BY <1>1, <1>2, <1>7, <2>1, <2>2 DEF EvaluateTick
  <2>3. CASE ~(d.kind = "act" /\ ~job[t].dry)
    BY <1>7, <2>1, <2>3, LeaveMoves DEF EvaluateTick
  <2> QED  BY <2>2, <2>3
<1>8. CASE GatePass(t)
  BY <1>1, <1>2, <1>8 DEF GatePass
<1>9. CASE StartAction(t)
  <2>1. (IF FirstOp(job[t].plan) = "none" THEN "report" ELSE "build") \in { "report", "build" }
    OBVIOUS
  <2> QED  BY <1>1, <1>2, <1>9, <2>1 DEF StartAction
<1> QED  BY <1>3, <1>4, <1>5, <1>6, <1>7, <1>8, <1>9 DEF TickStep

(* What an operation does to the two places the Gateway answers for.       *)
LEMMA OpMoves ==
  ASSUME TypeOK, NEW t \in Tasks, job[t].who \in Users, job[t].op # "none", OpCan(t)
  PROVE  LET a == funds[job[t].who]
         IN  /\ OpEffect(t)["arb_attested"] = a["arb_attested"]
             /\ OpEffect(t)["arc_escrow"] =
                  IF job[t].op = "deposit"
                    THEN a["arc_escrow"] + (job[t].plan.amount + Buffer)
                    ELSE a["arc_escrow"]
<1> DEFINE a == funds[job[t].who]
           n == job[t].plan.amount
<1>1. /\ a \in Account
      /\ {ArcIdle, ArbIdle, ArbAave, "arc_escrow", "arb_attested"} \subseteq Location
      /\ ArcIdle \notin { "arc_escrow", "arb_attested" }
      /\ ArbIdle \notin { "arc_escrow", "arb_attested", ArbAave }
      /\ ArbAave \notin { "arc_escrow", "arb_attested" }
  BY DEF TypeOK, Location, ArcIdle, ArbIdle, ArbAave
<1>2. a[ArbIdle] \in Nat /\ a[ArbIdle] <= a[ArbIdle]
  <2>1. a[ArbIdle] \in Nat
    BY <1>1 DEF Account
  <2> QED  BY <2>1
<1> HIDE DEF a, n
<1>3. CASE job[t].op = "deposit"
  <2>1. /\ n + Buffer \in Nat /\ n + Buffer <= a[ArcIdle]
        /\ OpEffect(t) = Move(a, ArcIdle, "arc_escrow", n + Buffer)
    BY <1>3, OpIsMove DEF a, n
  <2>2. /\ OpEffect(t)["arb_attested"] = a["arb_attested"]
        /\ OpEffect(t)["arc_escrow"] = a["arc_escrow"] + (n + Buffer)
    BY <1>1, <2>1, MoveType
  <2> QED  BY <1>3, <2>2 DEF a, n
<1>4. CASE job[t].op # "deposit"
  <2>1. \/ OpEffect(t) = Move(a, ArbIdle, ArbAave, a[ArbIdle])
        \/ n \in Nat /\ n <= a[ArbAave] /\ OpEffect(t) = Move(a, ArbAave, ArbIdle, n)
    BY <1>4, OpIsMove DEF a, n
  <2>2. /\ OpEffect(t)["arb_attested"] = a["arb_attested"]
        /\ OpEffect(t)["arc_escrow"] = a["arc_escrow"]
    BY <1>1, <1>2, <2>1, MoveType
  <2> QED  BY <1>4, <2>2 DEF a, n
<1> QED  BY <1>3, <1>4

LEMMA NonceKeeps ==
  ASSUME TypeOK, NEW t \in Tasks, NEW broke, UsesNonce(t, broke)
  PROVE  \A s \in Tasks : job'[s].who = job[s].who /\ job'[s].plan = job[s].plan
<1> TAKE s \in Tasks
<1>1. job[s] \in Job
  BY DEF TypeOK
<1>2. \/ job'[s] = job[s]
      \/ job'[s] = [ job[s] EXCEPT !.fresh = FALSE ]
      \/ job'[s] = [ job[s] EXCEPT !.failed = broke, !.fresh = FALSE ]
  BY DEF UsesNonce
<1>3. \A j \in Job :
         /\ [ j EXCEPT !.fresh = FALSE ].who = j.who
         /\ [ j EXCEPT !.fresh = FALSE ].plan = j.plan
         /\ [ j EXCEPT !.failed = broke, !.fresh = FALSE ].who = j.who
         /\ [ j EXCEPT !.failed = broke, !.fresh = FALSE ].plan = j.plan
  BY DEF Job
<1> QED  BY <1>1, <1>2, <1>3

LEMMA ExecCovered ==
  ASSUME TypeOK, TypeOK', TasksInv, IsFiniteSet(Tasks), \A fee \in Fees : fee <= Buffer,
         TransfersAreCovered, NEW t \in Tasks, ExecStep(t)
  PROVE  TransfersAreCovered'
<1> DEFINE u == job[t].who
           n == job[t].plan.amount
<1>1. /\ pc \in [Tasks -> Label] /\ job \in [Tasks -> Job] /\ job[t] \in Job
      /\ funds \in [Users -> Account] /\ n \in Nat /\ Buffer \in Nat
  BY EngineAssumption DEF TypeOK, Job, Plan
<1>2. \A w \in Users : /\ funds[w]["arc_escrow"] \in Nat
                       /\ funds[w]["arb_attested"] \in Nat
  BY <1>1 DEF Account, Location
<1>3. /\ pc[t] \in Executing => u \in Users
      /\ pc[t] \in {"build", "built"} => job[t].op # "none"
  BY DEF TasksInv, TaskInv, Executing
<1>4. {"build", "built", "transfer", "mint", "report"} \subseteq Executing
  BY DEF Executing
<1>5. ASSUME OthersStay(t), pc'[t] \notin { "transfer", "mint" }, funds' = funds
      PROVE  TransfersAreCovered'
  <2>1. \A w \in Users : /\ funds[w]["arc_escrow"] <= funds'[w]["arc_escrow"]
                         /\ funds[w]["arb_attested"] <= funds'[w]["arb_attested"]
    BY <1>2, <1>5
  <2> QED  BY <1>5, <2>1, QuietStep
<1>6. Fail(t) => /\ OthersStay(t) /\ pc'[t] = "report"
                 /\ job'[t].who = u /\ job'[t].plan = job[t].plan
  BY <1>1 DEF Fail, Goto, OthersStay, Job
<1>7. ASSUME NEW broke, UsesNonce(t, broke)
      PROVE  \A s \in Tasks : job'[s].who = job[s].who /\ job'[s].plan = job[s].plan
  BY <1>7, NonceKeeps
<1>8. CASE BuildOp(t)
  <2>1. /\ funds' = funds /\ pc' = [ pc EXCEPT ![t] = "built" ]
        /\ \A s \in Tasks \ {t} : job'[s] = job[s]
    BY <1>1, <1>8 DEF BuildOp, Goto
  <2> QED  BY <1>1, <1>5, <2>1 DEF OthersStay
<1>9. CASE OpLands(t) \/ OpLandsUnseen(t)
  <2>1. /\ pc[t] = "built" /\ u \in Users /\ job[t].op # "none" /\ OpCan(t)
        /\ funds' = [ funds EXCEPT ![u] = OpEffect(t) ]
        /\ \A s \in Tasks : job'[s].who = job[s].who /\ job'[s].plan = job[s].plan
    BY <1>3, <1>4, <1>7, <1>9 DEF OpLands, OpLandsUnseen, OpRuns
  <2>2. /\ \A s \in Tasks \ {t} : pc'[s] = pc[s]
        /\ pc'[t] \in { "transfer", "report" }
        /\ pc'[t] = "transfer" => job[t].op = "deposit"
    BY <1>1, <1>9 DEF OpLands, OpLandsUnseen, Goto
  <2>3. OthersStay(t) /\ funds'[u] = OpEffect(t)
        /\ \A w \in Users \ {u} : funds'[w] = funds[w]
    BY <1>1, <2>1, <2>2 DEF OthersStay
  <2>4. /\ funds'[u]["arb_attested"] = funds[u]["arb_attested"]
        /\ funds'[u]["arc_escrow"] = IF job[t].op = "deposit"
                                       THEN funds[u]["arc_escrow"] + (n + Buffer)
                                       ELSE funds[u]["arc_escrow"]
    BY <2>1, <2>3, OpMoves
  <2>5. /\ funds[u]["arc_escrow"] + (IF pc'[t] = "transfer" THEN n + Buffer ELSE 0)
             <= funds'[u]["arc_escrow"] + (IF pc[t] = "transfer" THEN n + Buffer ELSE 0)
        /\ funds[u]["arb_attested"] + (IF pc'[t] = "mint" THEN n ELSE 0)
             <= funds'[u]["arb_attested"] + (IF pc[t] = "mint" THEN n ELSE 0)
    <3> HIDE DEF u, n
    <3> QED  BY <1>1, <1>2, <2>1, <2>2, <2>4
  <2> QED  BY <2>1, <2>3, <2>5, BridgeStep
<1>10. CASE OpReverts(t)
  <2>1. OthersStay(t) /\ pc'[t] = "report" /\ funds' = funds
    BY <1>1, <1>7, <1>10 DEF OpReverts, Goto, OthersStay
  <2> QED  BY <1>5, <2>1
<1>11. CASE OpStale(t) \/ StepFails(t)
  BY <1>5, <1>6, <1>11 DEF OpStale, StepFails
<1>12. CASE TransferAttested(t) \/ TransferUnseen(t)
  <2>1. PICK fee \in Fees : Attests(t, fee)
    BY <1>12 DEF TransferAttested, TransferUnseen
  <2>2. /\ pc[t] = "transfer" /\ u \in Users /\ fee \in Nat /\ fee <= Buffer
        /\ CanAttest(funds[u], "arc", n, fee)
        /\ funds' = [ funds EXCEPT ![u] = Attest(funds[u], "arc", "arb", n, fee) ]
    BY <1>1, <1>3, <1>4, <2>1, EngineAssumption DEF Attests
  <2>3. /\ OthersStay(t) /\ pc'[t] \in { "mint", "report" }
        /\ job'[t].who = u /\ job'[t].plan = job[t].plan
    BY <1>1, <1>6, <1>12 DEF TransferAttested, TransferUnseen, Goto, OthersStay
  <2>4. /\ funds'[u] = Attest(funds[u], "arc", "arb", n, fee)
        /\ \A w \in Users \ {u} : funds'[w] = funds[w]
        /\ funds[u] \in Account
    BY <1>1, <2>2
  <2>5. /\ funds'[u]["arc_escrow"] = funds[u]["arc_escrow"] - n - fee
        /\ funds'[u]["arb_attested"] = funds[u]["arb_attested"] + n
    BY <1>1, <2>2, <2>4, AttestType DEF Chain, EscrowOn, AttestedFor
  <2>6. /\ funds[u]["arc_escrow"] + (IF pc'[t] = "transfer" THEN n + Buffer ELSE 0)
             <= funds'[u]["arc_escrow"] + (IF pc[t] = "transfer" THEN n + Buffer ELSE 0)
        /\ funds[u]["arb_attested"] + (IF pc'[t] = "mint" THEN n ELSE 0)
             <= funds'[u]["arb_attested"] + (IF pc[t] = "mint" THEN n ELSE 0)
    <3> HIDE DEF u, n
    <3> QED  BY <1>1, <1>2, <2>2, <2>3, <2>5
  <2> QED  BY <2>3, <2>4, <2>6, BridgeStep
<1>13. CASE SendMintStep(t)
  <2>1. /\ pc[t] = "mint" /\ u \in Users /\ CanMint(funds[u], "arb", n)
        /\ funds' = [ funds EXCEPT ![u] = SendMint(funds[u], "arb", n) ]
        /\ \A s \in Tasks : job'[s].who = job[s].who /\ job'[s].plan = job[s].plan
        /\ pc' = [ pc EXCEPT ![t] = "build" ]
    BY <1>1, <1>3, <1>4, <1>13 DEF SendMintStep, Goto, Job
  <2>2. /\ OthersStay(t) /\ pc'[t] = "build"
        /\ funds'[u] = SendMint(funds[u], "arb", n)
        /\ \A w \in Users \ {u} : funds'[w] = funds[w]
        /\ funds[u] \in Account
    BY <1>1, <2>1 DEF OthersStay
  <2>3. /\ n <= funds[u]["arb_attested"]
        /\ funds'[u] = Move(funds[u], "arb_attested", "arb_minting", n)
    BY <1>2, <2>1, <2>2 DEF CanMint, SendMint, AttestedFor, MintingOn
  <2>4. {"arb_attested", "arb_minting", "arc_escrow"} \subseteq Location
    BY DEF Location
  <2>5. /\ funds'[u]["arc_escrow"] = funds[u]["arc_escrow"]
        /\ funds'[u]["arb_attested"] = funds[u]["arb_attested"] - n
    BY <1>1, <2>2, <2>3, <2>4, MoveType
  <2>6. /\ funds[u]["arc_escrow"] + (IF pc'[t] = "transfer" THEN n + Buffer ELSE 0)
             <= funds'[u]["arc_escrow"] + (IF pc[t] = "transfer" THEN n + Buffer ELSE 0)
        /\ funds[u]["arb_attested"] + (IF pc'[t] = "mint" THEN n ELSE 0)
             <= funds'[u]["arb_attested"] + (IF pc[t] = "mint" THEN n ELSE 0)
    <3> HIDE DEF u, n
    <3> QED  BY <1>1, <1>2, <2>1, <2>2, <2>5
  <2> QED  BY <2>1, <2>2, <2>6, BridgeStep
<1>14. CASE Report(t) \/ ReportFails(t)
  BY <1>5, <1>14, LeaveMoves DEF Report, ReportFails
<1> QED  BY <1>8, <1>9, <1>10, <1>11, <1>12, <1>13, <1>14 DEF ExecStep

LEMMA NextCovered ==
  ASSUME TypeOK, PolicyInv, TasksInv, IsFiniteSet(Tasks),
         \A fee \in Fees : fee <= Buffer, TransfersAreCovered, [Next]_vars
  PROVE  TransfersAreCovered'
<1>1. TypeOK'
  BY NextType
<1>2. /\ pc \in [Tasks -> Label] /\ job \in [Tasks -> Job] /\ Cron \in Tasks
      /\ funds \in [Users -> Account] /\ funds' \in [Users -> Account]
  BY <1>1 DEF TypeOK, Tasks
<1>3. \A w \in Users : funds[w]["arc_escrow"] \in Nat /\ funds[w]["arb_attested"] \in Nat
  BY <1>2 DEF Account, Location
<1>4. ASSUME UNCHANGED << pc, job, funds >>  PROVE  TransfersAreCovered'
  BY <1>1, <1>3, <1>4, StillStep
<1>5. ASSUME NEW t \in Tasks, OthersStay(t), pc'[t] \notin { "transfer", "mint" },
             funds' = funds
      PROVE  TransfersAreCovered'
  BY <1>1, <1>3, <1>5, QuietStep
<1>6. CASE UNCHANGED vars
  BY <1>4, <1>6 DEF vars
<1>7. CASE CronStep
  <2>1. OthersStay(Cron) /\ pc'[Cron] \in { "next", "arc" } /\ funds' = funds
    BY <1>2, <1>7 DEF CronStep, CronWake, CronNext, Goto, OthersStay
  <2> QED  BY <1>2, <1>5, <2>1
<1>8. ASSUME NEW t \in Tasks, TaskStep(t)  PROVE  TransfersAreCovered'
  <2>1. CASE TickStep(t)
    BY <1>5, <2>1, TickMoves
  <2>2. CASE ExecStep(t)
    BY <1>1, <2>2, ExecCovered
  <2> QED  BY <1>8, <2>1, <2>2 DEF TaskStep
<1>9. ASSUME NEW u \in Users, NEW dry, Spawn(u, dry), funds' = funds
      PROVE  TransfersAreCovered'
  <2>1. CASE UNCHANGED << pc, job >>
    BY <1>4, <1>9, <2>1
  <2>2. ASSUME NEW t \in Ticks, Goto(t, "arc"),
               job' = [ job EXCEPT ![t] = NewJob(u, clock, dry) ]
        PROVE  TransfersAreCovered'
    <3>1. t \in Tasks /\ OthersStay(t) /\ pc'[t] = "arc"
      BY <1>2, <2>2 DEF Tasks, Goto, OthersStay
    <3> QED  BY <1>5, <1>9, <3>1
  <2> QED  BY <1>9, <2>1, <2>2 DEF Spawn
<1>10. ASSUME NEW u \in Users, NEW from \in Location, NEW to \in Location, NEW n \in Nat,
              n <= funds[u][from], from # to, from \notin { "arc_escrow", "arb_attested" },
              funds' = [ funds EXCEPT ![u] = Move(funds[u], from, to, n) ],
              UNCHANGED << pc, job >>
       PROVE  TransfersAreCovered'
  <2> DEFINE a == Move(funds[u], from, to, n)
  <2>1. /\ funds[u] \in Account /\ funds'[u] = a
        /\ \A w \in Users \ {u} : funds'[w] = funds[w]
    BY <1>2, <1>10
  <2>2. a["arc_escrow"] = funds[u]["arc_escrow"] \/ a["arc_escrow"] = funds[u]["arc_escrow"] + n
    <3>1. "arc_escrow" \in Location
      BY DEF Location
    <3> QED  BY <1>10, <2>1, <3>1, MoveType
  <2>3. a["arb_attested"] = funds[u]["arb_attested"]
          \/ a["arb_attested"] = funds[u]["arb_attested"] + n
    <3>1. "arb_attested" \in Location
      BY DEF Location
    <3> QED  BY <1>10, <2>1, <3>1, MoveType
  <2> HIDE DEF a
  <2>4. \A w \in Users : /\ funds[w]["arc_escrow"] <= funds'[w]["arc_escrow"]
                         /\ funds[w]["arb_attested"] <= funds'[w]["arb_attested"]
    BY <1>3, <1>10, <2>1, <2>2, <2>3
  <2> QED  BY <1>1, <1>10, <2>4, StillStep
<1>11. CASE OwnerStep
  <2>1. PICK u \in Users :
          \/ \E b \in Bodies, s \in {"active", "paused"} : PutPolicy(u, b, s)
          \/ \E s \in {"active", "paused"} : PauseOrResume(u, s)
          \/ ResumeByChat(u)
          \/ RunOnce(u)
          \/ \E c \in Chain, n \in Amounts : Fund(u, c, n)
    BY <1>11, OwnerKinds
  <2>2. ASSUME NEW c \in Chain, NEW n \in Amounts, Fund(u, c, n)
        PROVE  TransfersAreCovered'
    <3>1. /\ n \in Nat /\ IdleOn(c) \in Location /\ "wallet" \in Location
          /\ IdleOn(c) # "wallet" /\ funds[u] \in Account
      BY <1>2, EngineAssumption, Places DEF ArcIdle, ArbIdle
    <3>2. n <= funds[u]["wallet"]
      BY <2>2, <3>1 DEF Fund, Account
    <3>3. funds' = [ funds EXCEPT ![u] = Move(funds[u], "wallet", IdleOn(c), n) ]
      BY <1>2, <2>2 DEF Fund
    <3> QED  BY <1>10, <2>2, <3>1, <3>2, <3>3 DEF Fund
  <2>3. CASE \E s \in {"active", "paused"} : PauseOrResume(u, s)
    BY <1>4, <2>3 DEF PauseOrResume, SetStatus
  <2> QED  BY <1>9, <2>1, <2>2, <2>3 DEF PutPolicy, ResumeByChat, SetStatus, RunOnce
<1>12. CASE WorldStep
  <2>1. ASSUME NEW u \in Users, MintLands(u) \/ MintDropped(u)
        PROVE  TransfersAreCovered'
    <3> DEFINE a == funds[u]
               n == a["arb_minting"]
    <3>1. a \in Account /\ "arb_minting" \in Location
      BY <1>2 DEF Location
    <3>2. n \in Nat /\ n <= a["arb_minting"]
      BY <3>1 DEF Account
    <3>3. /\ LandMint(a, "arb", n) = Move(a, "arb_minting", ArbIdle, n)
          /\ DropMint(a, "arb", n) = Move(a, "arb_minting", "arb_attested", n)
      BY DEF LandMint, DropMint, MintingOn, IdleOn, AttestedFor
    <3>4. /\ {"arb_attested", ArbIdle} \subseteq Location /\ "arb_minting" # ArbIdle
      BY DEF Location, ArbIdle
    <3>5. PICK to \in {"arb_attested", ArbIdle} :
             funds' = [ funds EXCEPT ![u] = Move(a, "arb_minting", to, n) ]
      <4>1. CASE MintLands(u)
        <5>1. funds' = [ funds EXCEPT ![u] = LandMint(a, "arb", n) ]
          BY <1>2, <4>1 DEF MintLands
        <5> QED  BY <3>3, <5>1
      <4>2. CASE MintDropped(u)
        <5>1. funds' = [ funds EXCEPT ![u] = DropMint(a, "arb", n) ]
          BY <1>2, <4>2 DEF MintDropped
        <5> QED  BY <3>3, <5>1
      <4> QED  BY <2>1, <4>1, <4>2
    <3>6. UNCHANGED << pc, job >>
      BY <2>1 DEF MintLands, MintDropped
    <3>7. "arb_minting" # to /\ to \in Location
      BY <3>4
    <3> QED  BY <1>10, <3>1, <3>2, <3>5, <3>6, <3>7
  <2>2. CASE Crash
    <3>1. \A w \in Users : At("transfer", w)' = {} /\ At("mint", w)' = {}
      BY <2>2 DEF Crash, At
    <3>2. \A w : SumOver(w, {}) = 0
      BY FS_EmptySet, SumUnfold
    <3>3. funds' = funds
      BY <2>2 DEF Crash
    <3> QED  BY <1>3, <3>1, <3>2, <3>3 DEF TransfersAreCovered
  <2>3. CASE Pass \/ \E apr \in Aprs : Publish(apr)
    BY <1>4, <2>3 DEF Pass, Publish
  <2> QED  BY <1>12, <2>1, <2>2, <2>3 DEF WorldStep
<1> QED  BY <1>6, <1>7, <1>8, <1>11, <1>12 DEF Next

(* A bridge whose deposit is in asks for its transfer and then mints what  *)
(* was attested: as long as the Gateway's fee stays within the buffer the  *)
(* deposit adds (BRIDGE_FEE_BUFFER_USDC_6DEC, src/automation/executor.rs), *)
(* every task finds its own money there, however many bridge the same      *)
(* account, fail halfway or are lost in a restart.                         *)
THEOREM EngineTransfersAreCovered ==
  ASSUME IsFiniteSet(Ticks), \A fee \in Fees : fee <= Buffer
  PROVE  Spec => []TransfersAreCovered
<1>1. IsFiniteSet(Tasks)
  BY FS_AddElement DEF Tasks
<1>2. Init => TransfersAreCovered
  <2> SUFFICES ASSUME Init  PROVE  TransfersAreCovered
    OBVIOUS
  <2>1. \A w \in Users : At("transfer", w) = {} /\ At("mint", w) = {}
    BY DEF Init, At
  <2>2. \A w : SumOver(w, {}) = 0
    BY FS_EmptySet, SumUnfold
  <2>3. \A w \in Users : funds[w]["arc_escrow"] = 0 /\ funds[w]["arb_attested"] = 0
    BY DEF Init, Location
  <2> QED  BY <2>1, <2>2, <2>3 DEF TransfersAreCovered
<1>3. EngineInv /\ TransfersAreCovered /\ [Next]_vars => TransfersAreCovered'
  BY <1>1, NextCovered DEF EngineInv
<1> QED  BY <1>2, <1>3, EngineInvariant, PTL DEF Spec

-----------------------------------------------------------------------------
(***************************************************************************)
(* OwnerExits: the ways out for an owner, beside the engine and with       *)
(* failing calls.                                                          *)
(***************************************************************************)
(***************************************************************************)
(* The inductive invariant: what the engine keeps, where each kind of exit *)
(* can be, a finite ledger.                                                *)
(***************************************************************************)
Path(e) ==
  IF e \in Withdraws THEN { "unsupply", "arb", "deposit", "attest", "mint" }
  ELSE IF e \in Sends THEN { "pay", "book" }
  ELSE { "attest", "mint", "build", "built" }

OnPath(e) ==
  /\ epc[e] \in Path(e) \cup {"idle"}
  /\ epc[e] # "idle" => exit[e].who \in Users
  /\ e \in Withdraws => exit[e].supply = FALSE

FiniteLedger == IsFiniteSet(events) /\ \A u \in Users : IsFiniteSet(txs[u])

ExitInv ==
  /\ ExitTypeOK /\ PolicyInv /\ TasksInv
  /\ \A e \in Exits : OnPath(e)
  /\ FiniteLedger

-----------------------------------------------------------------------------
(* The types of the parts.                                                 *)

LEMMA NewExitType ==
  /\ NoExit \in Exit /\ NoExit.who = NoUser /\ NoExit.supply = FALSE
  /\ \A u \in Users, n \in Nat, b \in BOOLEAN :
        /\ NewExit(u, n, b) \in Exit
        /\ NewExit(u, n, b).who = u /\ NewExit(u, n, b).supply = b
BY DEF Exit, NoExit, NewExit

LEMMA ExitFields ==
  ASSUME NEW x \in Exit
  PROVE  /\ \A n \in Nat :
               /\ [ x EXCEPT !.amount = n ] \in Exit /\ [ x EXCEPT !.tx = n ] \in Exit
               /\ [ x EXCEPT !.amount = n ].who = x.who
               /\ [ x EXCEPT !.amount = n ].supply = x.supply
               /\ [ x EXCEPT !.tx = n ].who = x.who
               /\ [ x EXCEPT !.tx = n ].supply = x.supply
         /\ \A b \in BOOLEAN :
               /\ [ x EXCEPT !.fresh = b ] \in Exit
               /\ [ x EXCEPT !.fresh = b ].who = x.who
               /\ [ x EXCEPT !.fresh = b ].supply = x.supply
BY DEF Exit

LEMMA PathLabels ==
  /\ {"idle"} \cup { "unsupply", "arb", "deposit", "attest", "mint", "pay", "book",
                     "build", "built" } \subseteq ExitLabel
  /\ \A e : Path(e) \subseteq ExitLabel
BY DEF ExitLabel, Path

(* One exit moves, the others stay.                                        *)
OthersWait(e) == \A f \in Exits \ {e} : epc'[f] = epc[f] /\ exit'[f] = exit[f]

LEMMA StepExits ==
  ASSUME ExitInv, NEW e \in Exits, NEW label \in Path(e) \cup {"idle"}, NEW x \in Exit,
         Step(e, label), exit' = [ exit EXCEPT ![e] = x ],
         label # "idle" => x.who \in Users,
         e \in Withdraws => x.supply = FALSE
  PROVE  /\ epc' \in [ Exits -> ExitLabel ] /\ exit' \in [ Exits -> Exit ]
         /\ \A f \in Exits : OnPath(f)'
         /\ OthersWait(e) /\ epc'[e] = label /\ exit'[e] = x
<1>1. /\ epc \in [ Exits -> ExitLabel ] /\ exit \in [ Exits -> Exit ]
      /\ \A f \in Exits : OnPath(f)
  BY DEF ExitInv, ExitTypeOK
<1>2. label \in ExitLabel
  BY PathLabels
<1>3. /\ epc' \in [ Exits -> ExitLabel ] /\ exit' \in [ Exits -> Exit ]
      /\ OthersWait(e) /\ epc'[e] = label /\ exit'[e] = x
  BY <1>1, <1>2 DEF Step, OthersWait
<1>4. \A f \in Exits : OnPath(f)'
  BY <1>1, <1>3 DEF OnPath, OthersWait
<1> QED  BY <1>3, <1>4

LEMMA EndExits ==
  ASSUME ExitInv, NEW e \in Exits, End(e)
  PROVE  /\ epc' \in [ Exits -> ExitLabel ] /\ exit' \in [ Exits -> Exit ]
         /\ \A f \in Exits : OnPath(f)'
         /\ OthersWait(e) /\ epc'[e] = "idle" /\ exit'[e] = NoExit
BY NewExitType, StepExits DEF End

(* The exits wait while the engine or a chain moves on.                    *)
LEMMA StillExits ==
  ASSUME ExitInv, UNCHANGED << epc, exit >>
  PROVE  /\ epc' \in [ Exits -> ExitLabel ] /\ exit' \in [ Exits -> Exit ]
         /\ \A f \in Exits : OnPath(f)'
BY DEF ExitInv, ExitTypeOK, OnPath

(* What the engine keeps, it keeps beside a step of an exit.               *)
LEMMA EngineFrame ==
  ASSUME ExitInv, UNCHANGED << stores, clock, pc, job, cycle >>,
         funds' \in [ Users -> Account ]
  PROVE  TypeOK' /\ PolicyInv' /\ TasksInv'
<1>1. TypeOK /\ PolicyInv /\ TasksInv
  BY DEF ExitInv, ExitTypeOK
<1>2. TypeOK'
  BY <1>1 DEF TypeOK, stores, cycle
<1>3. PolicyInv' /\ HistoryGrows
  BY <1>1, SamePolicy DEF stores
<1>4. TasksInv'
  <2> SUFFICES ASSUME NEW s \in Tasks  PROVE  TaskInv(s)'
    BY DEF TasksInv
  <2>1. Carries(s) /\ pc'[s] = pc[s] /\ job'[s] = job[s]
    BY DEF Carries
  <2>2. TaskInv(s) /\ (pc[s] \in {"build", "built"} => job[s].op # "none")
    BY <1>1 DEF TasksInv, TaskInv
  <2> QED  BY <1>1, <1>3, <2>1, <2>2, TaskFrame DEF stores
<1> QED  BY <1>2, <1>3, <1>4

LEMMA SameEngine ==
  ASSUME ExitInv, UNCHANGED vars  PROVE  TypeOK' /\ PolicyInv' /\ TasksInv'
<1>1. funds \in [ Users -> Account ]
  BY DEF ExitInv, ExitTypeOK, TypeOK
<1> QED  BY <1>1, EngineFrame DEF vars

(* A step that changes the nonces the tasks hold, or fails one of them.    *)
LEMMA TasksFrame ==
  ASSUME ExitInv, UNCHANGED << stores, clock, cycle >>, funds' \in [ Users -> Account ],
         pc' \in [ Tasks -> Label ], job' \in [ Tasks -> Job ],
         \A s \in Tasks : /\ Carries(s) /\ job'[s].op = job[s].op
                          /\ \/ pc'[s] = pc[s]
                             \/ pc[s] \in Executing /\ pc'[s] = "report"
  PROVE  TypeOK' /\ PolicyInv' /\ TasksInv'
<1>1. TypeOK /\ PolicyInv /\ TasksInv
  BY DEF ExitInv, ExitTypeOK
<1>2. TypeOK'
  BY <1>1 DEF TypeOK, stores, cycle
<1>3. PolicyInv' /\ HistoryGrows
  BY <1>1, SamePolicy DEF stores
<1>4. TasksInv'
  <2> SUFFICES ASSUME NEW s \in Tasks  PROVE  TaskInv(s)'
    BY DEF TasksInv
  <2>1. "report" \in Executing
    BY DEF Executing
  <2>2. TaskInv(s) /\ (pc[s] \in {"build", "built"} => job[s].op # "none")
    BY <1>1 DEF TasksInv, TaskInv
  <2>3. pc'[s] \in {"build", "built"} => job'[s].op # "none"
    BY <2>2
  <2> QED  BY <1>1, <1>3, <2>1, <2>2, <2>3, TaskFrame DEF stores
<1> QED  BY <1>2, <1>3, <1>4

-----------------------------------------------------------------------------
(* A book of an owner: moves neither make nor lose money.                  *)
Wealth(a) == SumOver(a, Location)

LEMMA LocationFinite == IsFiniteSet(Location)
<1> DEFINE A == {} \cup {ArcIdle}
           B == A \cup {ArbIdle}
           C == B \cup {ArbAave}
           D == C \cup {"arc_escrow"}
           E == D \cup {"arb_escrow"}
           F == E \cup {"arc_attested"}
           G == F \cup {"arb_attested"}
           H == G \cup {"arc_minting"}
           I == H \cup {"arb_minting"}
           J == I \cup {"fees"}
           K == J \cup {"wallet"}
<1>1. \A S, x : IsFiniteSet(S) => IsFiniteSet(S \cup {x})
  BY FS_AddElement
<1>2. IsFiniteSet({})
  BY FS_EmptySet
<1>3. Location = K
  BY DEF Location
<1> HIDE DEF A, B, C, D, E, F, G, H, I, J, K
<1>4. IsFiniteSet(A) /\ IsFiniteSet(B) /\ IsFiniteSet(C)
  BY <1>1, <1>2 DEF A, B, C
<1>5. IsFiniteSet(D) /\ IsFiniteSet(E) /\ IsFiniteSet(F)
  BY <1>1, <1>4 DEF D, E, F
<1>6. IsFiniteSet(G) /\ IsFiniteSet(H) /\ IsFiniteSet(I)
  BY <1>1, <1>5 DEF G, H, I
<1>7. IsFiniteSet(J) /\ IsFiniteSet(K)
  BY <1>1, <1>6 DEF J, K
<1> QED  BY <1>3, <1>7

LEMMA MoveKeepsTotal ==
  ASSUME NEW a \in Account, NEW from \in Location, NEW to \in Location,
         NEW n \in Nat, n <= a[from], from # to
  PROVE  Wealth(Move(a, from, to, n)) = Wealth(a)
<1> DEFINE b == Move(a, from, to, n)
           R == Location \ {from}
           Q == R \ {to}
<1>1. /\ b \in Account /\ b[from] = a[from] - n /\ b[to] = a[to] + n
      /\ \A l \in Q : a[l] = b[l]
  BY MoveType
<1> HIDE DEF b
<1>2. \A l \in Location : a[l] \in Nat /\ b[l] \in Nat
  BY <1>1 DEF Account
<1>3. IsFiniteSet(Location) /\ IsFiniteSet(R) /\ IsFiniteSet(Q) /\ to \in R
  BY LocationFinite, FS_RemoveElement
<1>4. /\ Wealth(a) = a[from] + SumOver(a, R)
      /\ Wealth(b) = b[from] + SumOver(b, R)
  BY <1>2, <1>3, SumTake DEF Wealth
<1>5. /\ SumOver(a, R) = a[to] + SumOver(a, Q)
      /\ SumOver(b, R) = b[to] + SumOver(b, Q)
  BY <1>2, <1>3, SumTake
<1>6. SumOver(a, Q) = SumOver(b, Q)
  BY <1>1, <1>3, SumSame
<1>7. SumOver(a, Q) \in Nat
  BY <1>2, <1>3, SumType
<1> HIDE DEF R, Q
<1>8. a[from] \in Nat /\ a[to] \in Nat
  BY <1>2
<1> QED  BY <1>1, <1>4, <1>5, <1>6, <1>7, <1>8 DEF b

LEMMA AttestKeepsTotal ==
  ASSUME NEW a \in Account, NEW src \in Chain, NEW dst \in Chain,
         NEW n \in Nat, NEW fee \in Nat, CanAttest(a, src, n, fee)
  PROVE  Wealth(Attest(a, src, dst, n, fee)) = Wealth(a)
<1> DEFINE from == EscrowOn(src)
           to   == AttestedFor(dst)
<1>1. PICK c \in Account : /\ n <= a[from] /\ c = Move(a, from, to, n)
                           /\ fee <= c[from]
                           /\ Attest(a, src, dst, n, fee) = Move(c, from, "fees", fee)
  BY AttestType
<1>2. {from, to, "fees"} \subseteq Location /\ from # to /\ from # "fees"
  BY DEF EscrowOn, AttestedFor, Location
<1> HIDE DEF from, to
<1>3. Wealth(c) = Wealth(a)
  BY <1>1, <1>2, MoveKeepsTotal
<1>4. Wealth(Move(c, from, "fees", fee)) = Wealth(c)
  BY <1>1, <1>2, MoveKeepsTotal
<1> QED  BY <1>1, <1>3, <1>4

(* What the engine leaves alone: the total and the places that only        *)
(* withdrawals use.                                                        *)
Keeps(a, b) ==
  /\ Wealth(b) = Wealth(a)
  /\ b["arb_escrow"] = a["arb_escrow"] /\ b["arc_attested"] = a["arc_attested"]

LEMMA EngineMoveKeeps ==
  ASSUME NEW a \in Account, NEW n \in Nat,
         NEW from \in Location \ {"arb_escrow", "arc_attested"},
         NEW to \in Location \ {"arb_escrow", "arc_attested"},
         n <= a[from], from # to
  PROVE  Keeps(a, Move(a, from, to, n))
<1>1. {"arb_escrow", "arc_attested"} \subseteq Location
  BY DEF Location
<1> QED  BY <1>1, MoveType, MoveKeepsTotal DEF Keeps

LEMMA OneOwnerKeeps ==
  ASSUME funds \in [ Users -> Account ], NEW u \in Users, NEW a,
         funds' = [ funds EXCEPT ![u] = a ], Keeps(funds[u], a)
  PROVE  \A w \in Users : Keeps(funds[w], funds'[w])
BY DEF Keeps

LEMMA NextKeeps ==
  ASSUME TypeOK, TasksInv, [Next]_vars
  PROVE  \A w \in Users : Keeps(funds[w], funds'[w])
<1>1. /\ funds \in [ Users -> Account ] /\ job \in [ Tasks -> Job ]
      /\ \A t \in Tasks : job[t].plan.amount \in Nat
  BY DEF TypeOK, Job, Plan
<1>2. CASE funds' = funds
  BY <1>2 DEF Keeps
<1>3. \A t \in Tasks : /\ pc[t] \in Executing => job[t].who \in Users
                       /\ pc[t] \in {"build", "built"} => job[t].op # "none"
  BY DEF TasksInv, TaskInv, Executing
<1>4. {"build", "built", "transfer", "mint", "report"} \subseteq Executing
  BY DEF Executing
<1>5. /\ {ArcIdle, ArbIdle, ArbAave, "arc_escrow", "arb_attested", "arb_minting", "wallet"}
           \subseteq Location \ {"arb_escrow", "arc_attested"}
      /\ ArcIdle \notin {"arc_escrow", "wallet"} /\ ArbIdle \notin {ArbAave, "arb_minting", "wallet"}
  BY DEF Location, ArcIdle, ArbIdle, ArbAave
<1>6. \A w \in Users : /\ funds[w] \in Account
                       /\ \A l \in Location : funds[w][l] \in Nat /\ funds[w][l] <= funds[w][l]
  <2>1. \A w \in Users : funds[w] \in Account /\ \A l \in Location : funds[w][l] \in Nat
    BY <1>1 DEF Account
  <2> QED  BY <2>1
<1>7. CASE CronStep
  BY <1>2, <1>7 DEF CronStep, CronWake, CronNext
<1>8. ASSUME NEW t \in Tasks, TickStep(t)  PROVE  \A w \in Users : Keeps(funds[w], funds'[w])
  BY <1>2, <1>8, TickMoves
<1>9. ASSUME NEW t \in Tasks, ExecStep(t)  PROVE  \A w \in Users : Keeps(funds[w], funds'[w])
  <2> DEFINE u == job[t].who
             n == job[t].plan.amount
             a == funds[u]
  <2>1. CASE OpLands(t) \/ OpLandsUnseen(t)
    <3>1. /\ u \in Users /\ job[t].op # "none" /\ OpCan(t)
          /\ funds' = [ funds EXCEPT ![u] = OpEffect(t) ]
      BY <1>3, <1>4, <2>1 DEF OpLands, OpLandsUnseen, OpRuns
    <3>2. \/ n + Buffer \in Nat /\ n + Buffer <= a[ArcIdle]
               /\ OpEffect(t) = Move(a, ArcIdle, "arc_escrow", n + Buffer)
          \/ OpEffect(t) = Move(a, ArbIdle, ArbAave, a[ArbIdle])
          \/ n \in Nat /\ n <= a[ArbAave] /\ OpEffect(t) = Move(a, ArbAave, ArbIdle, n)
      BY <3>1, OpIsMove
    <3>3. a \in Account /\ \A l \in Location : a[l] \in Nat /\ a[l] <= a[l]
      BY <1>6, <3>1
    <3>4. Keeps(a, OpEffect(t))
      <4> HIDE DEF a, n
      <4> QED  BY <1>5, <3>2, <3>3, EngineMoveKeeps
    <3> QED  BY <1>1, <3>1, <3>4, OneOwnerKeeps
  <2>2. CASE TransferAttested(t) \/ TransferUnseen(t)
    <3>1. PICK fee \in Fees : Attests(t, fee)
      BY <2>2 DEF TransferAttested, TransferUnseen
    <3>2. /\ u \in Users /\ a \in Account /\ n \in Nat /\ fee \in Nat
          /\ CanAttest(a, "arc", n, fee)
          /\ funds' = [ funds EXCEPT ![u] = Attest(a, "arc", "arb", n, fee) ]
      BY <1>1, <1>3, <1>4, <3>1, EngineAssumption DEF Attests
    <3>3. Keeps(a, Attest(a, "arc", "arb", n, fee))
      <4>1. /\ "arc" \in Chain /\ "arb" \in Chain
            /\ EscrowOn("arc") = "arc_escrow" /\ AttestedFor("arb") = "arb_attested"
            /\ {"arb_escrow", "arc_attested"} \subseteq Location
        BY DEF Chain, EscrowOn, AttestedFor, Location
      <4> HIDE DEF a, n
      <4> QED  BY <3>2, <4>1, AttestType, AttestKeepsTotal DEF Keeps
    <3> QED  BY <1>1, <3>2, <3>3, OneOwnerKeeps
  <2>3. CASE SendMintStep(t)
    <3>1. /\ u \in Users /\ n \in Nat /\ CanMint(a, "arb", n)
          /\ funds' = [ funds EXCEPT ![u] = SendMint(a, "arb", n) ]
      BY <1>1, <1>3, <1>4, <2>3 DEF SendMintStep
    <3>2. SendMint(a, "arb", n) = Move(a, "arb_attested", "arb_minting", n)
      BY DEF SendMint, AttestedFor, MintingOn
    <3>3. a \in Account /\ a["arb_attested"] \in Nat
      BY <1>5, <1>6, <3>1
    <3>4. n <= a["arb_attested"]
      BY <3>1, <3>3 DEF CanMint, AttestedFor
    <3>5. Keeps(a, SendMint(a, "arb", n))
      <4> HIDE DEF a, n
      <4> QED  BY <1>5, <3>1, <3>2, <3>3, <3>4, EngineMoveKeeps
    <3> QED  BY <1>1, <3>1, <3>5, OneOwnerKeeps
  <2>4. CASE BuildOp(t) \/ OpReverts(t) \/ OpStale(t) \/ StepFails(t) \/ Report(t)
               \/ ReportFails(t)
    BY <1>2, <2>4 DEF BuildOp, OpReverts, OpStale, StepFails, Report, ReportFails
  <2> QED  BY <1>9, <2>1, <2>2, <2>3, <2>4 DEF ExecStep
<1>10. CASE OwnerStep
  <2>1. PICK u \in Users :
          \/ \E b \in Bodies, s \in {"active", "paused"} : PutPolicy(u, b, s)
          \/ \E s \in {"active", "paused"} : PauseOrResume(u, s)
          \/ ResumeByChat(u)
          \/ RunOnce(u)
          \/ \E c \in Chain, n \in Amounts : Fund(u, c, n)
    BY <1>10, OwnerKinds
  <2>2. ASSUME NEW c \in Chain, NEW n \in Amounts, Fund(u, c, n)
        PROVE  \A w \in Users : Keeps(funds[w], funds'[w])
    <3>1. n \in Nat /\ IdleOn(c) \in {ArcIdle, ArbIdle} /\ n <= funds[u]["wallet"]
      BY <2>2, EngineAssumption, Places DEF Fund
    <3>2. funds' = [ funds EXCEPT ![u] = Move(funds[u], "wallet", IdleOn(c), n) ]
      BY <1>1, <2>2 DEF Fund
    <3>3. Keeps(funds[u], Move(funds[u], "wallet", IdleOn(c), n))
      BY <1>5, <1>6, <3>1, EngineMoveKeeps
    <3> QED  BY <1>1, <3>2, <3>3, OneOwnerKeeps
  <2> QED  BY <1>2, <2>1, <2>2 DEF PutPolicy, PauseOrResume, ResumeByChat,
                                   SetStatus, RunOnce
<1>11. CASE WorldStep
  <2>1. ASSUME NEW u \in Users, MintLands(u) \/ MintDropped(u)
        PROVE  \A w \in Users : Keeps(funds[w], funds'[w])
    <3> DEFINE a == funds[u]
               n == a["arb_minting"]
    <3>1. a \in Account /\ n \in Nat /\ n <= a["arb_minting"]
      BY <1>5, <1>6
    <3>2. /\ LandMint(a, "arb", n) = Move(a, "arb_minting", ArbIdle, n)
          /\ DropMint(a, "arb", n) = Move(a, "arb_minting", "arb_attested", n)
      BY DEF LandMint, DropMint, MintingOn, IdleOn, AttestedFor
    <3>3. \/ funds' = [ funds EXCEPT ![u] = LandMint(a, "arb", n) ]
          \/ funds' = [ funds EXCEPT ![u] = DropMint(a, "arb", n) ]
      BY <1>1, <2>1 DEF MintLands, MintDropped
    <3>4. Keeps(a, LandMint(a, "arb", n)) /\ Keeps(a, DropMint(a, "arb", n))
      <4> HIDE DEF a, n
      <4> QED  BY <1>5, <3>1, <3>2, EngineMoveKeeps
    <3> QED  BY <1>1, <3>3, <3>4, OneOwnerKeeps
  <2> QED  BY <1>2, <1>11, <2>1 DEF WorldStep, Pass, Publish, Crash
<1>12. CASE UNCHANGED vars
  BY <1>2, <1>12 DEF vars
<1> QED  BY <1>7, <1>8, <1>9, <1>10, <1>11, <1>12 DEF Next, TaskStep

-----------------------------------------------------------------------------
(* What the calls of an exit do to the money of its owner.                 *)

Calls == { "unsupply", "deposit", "attest", "mint", "pay", "built" }

LEMMA CallIsMove ==
  ASSUME ExitInv, NEW e \in Exits, epc[e] \in Calls, NEW b \in Outcomes(e)
  PROVE  LET a == Holds(e)
             n == exit[e].amount
         IN  \/ epc[e] = "unsupply" /\ b = Move(a, ArbAave, ArbIdle, a[ArbAave])
             \/ epc[e] = "deposit" /\ n <= a[ArbIdle] /\ b = Move(a, ArbIdle, "arb_escrow", n)
             \/ /\ epc[e] = "attest" /\ CanSign(e)
                /\ \E fee \in Fees : /\ CanAttest(a, Source(e), n, fee)
                                     /\ b = Attest(a, Source(e), Target(e), n, fee)
             \/ /\ epc[e] = "mint" /\ n <= a[AttestedFor(Target(e))]
                /\ b = Move(a, AttestedFor(Target(e)), MintingOn(Target(e)), n)
             \/ epc[e] = "pay" /\ n <= a[ArcIdle] /\ b = Move(a, ArcIdle, "wallet", n)
             \/ epc[e] = "built" /\ n <= a[ArbIdle] /\ b = Move(a, ArbIdle, ArbAave, n)
<1> DEFINE a == Holds(e)
           n == exit[e].amount
<1>1. /\ n \in Nat /\ a[ArbIdle] \in Nat /\ a[ArcIdle] \in Nat
      /\ a[AttestedFor(Target(e))] \in Nat
  <2>1. exit[e] \in Exit /\ epc[e] # "idle" /\ exit[e].who \in Users /\ TypeOK
    BY DEF ExitInv, ExitTypeOK, OnPath, Calls
  <2>2. a \in Account
    BY <2>1 DEF TypeOK, Holds, Owner
  <2>3. {ArbIdle, ArcIdle, AttestedFor(Target(e))} \subseteq Location
    BY DEF Location, AttestedFor
  <2>4. n \in Nat
    BY <2>1 DEF Exit
  <2> HIDE DEF a
  <2> QED  BY <2>2, <2>3, <2>4 DEF Account
<1>2. CASE epc[e] = "unsupply"
  BY <1>2 DEF Outcomes, If, Withdraw
<1>3. CASE epc[e] = "deposit"
  <2>1. b = Deposit(a, "arb", n) /\ CanDeposit(a, "arb", n)
    BY <1>3 DEF Outcomes, If
  <2> QED  BY <1>1, <1>3, <2>1 DEF Deposit, CanDeposit, IdleOn, EscrowOn
<1>4. CASE epc[e] = "attest"
  BY <1>4 DEF Outcomes
<1>5. CASE epc[e] = "mint"
  <2>1. b = SendMint(a, Target(e), n) /\ CanMint(a, Target(e), n)
    BY <1>5 DEF Outcomes, If
  <2> QED  BY <1>1, <1>5, <2>1 DEF SendMint, CanMint
<1>6. CASE epc[e] = "pay"
  <2>1. b = Move(a, ArcIdle, "wallet", n) /\ a[ArcIdle] >= n
    BY <1>6 DEF Outcomes, If
  <2> QED  BY <1>1, <1>6, <2>1
<1>7. CASE epc[e] = "built"
  <2>1. b = Move(a, ArbIdle, ArbAave, n) /\ a[ArbIdle] >= n
    BY <1>7 DEF Outcomes, If
  <2> QED  BY <1>1, <1>7, <2>1
<1> QED  BY <1>2, <1>3, <1>4, <1>5, <1>6, <1>7 DEF Calls

(* Where the money goes, as far as the properties ask.                     *)
LEMMA CallMoves ==
  ASSUME ExitInv, NEW e \in Exits, epc[e] \in Calls, NEW b \in Outcomes(e)
  PROVE  LET a == Holds(e)
             n == exit[e].amount
         IN  /\ b \in Account /\ Wealth(b) = Wealth(a)
             /\ b["wallet"] = IF epc[e] = "pay" THEN a["wallet"] + n ELSE a["wallet"]
             /\ epc[e] \notin {"deposit", "attest"} => b["arb_escrow"] = a["arb_escrow"]
             /\ epc[e] = "deposit" => b["arb_escrow"] = a["arb_escrow"] + n
             /\ epc[e] \notin {"attest", "mint"} => b["arc_attested"] = a["arc_attested"]
             /\ epc[e] = "mint" /\ e \in Withdraws =>
                  n <= a["arc_attested"] /\ b["arc_attested"] = a["arc_attested"] - n
             /\ epc[e] = "attest" /\ e \in Withdraws =>
                  /\ Owner(e) \in delegates
                  /\ \E fee \in Nat : /\ n + fee <= a["arb_escrow"]
                                      /\ b["arb_escrow"] = a["arb_escrow"] - n - fee
                  /\ b["arc_attested"] = a["arc_attested"] + n
             /\ epc[e] \in {"attest", "mint"} /\ e \notin Withdraws =>
                  /\ b["arb_escrow"] = a["arb_escrow"]
                  /\ b["arc_attested"] = a["arc_attested"]
<1> DEFINE a == Holds(e)
           n == exit[e].amount
<1>1. exit[e] \in Exit /\ epc[e] # "idle" /\ exit[e].who \in Users /\ TypeOK
  BY DEF ExitInv, ExitTypeOK, OnPath, Calls
<1>2. a \in Account /\ n \in Nat
  BY <1>1 DEF TypeOK, Holds, Owner, Exit
<1>3. /\ {ArcIdle, ArbIdle, ArbAave, "arb_escrow", "arc_attested", "wallet"} \subseteq Location
      /\ ArbAave \notin { ArbIdle, "arb_escrow", "arc_attested", "wallet" }
      /\ ArbIdle \notin { ArbAave, "arb_escrow", "arc_attested", "wallet" }
      /\ ArcIdle \notin { "arb_escrow", "arc_attested", "wallet" }
  BY DEF Location, ArcIdle, ArbIdle, ArbAave
<1>4. a[ArbAave] \in Nat /\ a[ArbAave] <= a[ArbAave]
  <2>1. a[ArbAave] \in Nat
    BY <1>2, <1>3 DEF Account
  <2> QED  BY <2>1
<1>5. CASE epc[e] = "unsupply"
  <2>1. b = Move(a, ArbAave, ArbIdle, a[ArbAave])
    BY <1>5, CallIsMove
  <2> HIDE DEF a
  <2>2. /\ b \in Account /\ Wealth(b) = Wealth(a)
        /\ \A l \in {"wallet", "arb_escrow", "arc_attested"} : b[l] = a[l]
    BY <1>2, <1>3, <1>4, <2>1, MoveType, MoveKeepsTotal
  <2> QED  BY <1>5, <2>2 DEF a
<1>6. CASE epc[e] = "deposit"
  <2>1. n <= a[ArbIdle] /\ b = Move(a, ArbIdle, "arb_escrow", n)
    BY <1>6, CallIsMove
  <2> HIDE DEF a, n
  <2>2. /\ b \in Account /\ Wealth(b) = Wealth(a)
        /\ \A l \in {"wallet", "arc_attested"} : b[l] = a[l]
        /\ b["arb_escrow"] = a["arb_escrow"] + n
    BY <1>2, <1>3, <2>1, MoveType, MoveKeepsTotal
  <2> QED  BY <1>6, <2>2 DEF a, n
<1>7. CASE epc[e] = "attest"
  <2>1. CanSign(e) /\ Source(e) \in Chain /\ Target(e) \in Chain
    BY <1>7, CallIsMove DEF Source, Target, Chain
  <2>2. PICK fee \in Fees : /\ CanAttest(a, Source(e), n, fee)
                            /\ b = Attest(a, Source(e), Target(e), n, fee)
    BY <1>7, CallIsMove
  <2>3. fee \in Nat
    BY EngineAssumption
  <2> DEFINE from == EscrowOn(Source(e))
             to   == AttestedFor(Target(e))
  <2>4. /\ b \in Account /\ Wealth(b) = Wealth(a) /\ n + fee <= a[from]
        /\ b[from] = a[from] - n - fee /\ b[to] = a[to] + n
        /\ \A l \in Location \ {from, to, "fees"} : b[l] = a[l]
    <3> HIDE DEF a, n
    <3> QED  BY <1>2, <2>1, <2>2, <2>3, AttestType, AttestKeepsTotal
  <2>5. CASE e \in Withdraws
    <3>1. from = "arb_escrow" /\ to = "arc_attested" /\ Owner(e) \in delegates
      BY <2>1, <2>5 DEF Source, Target, EscrowOn, AttestedFor, CanSign
    <3>2. b["wallet"] = a["wallet"]
      BY <1>3, <2>4, <3>1
    <3> HIDE DEF a, n
    <3> QED  BY <1>7, <2>3, <2>4, <2>5, <3>1, <3>2 DEF a, n
  <2>6. CASE e \notin Withdraws
    <3>1. from = "arc_escrow" /\ to = "arb_attested"
      BY <2>6 DEF Source, Target, EscrowOn, AttestedFor
    <3>2. \A l \in {"wallet", "arb_escrow", "arc_attested"} : b[l] = a[l]
      BY <1>3, <2>4, <3>1
    <3> QED  BY <1>7, <2>4, <2>6, <3>2
  <2> QED  BY <2>5, <2>6
<1>8. CASE epc[e] = "mint"
  <2> DEFINE to   == AttestedFor(Target(e))
             next == MintingOn(Target(e))
  <2>1. n <= a[to] /\ b = Move(a, to, next, n)
    BY <1>8, CallIsMove
  <2>2. /\ to \in Location /\ next \in Location /\ to # next
        /\ next \notin { "wallet", "arb_escrow", "arc_attested" }
        /\ to \notin { "wallet", "arb_escrow" }
        /\ to = "arc_attested" <=> e \in Withdraws
    BY DEF AttestedFor, MintingOn, Target, Location
  <2> HIDE DEF a, n, to, next
  <2>3. /\ b \in Account /\ Wealth(b) = Wealth(a)
        /\ \A l \in {"wallet", "arb_escrow"} : b[l] = a[l]
        /\ e \in Withdraws => b["arc_attested"] = a["arc_attested"] - n
        /\ e \notin Withdraws => b["arc_attested"] = a["arc_attested"]
    BY <1>2, <1>3, <2>1, <2>2, MoveType, MoveKeepsTotal
  <2> QED  BY <1>8, <2>1, <2>2, <2>3 DEF a, n
<1>9. CASE epc[e] = "pay"
  <2>1. n <= a[ArcIdle] /\ b = Move(a, ArcIdle, "wallet", n)
    BY <1>9, CallIsMove
  <2> HIDE DEF a, n
  <2>2. /\ b \in Account /\ Wealth(b) = Wealth(a)
        /\ \A l \in {"arb_escrow", "arc_attested"} : b[l] = a[l]
        /\ b["wallet"] = a["wallet"] + n
    BY <1>2, <1>3, <2>1, MoveType, MoveKeepsTotal
  <2> QED  BY <1>9, <2>2 DEF a, n
<1>10. CASE epc[e] = "built"
  <2>1. n <= a[ArbIdle] /\ b = Move(a, ArbIdle, ArbAave, n)
    BY <1>10, CallIsMove
  <2> HIDE DEF a, n
  <2>2. /\ b \in Account /\ Wealth(b) = Wealth(a)
        /\ \A l \in {"wallet", "arb_escrow", "arc_attested"} : b[l] = a[l]
    BY <1>2, <1>3, <2>1, MoveType, MoveKeepsTotal
  <2> QED  BY <1>10, <2>2 DEF a
<1> QED  BY <1>5, <1>6, <1>7, <1>8, <1>9, <1>10 DEF Calls

-----------------------------------------------------------------------------
(* Every step keeps the invariant.  Its parts:                             *)
EngineKept == TypeOK' /\ PolicyInv' /\ TasksInv'

ExitsKept ==
  /\ epc' \in [ Exits -> ExitLabel ] /\ exit' \in [ Exits -> Exit ]
  /\ \A f \in Exits : OnPath(f)'
  /\ delegates' \subseteq Users /\ hit' \subseteq Users /\ failed' \in BOOLEAN
  /\ stranded' \in [ Users -> Nat ]

LedgerOK ==
  /\ deposits \in [ Users -> Nat ]
  /\ followed \subseteq Users
  /\ txs \in [ Users -> SUBSET Tx ] /\ \A u \in Users : IsFiniteSet(txs[u])
  /\ events \subseteq FundingEvent(Users, Chain, Nat) /\ IsFiniteSet(events)

LEMMA InvParts ==
  /\ ExitInv => LedgerOK /\ ExitTypeOK /\ TypeOK /\ PolicyInv /\ TasksInv
  /\ EngineKept /\ ExitsKept /\ LedgerOK' => ExitInv'
BY DEF ExitInv, ExitTypeOK, EngineKept, ExitsKept, LedgerOK, FiniteLedger

LEMMA SameLedger == ASSUME LedgerOK, UNCHANGED ledger  PROVE  LedgerOK'
BY DEF LedgerOK, ledger

(* A call under way pays.                                                  *)
LEMMA CallPays ==
  ASSUME ExitInv, NEW e \in Exits, epc[e] \in Calls, NEW b \in Outcomes(e), Pays(e, b)
  PROVE  /\ funds' \in [ Users -> Account ]
         /\ Owner(e) \in Users /\ funds'[Owner(e)] = b
         /\ \A w \in Users \ {Owner(e)} : funds'[w] = funds[w]
<1>1. b \in Account
  BY CallMoves
<1>2. funds \in [ Users -> Account ]
  BY DEF ExitInv, ExitTypeOK, TypeOK
<1>3. Owner(e) \in Users
  BY DEF ExitInv, OnPath, Calls, Owner
<1> QED  BY <1>1, <1>2, <1>3 DEF Pays

LEMMA NewTxType ==
  ASSUME LedgerOK, NEW u \in Users, NEW c \in Chain, NEW kind \in Kind, NEW n \in Nat,
         NEW ok \in BOOLEAN
  PROVE  /\ NewTx(u, c, kind, n, ok) \in Tx
         /\ txs[u] \cup { NewTx(u, c, kind, n, ok) } \subseteq Tx
         /\ IsFiniteSet(txs[u] \cup { NewTx(u, c, kind, n, ok) })
         /\ NewTx(u, c, kind, n, ok).id = Cardinality(txs[u]) + 1
         /\ Cardinality(txs[u]) \in Nat
<1>1. IsFiniteSet(txs[u]) /\ txs[u] \subseteq Tx
  BY DEF LedgerOK
<1>2. Cardinality(txs[u]) \in Nat
  BY <1>1, FS_CardinalityType
<1>3. NewTx(u, c, kind, n, ok) \in Tx
  BY <1>2 DEF NewTx, Tx
<1>4. IsFiniteSet(txs[u] \cup { NewTx(u, c, kind, n, ok) })
  BY <1>1, FS_AddElement
<1> QED  BY <1>1, <1>2, <1>3, <1>4 DEF NewTx

(* An event as it is appended.                                             *)
Appended(u, x) == [ EventOf(u, x) EXCEPT !.id = NextId(events) ]

LEMMA AppendType ==
  ASSUME LedgerOK, NEW u \in Users, NEW x \in txs[u],
         events' = AppendEvent(events, EventOf(u, x))
  PROVE  /\ events' \subseteq FundingEvent(Users, Chain, Nat) /\ IsFiniteSet(events')
         /\ IF Recorded(events, EventOf(u, x))
              THEN events' = events ELSE events' = events \cup { Appended(u, x) }
         /\ Appended(u, x).user = u /\ Appended(u, x).kind = x.kind
         /\ Appended(u, x).amount = x.amount /\ Appended(u, x).chain = x.chain
         /\ Appended(u, x).tx = x.id
         /\ ~Recorded(events, EventOf(u, x)) => Appended(u, x) \notin events
         /\ Appended(u, x) \in FundingEvent(Users, Chain, Nat)
<1>1. IsFiniteSet(events) /\ events \subseteq FundingEvent(Users, Chain, Nat) /\ x \in Tx
  BY DEF LedgerOK
<1>2. NextId(events) \in Nat \ {0}
  BY <1>1, FS_CardinalityType DEF NextId
<1>3. /\ Appended(u, x) \in FundingEvent(Users, Chain, Nat)
      /\ Appended(u, x).user = u /\ Appended(u, x).kind = x.kind
      /\ Appended(u, x).amount = x.amount /\ Appended(u, x).chain = x.chain
      /\ Appended(u, x).tx = x.id
  BY <1>1, <1>2 DEF Appended, EventOf, FundingEvent, Tx
<1>4. IF Recorded(events, EventOf(u, x))
        THEN events' = events ELSE events' = events \cup { Appended(u, x) }
  BY DEF AppendEvent, Insert, Appended
<1>5. IsFiniteSet(events \cup { Appended(u, x) })
  BY <1>1, FS_AddElement
<1>6. Key(Appended(u, x)) = Key(EventOf(u, x))
  BY <1>3 DEF Key, EventOf
<1>7. ~Recorded(events, EventOf(u, x)) => Appended(u, x) \notin events
  BY <1>6 DEF Recorded
<1>8. events' \subseteq FundingEvent(Users, Chain, Nat) /\ IsFiniteSet(events')
  BY <1>1, <1>3, <1>4, <1>5
<1> QED  BY <1>3, <1>4, <1>7, <1>8

LEMMA EngineStepInv == ASSUME ExitInv, EngineStep  PROVE  ExitInv'
<1>1. TypeOK /\ PolicyInv /\ TasksInv /\ LedgerOK /\ ExitTypeOK
  BY InvParts
<1>2. Next /\ [Next]_vars
  BY DEF EngineStep
<1>3. EngineKept
  BY <1>1, <1>2, NextType, NextPolicy, NextTasks DEF EngineKept
<1>4. LedgerOK'
  BY <1>1, SameLedger DEF EngineStep
<1>5. ExitsKept
  <2>1. \A e \in Exits : /\ exit[e] \in Exit /\ OnPath(e)
                         /\ [ exit[e] EXCEPT !.fresh = FALSE ] \in Exit
                         /\ [ exit[e] EXCEPT !.fresh = FALSE ].who = exit[e].who
                         /\ [ exit[e] EXCEPT !.fresh = FALSE ].supply = exit[e].supply
    BY <1>1, ExitFields DEF ExitTypeOK, ExitInv
  <2>2. \A e \in Exits : /\ exit'[e] \in Exit /\ exit'[e].who = exit[e].who
                         /\ exit'[e].supply = exit[e].supply
    <3> TAKE e \in Exits
    <3>1. exit'[e] = exit[e] \/ exit'[e] = [ exit[e] EXCEPT !.fresh = FALSE ]
      BY DEF EngineStep
    <3> QED  BY <2>1, <3>1
  <2>3. exit' \in [ Exits -> Exit ]
    <3>1. DOMAIN exit' = Exits /\ exit' = [ e \in Exits |-> exit'[e] ]
      BY DEF EngineStep
    <3> QED  BY <2>2, <3>1
  <2>4. epc' = epc /\ UNCHANGED << delegates, hit, failed, stranded >>
    BY DEF EngineStep
  <2>5. \A f \in Exits : OnPath(f)'
    BY <2>1, <2>2, <2>4 DEF OnPath
  <2> QED  BY <1>1, <2>3, <2>4, <2>5 DEF ExitsKept, ExitTypeOK
<1> QED  BY <1>3, <1>4, <1>5, InvParts

(* A request that starts.                                                  *)
LEMMA AskInv ==
  ASSUME ExitInv, NEW u \in Users, AskExit(u)
  PROVE  /\ ExitInv' /\ UNCHANGED << vars, delegates, hit, stranded, ledger >>
         /\ \E e \in Exits : /\ epc[e] = "idle" /\ OthersWait(e)
                             /\ e \in Withdraws => epc'[e] \in {"unsupply", "arb"}
                             /\ e \in Recovers  => epc'[e] = "attest"
                             /\ e \in Sends     => epc'[e] = "pay" /\ exit'[e].who = u
<1>1. ExitTypeOK /\ LedgerOK
  BY InvParts
<1>2. funds[u] \in Account /\ funds[u][ArcIdle] \in Nat
  <2>1. funds[u] \in Account /\ ArcIdle \in Location
    BY <1>1 DEF ExitTypeOK, TypeOK, Location
  <2> QED  BY <2>1 DEF Account
<1>3. PICK e \in Exits, n \in Nat, supply \in BOOLEAN,
           first \in {"unsupply", "arb", "attest", "pay"} :
        /\ Ask(e, u, n, supply, first) /\ first \in Path(e)
        /\ e \in Withdraws => supply = FALSE /\ first \in {"unsupply", "arb"}
        /\ e \in Recovers  => first = "attest"
        /\ e \in Sends     => first = "pay"
  <2>1. CASE AskWithdraw(u)
    <3>1. PICK e \in Withdraws :
             Ask(e, u, 0, FALSE, IF funds[u][ArbAave] > 0 THEN "unsupply" ELSE "arb")
      BY <2>1 DEF AskWithdraw
    <3>2. /\ e \in Exits /\ {"unsupply", "arb"} \subseteq Path(e)
          /\ e \notin Sends /\ e \notin Recovers
      BY ExitsAssumption DEF Exits, Path
    <3> QED  BY <3>1, <3>2
  <2>2. CASE AskSend(u)
    <3>1. PICK e \in Sends : Ask(e, u, funds[u][ArcIdle], FALSE, "pay")
      BY <2>2 DEF AskSend
    <3>2. e \in Exits /\ "pay" \in Path(e) /\ e \notin Withdraws /\ e \notin Recovers
      BY ExitsAssumption DEF Exits, Path
    <3> QED  BY <1>2, <3>1, <3>2
  <2>3. CASE \E n \in RecoverAmounts, supply \in BOOLEAN : AskRecover(u, n, supply)
    <3>1. PICK n \in RecoverAmounts, supply \in BOOLEAN, e \in Recovers :
             Ask(e, u, n, supply, "attest")
      BY <2>3 DEF AskRecover
    <3>2. e \in Exits /\ "attest" \in Path(e) /\ n \in Nat /\ e \notin Withdraws
          /\ e \notin Sends
      BY ExitsAssumption DEF Exits, Path
    <3> QED  BY <3>1, <3>2
  <2> QED  BY <2>1, <2>2, <2>3 DEF AskExit
<1>4. /\ epc[e] = "idle" /\ Step(e, first)
      /\ exit' = [ exit EXCEPT ![e] = NewExit(u, n, supply) ]
      /\ failed' = FALSE /\ UNCHANGED << vars, delegates, hit, stranded, ledger >>
  BY <1>3 DEF Ask
<1>5. /\ NewExit(u, n, supply) \in Exit /\ NewExit(u, n, supply).who = u
      /\ NewExit(u, n, supply).supply = supply
  BY NewExitType
<1>6. /\ epc' \in [ Exits -> ExitLabel ] /\ exit' \in [ Exits -> Exit ]
      /\ \A f \in Exits : OnPath(f)'
      /\ OthersWait(e) /\ epc'[e] = first /\ exit'[e] = NewExit(u, n, supply)
  BY <1>3, <1>4, <1>5, StepExits
<1>7. ExitsKept
  BY <1>1, <1>4, <1>6 DEF ExitsKept, ExitTypeOK
<1>8. EngineKept /\ LedgerOK'
  BY <1>1, <1>4, SameEngine, SameLedger DEF EngineKept
<1>9. ExitInv'
  BY <1>7, <1>8, InvParts
<1> QED  BY <1>3, <1>4, <1>5, <1>6, <1>9

(* Where a call that worked, or seemed to, takes its exit.                 *)
LEMMA AfterExits ==
  ASSUME ExitInv, NEW e \in Exits, epc[e] \in { "unsupply", "deposit", "attest", "mint" },
         After(e, Following(e))
  PROVE  /\ epc' \in [ Exits -> ExitLabel ] /\ exit' \in [ Exits -> Exit ]
         /\ \A f \in Exits : OnPath(f)'
         /\ OthersWait(e) /\ epc'[e] = Following(e)
         /\ epc'[e] # "idle" => exit'[e] = exit[e]
         /\ e \in Withdraws /\ epc[e] = "mint" => Following(e) = "idle"
<1>1. exit[e] \in Exit /\ exit \in [ Exits -> Exit ] /\ OnPath(e)
  BY DEF ExitInv, ExitTypeOK
<1>2. /\ Following(e) \in Path(e) \cup {"idle"}
      /\ e \in Withdraws /\ epc[e] = "mint" => Following(e) = "idle"
  <2>1. CASE epc[e] = "unsupply"
    BY <1>1, <2>1 DEF Following, OnPath, Path
  <2>2. CASE epc[e] = "deposit"
    BY <1>1, <2>2 DEF Following, OnPath, Path
  <2>3. CASE epc[e] = "attest"
    BY <1>1, <2>3 DEF Following, OnPath, Path
  <2>4. CASE epc[e] = "mint"
    BY <1>1, <2>4 DEF Following, OnPath, Path
  <2> QED  BY <2>1, <2>2, <2>3, <2>4
<1>3. CASE Following(e) = "idle"
  <2>1. End(e)
    BY <1>3 DEF After
  <2> QED  BY <1>2, <1>3, <2>1, EndExits
<1>4. CASE Following(e) # "idle"
  <2>1. Step(e, Following(e)) /\ exit' = exit
    BY <1>4 DEF After
  <2>2. exit' = [ exit EXCEPT ![e] = exit[e] ]
    BY <1>1, <2>1
  <2>3. exit[e].who \in Users /\ (e \in Withdraws => exit[e].supply = FALSE)
    BY <1>1 DEF OnPath
  <2> QED  BY <1>1, <1>2, <2>1, <2>2, <2>3, StepExits
<1> QED  BY <1>3, <1>4

LEMMA PaidLedger ==
  ASSUME ExitInv, NEW e \in Exits, epc[e] = "pay", NEW ok \in BOOLEAN, Paid(e, ok),
         UNCHANGED deposits
  PROVE  /\ LedgerOK'
         /\ epc' \in [ Exits -> ExitLabel ] /\ exit' \in [ Exits -> Exit ]
         /\ \A f \in Exits : OnPath(f)'
         /\ OthersWait(e) /\ epc'[e] \in {"book", "idle"}
<1> DEFINE u == Owner(e)
           x == NewTx(u, "arc", "withdraw_to_eoa", exit[e].amount, ok)
<1>1. /\ LedgerOK /\ u \in Users /\ exit[e] \in Exit /\ exit \in [ Exits -> Exit ]
      /\ exit[e].amount \in Nat /\ OnPath(e) /\ epc[e] \in Path(e)
  <2>1. ExitTypeOK /\ OnPath(e) /\ LedgerOK
    BY InvParts DEF ExitInv
  <2> QED  BY <2>1 DEF ExitTypeOK, OnPath, Owner, Exit
<1>2. "arc" \in Chain /\ "withdraw_to_eoa" \in Kind
  BY DEF Chain, Kind
<1>3. /\ x \in Tx /\ x.id \in Nat
      /\ txs[u] \cup {x} \subseteq Tx /\ IsFiniteSet(txs[u] \cup {x})
  <2>1. x \in Tx /\ txs[u] \cup {x} \subseteq Tx /\ IsFiniteSet(txs[u] \cup {x})
    BY <1>1, <1>2, NewTxType
  <2> QED  BY <2>1 DEF Tx
<1>4. "book" \in Path(e)
  BY <1>1 DEF Path
<1> HIDE DEF x
<1>5. CASE u \in followed /\ Cardinality(Payments(u)) < MaxPayments
  <2>1. /\ txs' = [ txs EXCEPT ![u] = txs[u] \cup {x} ]
        /\ exit' = [ exit EXCEPT ![e] = [ exit[e] EXCEPT !.tx = x.id ] ]
        /\ Step(e, "book") /\ UNCHANGED << followed, events >>
    BY <1>1, <1>5 DEF Paid, x
  <2>2. LedgerOK'
    BY <1>1, <1>3, <2>1 DEF LedgerOK
  <2>3. /\ [ exit[e] EXCEPT !.tx = x.id ] \in Exit
        /\ [ exit[e] EXCEPT !.tx = x.id ].who = exit[e].who
        /\ [ exit[e] EXCEPT !.tx = x.id ].supply = exit[e].supply
    BY <1>1, <1>3, ExitFields
  <2>4. exit[e].who \in Users /\ (e \in Withdraws => exit[e].supply = FALSE)
    BY <1>1 DEF OnPath, Owner
  <2> QED  BY <1>4, <2>1, <2>2, <2>3, <2>4, StepExits
<1>6. CASE ~(u \in followed /\ Cardinality(Payments(u)) < MaxPayments)
  <2>1. /\ followed' = followed \ {u} /\ txs' = [ txs EXCEPT ![u] = {} ]
        /\ events' = { v \in events : v.user # u } /\ End(e)
    BY <1>6 DEF Paid
  <2>2. IsFiniteSet({}) /\ IsFiniteSet(events')
    BY <1>1, <2>1, FS_EmptySet, FS_Subset DEF LedgerOK
  <2>3. LedgerOK'
    BY <1>1, <2>1, <2>2 DEF LedgerOK
  <2> QED  BY <2>1, <2>3, EndExits
<1> QED  BY <1>5, <1>6

LEMMA ExitStepInv ==
  ASSUME ExitInv, NEW e \in Exits, ExitStep(e)  PROVE  ExitInv'
<1>1. /\ TypeOK /\ LedgerOK /\ ExitTypeOK /\ OnPath(e) /\ exit[e] \in Exit
      /\ exit \in [ Exits -> Exit ] /\ job \in [ Tasks -> Job ]
  BY InvParts DEF ExitInv, ExitTypeOK, TypeOK
<1>2. epc[e] # "idle" => Owner(e) \in Users
  BY <1>1 DEF OnPath, Owner
<1>3. ASSUME UNCHANGED vars, LedgerOK', ExitsKept  PROVE  ExitInv'
  BY <1>3, SameEngine, InvParts DEF EngineKept
<1>4. UNCHANGED ledger => LedgerOK'
  BY <1>1, SameLedger
<1>5. UNCHANGED delegates => delegates' \subseteq Users
  BY <1>1 DEF ExitTypeOK
<1>6. UNCHANGED hit => hit' \subseteq Users
  BY <1>1 DEF ExitTypeOK
<1>7. /\ UNCHANGED failed => failed' \in BOOLEAN
      /\ UNCHANGED stranded => stranded' \in [ Users -> Nat ]
  BY <1>1 DEF ExitTypeOK
<1>8. CASE Moves(e)
  <2>1. PICK b \in Outcomes(e) : Pays(e, b)
    BY <1>8 DEF Moves
  <2>2. funds' \in [ Users -> Account ]
    BY <1>8, <2>1, CallPays DEF Moves, Calls
  <2>3. EngineKept
    BY <1>8, <2>2, EngineFrame DEF Moves, Others, EngineKept
  <2>4. ExitsKept
    BY <1>5, <1>6, <1>7, <1>8, AfterExits DEF Moves, ExitsKept
  <2>5. LedgerOK'
    BY <1>4, <1>8 DEF Moves
  <2> QED  BY <2>3, <2>4, <2>5, InvParts
<1>9. CASE Refused(e)
  BY <1>3, <1>4, <1>5, <1>6, <1>7, <1>9, EndExits DEF Refused, ExitsKept
<1>10. CASE RevertsUnseen(e)
  BY <1>3, <1>4, <1>5, <1>6, <1>7, <1>10, AfterExits DEF RevertsUnseen, ExitsKept
<1>11. CASE ReadArb(e)
  <2>1. /\ Owner(e) \in Users /\ epc[e] = "arb"
        /\ UNCHANGED << vars, hit, failed, stranded, ledger >>
    BY <1>2, <1>11 DEF ReadArb
  <2>2. delegates' \subseteq Users
    <3>1. delegates \subseteq Users
      BY <1>1 DEF ExitTypeOK
    <3>2. delegates' \in {delegates, delegates \cup {Owner(e)}}
      BY <1>11 DEF ReadArb
    <3> QED  BY <2>1, <3>1, <3>2
  <2>3. /\ epc' \in [ Exits -> ExitLabel ] /\ exit' \in [ Exits -> Exit ]
        /\ \A f \in Exits : OnPath(f)'
    <3>1. CASE Holds(e)[ArbIdle] = 0
      BY <1>11, <3>1, EndExits DEF ReadArb
    <3>2. CASE Holds(e)[ArbIdle] # 0
      <4> DEFINE n == Holds(e)[ArbIdle]
      <4>1. n \in Nat
        <5>1. funds[Owner(e)] \in Account /\ ArbIdle \in Location
          BY <1>1, <2>1 DEF TypeOK, Location
        <5> QED  BY <5>1 DEF Account, Holds
      <4>2. exit' = [ exit EXCEPT ![e] = [ exit[e] EXCEPT !.amount = n ] ] /\ Step(e, "deposit")
        BY <1>1, <1>11, <3>2 DEF ReadArb
      <4>3. e \in Withdraws /\ "deposit" \in Path(e)
        BY <1>1, <2>1 DEF OnPath, Path
      <4> HIDE DEF n
      <4>4. /\ [ exit[e] EXCEPT !.amount = n ] \in Exit
            /\ [ exit[e] EXCEPT !.amount = n ].who = exit[e].who
            /\ [ exit[e] EXCEPT !.amount = n ].supply = exit[e].supply
        BY <1>1, <4>1, ExitFields
      <4>5. exit[e].who \in Users /\ exit[e].supply = FALSE
        BY <1>1, <2>1, <4>3 DEF OnPath
      <4> QED  BY <4>2, <4>3, <4>4, <4>5, StepExits
    <3> QED  BY <3>1, <3>2
  <2> QED  BY <1>3, <1>4, <1>6, <1>7, <2>1, <2>2, <2>3 DEF ExitsKept
<1>12. CASE Pay(e)
  <2>1. PICK ok \in BOOLEAN :
           /\ Paid(e, ok)
           /\ \/ UNCHANGED funds
              \/ \E b \in Outcomes(e) : Pays(e, b)
    BY <1>12 DEF Pay
  <2>2. /\ epc[e] = "pay" /\ UNCHANGED deposits
        /\ UNCHANGED << delegates, hit, failed, stranded >> /\ UNCHANGED << pc, job >> /\ Others
    BY <1>12 DEF Pay
  <2>3. funds' \in [ Users -> Account ]
    BY <1>1, <2>1, <2>2, CallPays DEF Calls, TypeOK
  <2>4. EngineKept
    BY <2>2, <2>3, EngineFrame DEF Others, EngineKept
  <2>5. ExitsKept /\ LedgerOK'
    BY <1>5, <1>6, <1>7, <2>1, <2>2, PaidLedger DEF ExitsKept
  <2> QED  BY <2>4, <2>5, InvParts
<1>13. CASE Book(e)
  <2>1. /\ epc[e] = "book" /\ End(e) /\ Owner(e) \in Users
        /\ UNCHANGED << vars, delegates, hit, failed, stranded, deposits, followed, txs >>
        /\ \/ UNCHANGED events
           \/ \E x \in txs[Owner(e)] : events' = AppendEvent(events, EventOf(Owner(e), x))
    BY <1>2, <1>13 DEF Book
  <2>2. LedgerOK'
    <3>1. events' \subseteq FundingEvent(Users, Chain, Nat) /\ IsFiniteSet(events')
      BY <1>1, <2>1, AppendType DEF LedgerOK
    <3> QED  BY <1>1, <2>1, <3>1 DEF LedgerOK
  <2> QED  BY <1>3, <1>5, <1>6, <1>7, <2>1, <2>2, EndExits DEF ExitsKept
<1>14. CASE BuildSupply(e)
  <2>1. /\ epc[e] = "build" /\ Step(e, "built")
        /\ exit' = [ exit EXCEPT ![e] = [ exit[e] EXCEPT !.fresh = TRUE ] ]
        /\ UNCHANGED << vars, delegates, hit, failed, stranded, ledger >>
    BY <1>1, <1>14 DEF BuildSupply
  <2>2. "built" \in Path(e) /\ exit[e].who \in Users /\ e \notin Withdraws
    BY <1>1, <2>1 DEF OnPath, Path
  <2>3. /\ [ exit[e] EXCEPT !.fresh = TRUE ] \in Exit
        /\ [ exit[e] EXCEPT !.fresh = TRUE ].who = exit[e].who
    BY <1>1, ExitFields
  <2>4. /\ epc' \in [ Exits -> ExitLabel ] /\ exit' \in [ Exits -> Exit ]
        /\ \A f \in Exits : OnPath(f)'
    BY <2>1, <2>2, <2>3, StepExits
  <2> QED  BY <1>3, <1>4, <1>5, <1>6, <1>7, <2>1, <2>4 DEF ExitsKept
<1>15. CASE SupplyRecovered(e)
  <2>1. /\ epc[e] = "built" /\ Owner(e) \in Users /\ Step(e, "idle") /\ Others
        /\ UNCHANGED << pc, delegates, hit, failed, stranded, ledger >>
        /\ \/ UNCHANGED funds
           \/ \E b \in Outcomes(e) : Pays(e, b)
        /\ \/ SpendsNonce(Owner(e), e)
           \/ exit' = [ exit EXCEPT ![e] = NoExit ] /\ UNCHANGED job
    BY <1>2, <1>15 DEF SupplyRecovered
  <2>2. funds' \in [ Users -> Account ]
    BY <1>1, <2>1, CallPays DEF Calls, TypeOK
  <2>3. EngineKept
    <3>1. CASE UNCHANGED job
      BY <2>1, <2>2, <3>1, EngineFrame DEF Others, EngineKept
    <3>2. CASE SpendsNonce(Owner(e), e)
      <4>1. \A s \in Tasks : /\ job[s] \in Job /\ [ job[s] EXCEPT !.fresh = FALSE ] \in Job
        BY <1>1, JobFields
      <4>2. \A s \in Tasks : job'[s] = job[s] \/ job'[s] = [ job[s] EXCEPT !.fresh = FALSE ]
        BY <3>2 DEF SpendsNonce
      <4>3. job' \in [ Tasks -> Job ]
        <5>1. job' = [ s \in Tasks |-> job'[s] ]
          BY <3>2 DEF SpendsNonce
        <5> QED  BY <4>1, <4>2, <5>1
      <4>4. \A j \in Job : /\ [ j EXCEPT !.fresh = FALSE ].who = j.who
                           /\ [ j EXCEPT !.fresh = FALSE ].version = j.version
                           /\ [ j EXCEPT !.fresh = FALSE ].plan = j.plan
                           /\ [ j EXCEPT !.fresh = FALSE ].gated = j.gated
                           /\ [ j EXCEPT !.fresh = FALSE ].op = j.op
        BY DEF Job
      <4>5. \A s \in Tasks : Carries(s) /\ job'[s].op = job[s].op
        BY <4>1, <4>2, <4>4 DEF Carries
      <4>6. pc' = pc /\ pc \in [ Tasks -> Label ]
        BY <1>1, <2>1 DEF TypeOK
      <4> QED  BY <2>1, <2>2, <4>3, <4>5, <4>6, TasksFrame DEF Others, EngineKept
    <3> QED  BY <2>1, <3>1, <3>2
  <2>4. /\ epc' \in [ Exits -> ExitLabel ] /\ exit' \in [ Exits -> Exit ]
        /\ \A f \in Exits : OnPath(f)'
    <3>1. CASE exit' = [ exit EXCEPT ![e] = NoExit ]
      BY <2>1, <3>1, EndExits DEF End
    <3>2. CASE SpendsNonce(Owner(e), e)
      <4>1. \A f \in Exits : /\ exit[f] \in Exit
                             /\ [ exit[f] EXCEPT !.fresh = FALSE ] \in Exit
                             /\ [ exit[f] EXCEPT !.fresh = FALSE ].who = exit[f].who
                             /\ [ exit[f] EXCEPT !.fresh = FALSE ].supply = exit[f].supply
        BY <1>1, ExitFields
      <4>2. /\ exit'[e] = NoExit
            /\ \A f \in Exits \ {e} : \/ exit'[f] = exit[f]
                                      \/ exit'[f] = [ exit[f] EXCEPT !.fresh = FALSE ]
        BY <3>2 DEF SpendsNonce
      <4>3. exit' = [ f \in Exits |-> exit'[f] ]
        BY <3>2 DEF SpendsNonce
      <4>4. exit' \in [ Exits -> Exit ]
        BY <4>1, <4>2, <4>3, NewExitType
      <4>5. epc \in [ Exits -> ExitLabel ] /\ epc' = [ epc EXCEPT ![e] = "idle" ]
        BY <1>1, <2>1 DEF ExitTypeOK, Step
      <4>6. epc' \in [ Exits -> ExitLabel ]
        BY <4>5, PathLabels
      <4>7. \A f \in Exits : OnPath(f)'
        <5> SUFFICES ASSUME NEW f \in Exits  PROVE  OnPath(f)'
          OBVIOUS
        <5>1. CASE f = e
          BY <4>2, <4>5, <5>1, NewExitType DEF OnPath
        <5>2. CASE f # e
          <6>1. OnPath(f) /\ epc'[f] = epc[f]
            BY <4>5, <5>2 DEF ExitInv
          <6>2. exit'[f].who = exit[f].who /\ exit'[f].supply = exit[f].supply
            BY <4>1, <4>2, <5>2
          <6> QED  BY <6>1, <6>2 DEF OnPath
        <5> QED  BY <5>1, <5>2
      <4> QED  BY <4>4, <4>6, <4>7
    <3> QED  BY <2>1, <3>1, <3>2
  <2> QED  BY <1>4, <1>5, <1>6, <1>7, <2>1, <2>3, <2>4, InvParts DEF ExitsKept
<1>16. CASE CallFails(e)
  <2>1. hit' \subseteq Users
    <3>1. hit \subseteq Users /\ Owner(e) \in Users
      BY <1>1, <1>2, <1>16 DEF ExitTypeOK, CallFails
    <3> QED  BY <1>16, <3>1 DEF CallFails
  <2> QED  BY <1>3, <1>4, <1>5, <1>7, <1>16, <2>1, EndExits DEF CallFails, ExitsKept
<1>17. CASE CallLost(e)
  <2>1. PICK b \in Outcomes(e) : Pays(e, b)
    BY <1>17 DEF CallLost
  <2>2. funds' \in [ Users -> Account ]
    BY <1>17, <2>1, CallPays DEF CallLost, Calls
  <2>3. EngineKept
    BY <1>17, <2>2, EngineFrame DEF CallLost, Others, EngineKept
  <2>4. hit' \subseteq Users
    <3>1. hit \subseteq Users /\ Owner(e) \in Users
      BY <1>1, <1>2, <1>17 DEF ExitTypeOK, CallLost
    <3> QED  BY <1>17, <3>1 DEF CallLost
  <2>5. ExitsKept
    BY <1>5, <1>7, <1>17, <2>4, EndExits DEF CallLost, ExitsKept
  <2>6. LedgerOK'
    BY <1>4, <1>17 DEF CallLost
  <2> QED  BY <2>3, <2>5, <2>6, InvParts
<1>18. CASE TransferRefused(e)
  <2>1. /\ epc[e] = "attest" /\ End(e) /\ Owner(e) \in Users
        /\ UNCHANGED << vars, delegates, hit, failed, ledger >>
    BY <1>2, <1>18 DEF TransferRefused
  <2>2. Holds(e)["arb_escrow"] \in Nat
    <3>1. funds[Owner(e)] \in Account /\ "arb_escrow" \in Location
      BY <1>1, <2>1 DEF TypeOK, Location
    <3> QED  BY <3>1 DEF Account, Holds
  <2>3. stranded' \in [ Users -> Nat ]
    <3>1. stranded \in [ Users -> Nat ]
      BY <1>1 DEF ExitTypeOK
    <3>2. stranded' \in { stranded, [ stranded EXCEPT ![Owner(e)] = Holds(e)["arb_escrow"] ] }
      BY <1>18 DEF TransferRefused
    <3> QED  BY <2>1, <2>2, <3>1, <3>2
  <2> QED  BY <1>3, <1>4, <1>5, <1>6, <1>7, <2>1, <2>3, EndExits DEF ExitsKept
<1> QED  BY <1>8, <1>9, <1>10, <1>11, <1>12, <1>13, <1>14, <1>15, <1>16, <1>17, <1>18
         DEF ExitStep

(* What a chain and the owner's own transactions do.                       *)
LEMMA ArcLands ==
  ASSUME ExitInv, NEW u \in Users, ArcMintLands(u)
  PROVE  /\ funds' \in [ Users -> Account ]
         /\ \A w \in Users \ {u} : funds'[w] = funds[w]
         /\ funds'[u] \in Account /\ Keeps(funds[u], funds'[u])
         /\ funds'[u]["wallet"] = funds[u]["wallet"]
<1> DEFINE a == funds[u]
           n == a["arc_minting"]
<1>1. funds \in [ Users -> Account ] /\ a \in Account
  BY DEF ExitInv, ExitTypeOK, TypeOK
<1>2. /\ {"arb_escrow", "arc_attested", "arc_minting", "wallet", ArcIdle} \subseteq Location
      /\ ArcIdle \notin {"arb_escrow", "arc_attested", "arc_minting", "wallet"}
  BY DEF Location, ArcIdle
<1>3. n \in Nat /\ n <= a["arc_minting"]
  <2>1. n \in Nat
    BY <1>1, <1>2 DEF Account
  <2> QED  BY <2>1
<1>4. LandMint(a, "arc", n) = Move(a, "arc_minting", ArcIdle, n)
  BY DEF LandMint, MintingOn, IdleOn
<1>5. funds' = [ funds EXCEPT ![u] = LandMint(a, "arc", n) ]
  BY <1>1 DEF ArcMintLands
<1> HIDE DEF n
<1>6. /\ LandMint(a, "arc", n) \in Account /\ Keeps(a, LandMint(a, "arc", n))
      /\ LandMint(a, "arc", n)["wallet"] = a["wallet"]
  <2> HIDE DEF a
  <2>1. Move(a, "arc_minting", ArcIdle, n)["wallet"] = a["wallet"]
    BY <1>1, <1>2, <1>3, MoveType
  <2> QED  BY <1>1, <1>2, <1>3, <1>4, <2>1, MoveType, EngineMoveKeeps
<1> QED  BY <1>1, <1>5, <1>6

LEMMA DepositMoves ==
  ASSUME ExitInv, NEW u \in Users, NEW c \in Chain, NEW n \in Amounts, DepositFunds(u, c, n)
  PROVE  /\ n \in Nat /\ funds' \in [ Users -> Account ]
         /\ \A w \in Users \ {u} : funds'[w] = funds[w]
         /\ Keeps(funds[u], funds'[u])
         /\ n <= funds[u]["wallet"] /\ funds'[u]["wallet"] = funds[u]["wallet"] - n
<1> DEFINE a == funds[u]
<1>1. funds \in [ Users -> Account ] /\ a \in Account
  BY DEF ExitInv, ExitTypeOK, TypeOK
<1>2. /\ {"arb_escrow", "arc_attested", "wallet"} \subseteq Location
      /\ IdleOn(c) \in Location \ {"arb_escrow", "arc_attested", "wallet"}
  BY Places DEF Location, ArcIdle, ArbIdle
<1>3. n \in Nat /\ n <= a["wallet"]
  <2>1. a["wallet"] \in Nat /\ n \in Nat
    BY <1>1, <1>2, EngineAssumption DEF Account
  <2> QED  BY <2>1 DEF DepositFunds, Fund
<1>4. funds' = [ funds EXCEPT ![u] = Move(a, "wallet", IdleOn(c), n) ]
  BY <1>1 DEF DepositFunds, Fund
<1>5. /\ Move(a, "wallet", IdleOn(c), n) \in Account
      /\ Keeps(a, Move(a, "wallet", IdleOn(c), n))
      /\ Move(a, "wallet", IdleOn(c), n)["wallet"] = a["wallet"] - n
  <2> HIDE DEF a
  <2> QED  BY <1>1, <1>2, <1>3, MoveType, EngineMoveKeeps
<1> QED  BY <1>1, <1>3, <1>4, <1>5

LEMMA OtherStepInv ==
  ASSUME ExitInv,
         \/ \E t \in Tasks : BridgeRefused(t)
         \/ \E u \in Users :
              \/ ArcMintLands(u)
              \/ \E c \in Chain, n \in Amounts : DepositFunds(u, c, n)
              \/ \E x \in txs[u] : RecordFunded(u, x)
  PROVE  ExitInv' /\ UNCHANGED exits
<1>1. TypeOK /\ LedgerOK /\ ExitTypeOK /\ funds \in [ Users -> Account ]
  BY InvParts DEF ExitTypeOK, TypeOK
<1>2. UNCHANGED exits => ExitsKept
  BY <1>1, StillExits DEF exits, ExitsKept, ExitTypeOK
<1>3. UNCHANGED ledger => LedgerOK'
  BY <1>1, SameLedger
<1>4. ASSUME NEW t \in Tasks, BridgeRefused(t)  PROVE  ExitInv' /\ UNCHANGED exits
  <2>1. job \in [ Tasks -> Job ] /\ pc \in [ Tasks -> Label ]
    BY <1>1 DEF TypeOK
  <2>2. pc' \in [ Tasks -> Label ] /\ job' \in [ Tasks -> Job ]
    BY <1>1, <1>4, FailType DEF BridgeRefused
  <2>3. \A s \in Tasks : /\ Carries(s) /\ job'[s].op = job[s].op
                         /\ \/ pc'[s] = pc[s]
                            \/ pc[s] \in Executing /\ pc'[s] = "report"
    BY <1>4, <2>1 DEF BridgeRefused, Fail, Goto, Carries, Job, Executing
  <2>4. EngineKept
    BY <1>1, <1>4, <2>2, <2>3, TasksFrame DEF BridgeRefused, Others, EngineKept
  <2> QED  BY <1>2, <1>3, <1>4, <2>4, InvParts DEF BridgeRefused
<1>5. ASSUME NEW u \in Users, ArcMintLands(u)  PROVE  ExitInv' /\ UNCHANGED exits
  <2>1. EngineKept
    BY <1>5, ArcLands, EngineFrame DEF ArcMintLands, Others, EngineKept
  <2> QED  BY <1>2, <1>3, <1>5, <2>1, InvParts DEF ArcMintLands
<1>6. ASSUME NEW u \in Users, NEW c \in Chain, NEW n \in Amounts, DepositFunds(u, c, n)
      PROVE  ExitInv' /\ UNCHANGED exits
  <2>1. EngineKept
    BY <1>6, DepositMoves, EngineFrame DEF DepositFunds, Fund, EngineKept
  <2>2. LedgerOK'
    <3> DEFINE x == NewTx(u, c, "deposit", n, TRUE)
    <3>1. n \in Nat /\ "deposit" \in Kind
      BY <1>6, DepositMoves DEF Kind
    <3>2. txs[u] \cup {x} \subseteq Tx /\ IsFiniteSet(txs[u] \cup {x})
      BY <1>1, <3>1, NewTxType
    <3>3. txs' = txs \/ txs' = [ txs EXCEPT ![u] = txs[u] \cup {x} ]
      BY <1>6 DEF DepositFunds
    <3>4. deposits' = [ deposits EXCEPT ![u] = deposits[u] + 1 ]
          /\ UNCHANGED << followed, events >>
      BY <1>1, <1>6 DEF DepositFunds
    <3> HIDE DEF x
    <3>5. deposits' \in [ Users -> Nat ]
      BY <1>1, <3>4 DEF LedgerOK
    <3>6. txs \in [ Users -> SUBSET Tx ] /\ \A w \in Users : IsFiniteSet(txs[w])
      BY <1>1 DEF LedgerOK
    <3>7. txs' \in [ Users -> SUBSET Tx ] /\ \A w \in Users : IsFiniteSet(txs'[w])
      BY <3>2, <3>3, <3>6
    <3> QED  BY <1>1, <3>4, <3>5, <3>7 DEF LedgerOK
  <2>3. UNCHANGED exits
    BY <1>6 DEF DepositFunds
  <2> QED  BY <1>2, <2>1, <2>2, <2>3, InvParts
<1>7. ASSUME NEW u \in Users, NEW x \in txs[u], RecordFunded(u, x)
      PROVE  ExitInv' /\ UNCHANGED exits
  <2>1. events' \subseteq FundingEvent(Users, Chain, Nat) /\ IsFiniteSet(events')
    BY <1>1, <1>7, AppendType DEF RecordFunded
  <2>2. LedgerOK'
    BY <1>1, <1>7, <2>1 DEF RecordFunded, LedgerOK
  <2> QED  BY <1>2, <1>7, <2>2, SameEngine, InvParts DEF RecordFunded, EngineKept
<1> QED  BY <1>4, <1>5, <1>6, <1>7

LEMMA NextExitInv == ExitInv /\ [ExitNext]_exitVars => ExitInv'
<1> SUFFICES ASSUME ExitInv, [ExitNext]_exitVars  PROVE  ExitInv'
  OBVIOUS
<1>1. CASE UNCHANGED exitVars
  <2>1. UNCHANGED vars /\ UNCHANGED exits /\ UNCHANGED ledger
    BY <1>1 DEF exitVars
  <2>2. ExitsKept
    BY <2>1, InvParts, StillExits DEF exits, ExitsKept, ExitTypeOK
  <2> QED  BY <2>1, <2>2, SameEngine, SameLedger, InvParts DEF EngineKept
<1>2. CASE \E u \in Users : AskExit(u)
  BY <1>2, AskInv
<1>3. CASE \/ \E t \in Tasks : BridgeRefused(t)
           \/ \E u \in Users :
                \/ ArcMintLands(u)
                \/ \E c \in Chain, n \in Amounts : DepositFunds(u, c, n)
                \/ \E x \in txs[u] : RecordFunded(u, x)
  BY <1>3, OtherStepInv
<1> QED  BY <1>1, <1>2, <1>3, EngineStepInv, ExitStepInv DEF ExitNext

LEMMA InitExitInv == ExitInit => ExitInv
<1> SUFFICES ASSUME ExitInit  PROVE  ExitInv
  OBVIOUS
<1>1. TypeOK /\ PolicyInv /\ TasksInv
  BY InitInv DEF ExitInit, EngineInv
<1>2. IsFiniteSet({})
  BY FS_EmptySet
<1>3. "idle" \in ExitLabel /\ NoExit \in Exit /\ NoExit.supply = FALSE
  BY NewExitType, PathLabels
<1>4. /\ epc \in [ Exits -> ExitLabel ] /\ exit \in [ Exits -> Exit ]
      /\ \A e \in Exits : OnPath(e)
  BY <1>3 DEF ExitInit, OnPath
<1> QED  BY <1>1, <1>2, <1>4 DEF ExitInit, ExitInv, ExitTypeOK, FiniteLedger

THEOREM ExitInvariant == ExitSpec => []ExitInv
BY InitExitInv, NextExitInv, PTL DEF ExitSpec

(* The variables keep their types: no exit that runs beside the engine     *)
(* overdraws a balance, whatever it read before and however its calls fail *)
(* (src/api/withdraw.rs, send_to_wallet.rs, recover.rs).                   *)
THEOREM OwnerExitsTypeOK == ExitSpec => []ExitTypeOK
<1>1. ExitInv => ExitTypeOK
  BY DEF ExitInv
<1> QED  BY ExitInvariant, <1>1, PTL

-----------------------------------------------------------------------------
(***************************************************************************)
(* Only refusals strand money.  The property is its own invariant.  For    *)
(* each owner the withdrawals' shares add up, however many are under way:  *)
(* a step of one changes its share and the money in the Gateway alike, or  *)
(* leaves less there than it carried.  What is attested for Arc is the sum *)
(* of what is about to be minted, so that no share of it can be missing    *)
(* when its withdrawal mints, and such a mint is never refused.            *)
(***************************************************************************)
InGateway(u) ==
  /\ funds[u]["arb_escrow"] <= Carried(u, "attest") + stranded[u]
  /\ funds[u]["arc_attested"] = Carried(u, "mint")

(* A step of an exit moves nothing but the exit and the money of its owner.*)
StaysPut(f) == epc'[f] = epc[f] /\ exit'[f].who = exit[f].who
                                /\ exit'[f].amount = exit[f].amount

LEMMA StepFrame ==
  ASSUME ExitInv, NEW e \in Exits, ExitStep(e)
  PROVE  /\ epc[e] # "idle" /\ Owner(e) \in Users
         /\ \A f \in Exits \ {e} : StaysPut(f)
         /\ hit \subseteq hit' /\ delegates \subseteq delegates'
         /\ \A w \in Users \ {Owner(e)} : funds'[w] = funds[w]
         /\ \/ UNCHANGED funds
            \/ epc[e] \in Calls /\ funds'[Owner(e)] \in Outcomes(e)
<1>1. /\ exit \in [ Exits -> Exit ] /\ epc \in [ Exits -> ExitLabel ] /\ OnPath(e)
      /\ \A x \in Exit : [ x EXCEPT !.fresh = FALSE ].who = x.who
                         /\ [ x EXCEPT !.fresh = FALSE ].amount = x.amount
  BY DEF ExitInv, ExitTypeOK, Exit
<1>2. OthersWait(e) => \A f \in Exits \ {e} : StaysPut(f)
  BY DEF OthersWait, StaysPut
<1>3. epc[e] # "idle"
  BY DEF ExitStep, Moves, Refused, TransferRefused, RevertsUnseen, ReadArb, Pay, Book, BuildSupply,
         SupplyRecovered, CallFails, CallLost
<1>4. Owner(e) \in Users
  BY <1>1, <1>3 DEF OnPath, Owner
<1>5. \A x : epc' = [ epc EXCEPT ![e] = x ] => \A f \in Exits \ {e} : epc'[f] = epc[f]
  BY <1>1
<1>6. \A x : exit' = [ exit EXCEPT ![e] = x ] => \A f \in Exits \ {e} : exit'[f] = exit[f]
  BY <1>1
<1>7. ASSUME NEW b \in Outcomes(e), Pays(e, b), epc[e] \in Calls
      PROVE  /\ \A w \in Users \ {Owner(e)} : funds'[w] = funds[w]
             /\ funds'[Owner(e)] \in Outcomes(e)
  BY <1>7, CallPays
<1>8. CASE Moves(e)
  <2>1. epc[e] \in Calls
    BY <1>8 DEF Moves, Calls
  <2>2. OthersWait(e)
    BY <1>8, AfterExits DEF Moves
  <2>3. \E b \in Outcomes(e) : Pays(e, b)
    BY <1>8 DEF Moves
  <2>4. UNCHANGED << delegates, hit >>
    BY <1>8 DEF Moves
  <2> QED  BY <1>2, <1>3, <1>4, <1>7, <2>1, <2>2, <2>3, <2>4
<1>9. CASE Refused(e)
  BY <1>2, <1>3, <1>4, <1>9, EndExits DEF Refused, vars
<1>10. CASE RevertsUnseen(e)
  BY <1>2, <1>3, <1>4, <1>10, AfterExits DEF RevertsUnseen, vars
<1>11. CASE ReadArb(e)
  <2>1. OthersWait(e)
    <3>1. CASE End(e)
      BY <3>1, EndExits
    <3>2. CASE Step(e, "deposit") /\ exit' = [ exit EXCEPT ![e].amount = Holds(e)[ArbIdle] ]
      BY <1>1, <3>2 DEF Step, OthersWait
    <3> QED  BY <1>11, <3>1, <3>2 DEF ReadArb
  <2>2. hit \subseteq hit' /\ delegates \subseteq delegates' /\ UNCHANGED funds
    BY <1>11 DEF ReadArb, vars
  <2> QED  BY <1>2, <1>3, <1>4, <2>1, <2>2
<1>12. CASE Pay(e)
  <2>1. PICK ok \in BOOLEAN :
           /\ Paid(e, ok)
           /\ \/ UNCHANGED funds
              \/ \E b \in Outcomes(e) : Pays(e, b)
    BY <1>12 DEF Pay
  <2>2. epc[e] = "pay" /\ UNCHANGED << delegates, hit >> /\ UNCHANGED deposits
    BY <1>12 DEF Pay
  <2>3. OthersWait(e)
    BY <2>1, <2>2, PaidLedger
  <2> QED  BY <1>2, <1>3, <1>4, <1>7, <2>1, <2>2, <2>3 DEF Calls
<1>13. CASE Book(e)
  BY <1>2, <1>3, <1>4, <1>13, EndExits DEF Book, vars
<1>14. CASE BuildSupply(e)
  BY <1>1, <1>3, <1>4, <1>14 DEF BuildSupply, Step, StaysPut, vars
<1>15. CASE SupplyRecovered(e)
  <2>1. /\ epc[e] = "built" /\ Step(e, "idle") /\ UNCHANGED << delegates, hit >>
        /\ \/ UNCHANGED funds
           \/ \E b \in Outcomes(e) : Pays(e, b)
        /\ \/ SpendsNonce(Owner(e), e)
           \/ exit' = [ exit EXCEPT ![e] = NoExit ]
    BY <1>15 DEF SupplyRecovered
  <2>2. \A f \in Exits \ {e} : StaysPut(f)
    <3> SUFFICES ASSUME NEW f \in Exits \ {e}  PROVE  StaysPut(f)
      OBVIOUS
    <3>1. epc'[f] = epc[f]
      BY <1>5, <2>1 DEF Step
    <3>2. exit'[f] = exit[f] \/ exit'[f] = [ exit[f] EXCEPT !.fresh = FALSE ]
      BY <1>6, <2>1 DEF SpendsNonce
    <3> QED  BY <1>1, <3>1, <3>2 DEF StaysPut
  <2> QED  BY <1>3, <1>4, <1>7, <2>1, <2>2 DEF Calls
<1>16. CASE CallFails(e)
  BY <1>2, <1>3, <1>4, <1>16, EndExits DEF CallFails, vars
<1>17. CASE CallLost(e)
  <2>1. PICK b \in Outcomes(e) : Pays(e, b)
    BY <1>17 DEF CallLost
  <2>2. epc[e] \in Calls /\ hit \subseteq hit' /\ UNCHANGED delegates /\ OthersWait(e)
    BY <1>17, EndExits DEF CallLost, Calls
  <2> QED  BY <1>2, <1>3, <1>4, <1>7, <2>1, <2>2
<1>18. CASE TransferRefused(e)
  <2>1. UNCHANGED << funds, delegates, hit >> /\ OthersWait(e)
    BY <1>18, EndExits DEF TransferRefused, vars
  <2> QED  BY <1>2, <1>3, <1>4, <2>1
<1> QED  BY <1>8, <1>9, <1>10, <1>11, <1>12, <1>13, <1>14, <1>15, <1>16, <1>17, <1>18
         DEF ExitStep

(* A recovery, or a payment, touches nothing a withdrawal waits for.       *)
LEMMA OtherExitsKeep ==
  ASSUME ExitInv, NEW e \in Exits \ Withdraws, ExitStep(e)
  PROVE  \A w \in Users : Keeps(funds[w], funds'[w])
<1> DEFINE u == Owner(e)
<1>1. u \in Users /\ epc[e] \in Path(e)
  BY StepFrame DEF ExitInv, OnPath
<1>2. \A w \in Users : funds'[w] = funds[w] => Keeps(funds[w], funds'[w])
  BY DEF Keeps
<1>3. CASE UNCHANGED funds
  BY <1>2, <1>3
<1>4. CASE epc[e] \in Calls /\ funds'[u] \in Outcomes(e)
  <2>1. epc[e] \in { "pay", "built", "attest", "mint" }
    BY <1>1, <1>4 DEF Path, Calls
  <2>2. /\ Wealth(funds'[u]) = Wealth(funds[u])
        /\ epc[e] \notin {"deposit", "attest"} => funds'[u]["arb_escrow"] = funds[u]["arb_escrow"]
        /\ epc[e] \notin {"attest", "mint"} => funds'[u]["arc_attested"] = funds[u]["arc_attested"]
        /\ epc[e] \in {"attest", "mint"} =>
             /\ funds'[u]["arb_escrow"] = funds[u]["arb_escrow"]
             /\ funds'[u]["arc_attested"] = funds[u]["arc_attested"]
    BY <1>4, CallMoves DEF Holds
  <2>3. Keeps(funds[u], funds'[u])
    BY <2>1, <2>2 DEF Keeps
  <2>4. \A w \in Users \ {u} : funds'[w] = funds[w]
    BY StepFrame
  <2> QED  BY <1>2, <2>3, <2>4
<1> QED  BY <1>3, <1>4, StepFrame

ShareKept(f, u) ==
  \A label \in {"attest", "mint"} : Share(f, u, label)' = Share(f, u, label)

LEMMA StillShares == ASSUME NEW f, StaysPut(f), NEW u  PROVE  ShareKept(f, u)
BY DEF StaysPut, ShareKept, Share, Owner

LEMMA ShareType ==
  ASSUME ExitInv, NEW f \in Withdraws, NEW u, NEW label  PROVE  Share(f, u, label) \in Nat
<1>1. exit[f] \in Exit
  BY DEF ExitInv, ExitTypeOK, Exits
<1> QED  BY <1>1 DEF Share, Exit

(* What the withdrawals of an owner carry, when at most one of them moves. *)
LEMMA CarriedMoves ==
  ASSUME ExitInv, ExitInv', NEW u, NEW label \in {"attest", "mint"}, NEW e \in Withdraws,
         \A f \in Withdraws \ {e} : ShareKept(f, u)
  PROVE  /\ Carried(u, label) \in Nat /\ Carried(u, label)' \in Nat
         /\ Share(e, u, label) \in Nat /\ Share(e, u, label)' \in Nat
         /\ Share(e, u, label) <= Carried(u, label)
         /\ Carried(u, label)' + Share(e, u, label) = Carried(u, label) + Share(e, u, label)'
<1> DEFINE w == [ f \in Withdraws |-> Share(f, u, label) ]
           v == [ f \in Withdraws |-> Share(f, u, label)' ]
           R == Withdraws \ {e}
<1>1. IsFiniteSet(Withdraws) /\ IsFiniteSet(R) /\ R \subseteq Withdraws
  BY ExitsAssumption, FS_Subset
<1>2. \A f \in Withdraws : Share(f, u, label) \in Nat /\ Share(f, u, label)' \in Nat
  <2>1. \A f \in Withdraws : Share(f, u, label) \in Nat
    BY ShareType
  <2>2. \A f \in Withdraws : exit'[f] \in Exit
    BY DEF ExitInv, ExitTypeOK, Exits
  <2>3. \A f \in Withdraws : Share(f, u, label)' \in Nat
    BY <2>2 DEF Share, Exit
  <2> QED  BY <2>1, <2>3
<1>3. /\ \A f \in Withdraws : w[f] \in Nat /\ v[f] \in Nat
      /\ \A f \in R : w[f] = v[f]
      /\ w[e] = Share(e, u, label) /\ v[e] = Share(e, u, label)'
  BY <1>2 DEF ShareKept
<1>4. Carried(u, label) = SumOver(w, Withdraws) /\ Carried(u, label)' = SumOver(v, Withdraws)
  BY DEF Carried
<1> HIDE DEF w, v
<1>5. SumOver(w, R) \in Nat /\ SumOver(w, R) = SumOver(v, R)
  BY <1>1, <1>3, SumType, SumSame
<1>6. /\ SumOver(w, Withdraws) = w[e] + SumOver(w, R)
      /\ SumOver(v, Withdraws) = v[e] + SumOver(v, R)
  BY <1>1, <1>3, SumTake
<1> HIDE DEF R
<1> QED  BY <1>3, <1>4, <1>5, <1>6

LEMMA CarriedStays ==
  ASSUME NEW u, NEW label \in {"attest", "mint"}, \A f \in Withdraws : ShareKept(f, u)
  PROVE  Carried(u, label)' = Carried(u, label)
<1>1. [ f \in Withdraws |-> Share(f, u, label)' ] = [ f \in Withdraws |-> Share(f, u, label) ]
  BY DEF ShareKept
<1> QED  BY <1>1 DEF Carried

(* A refused mint would be one of more than is attested.                   *)
LEMMA MintRefusal ==
  ASSUME ExitInv, NEW e \in Withdraws, epc[e] = "mint", Outcomes(e) = {}
  PROVE  ~ (exit[e].amount <= Holds(e)["arc_attested"])
<1>1. SUFFICES ASSUME exit[e].amount <= Holds(e)["arc_attested"]  PROVE  FALSE
  OBVIOUS
<1>2. Target(e) = "arc" /\ CanMint(Holds(e), "arc", exit[e].amount)
  <2>1. exit[e] \in Exit /\ exit[e].who \in Users /\ TypeOK /\ "arc_attested" \in Location
    BY DEF ExitInv, ExitTypeOK, OnPath, Exits, Location
  <2>2. exit[e].amount \in Nat /\ Holds(e)["arc_attested"] \in Nat
    BY <2>1 DEF Exit, TypeOK, Account, Holds, Owner
  <2> QED  BY <1>1, <2>2 DEF Target, CanMint, AttestedFor
<1>3. SendMint(Holds(e), "arc", exit[e].amount) \in Outcomes(e)
  BY <1>2 DEF Outcomes, If
<1> QED  BY <1>3

(* What a step of a withdrawal of n does to what the Gateway holds, E and  *)
(* A, to the withdrawal's share of either, b and m, and to what is         *)
(* stranded, L, unless it is one that is held against the owner.           *)
Shifts(n, E, A, b, m, L, E2, A2, b2, m2, L2) ==
  \/ /\ b = 0 /\ m = 0 /\ A2 = A /\ m2 = 0 /\ L2 = L
     /\ \/ E2 = E /\ b2 \in {0, n}
        \/ E2 = E + n /\ b2 = n
  \/ /\ b = n /\ m = 0 /\ b2 = 0
     /\ \/ /\ \E fee \in Nat : n + fee <= E /\ E2 = E - n - fee
           /\ A2 = A + n /\ m2 = n /\ L2 = L
        \/ E2 = E /\ A2 = A /\ m2 = 0 /\ L2 = E
  \/ /\ b = 0 /\ m = n /\ E2 = E /\ b2 = 0 /\ m2 = 0 /\ L2 = L
     /\ \/ n <= A /\ A2 = A - n
        \/ ~ (n <= A) /\ A2 = A

WithdrawEffect(e, u) ==
  Shifts(exit[e].amount,
         funds[u]["arb_escrow"], funds[u]["arc_attested"],
         Share(e, u, "attest"), Share(e, u, "mint"), stranded[u],
         funds'[u]["arb_escrow"], funds'[u]["arc_attested"],
         Share(e, u, "attest")', Share(e, u, "mint")', stranded'[u])

LEMMA WithdrawMoves ==
  ASSUME ExitInv, NEW e \in Withdraws, ExitStep(e), NEW u \in Users, u = Owner(e), u \notin hit'
  PROVE  WithdrawEffect(e, u)
<1> DEFINE a == Holds(e)
           n == exit[e].amount
<1>1. /\ e \in Exits /\ OnPath(e) /\ exit[e] \in Exit /\ exit \in [ Exits -> Exit ]
      /\ epc \in [ Exits -> ExitLabel ] /\ stranded \in [ Users -> Nat ] /\ TypeOK
  BY DEF Exits, ExitInv, ExitTypeOK
<1>2. /\ a = funds[u] /\ exit[e].who = u
      /\ epc[e] \in { "unsupply", "arb", "deposit", "attest", "mint" }
  BY <1>1, StepFrame DEF OnPath, Path, Holds, Owner
<1>3. \A label : Share(e, u, label) = IF epc[e] = label THEN n ELSE 0
  BY <1>2 DEF Share, Owner
<1>4. ASSUME NEW label, epc'[e] = label,
             label \in {"attest", "mint"} => exit'[e] = exit[e]
      PROVE  /\ Share(e, u, "attest")' = IF label = "attest" THEN n ELSE 0
             /\ Share(e, u, "mint")' = IF label = "mint" THEN n ELSE 0
  BY <1>2, <1>4 DEF Share, Owner
<1>5. End(e) => epc'[e] = "idle"
  BY <1>1, EndExits
<1>6. epc[e] \in {"unsupply", "deposit", "attest", "mint"} /\ After(e, Following(e)) =>
        /\ epc'[e] = Following(e)
        /\ Following(e) # "idle" => exit'[e] = exit[e]
        /\ epc[e] = "mint" => Following(e) = "idle"
  BY <1>1, AfterExits
<1>7. /\ epc[e] = "unsupply" => Following(e) = "arb"
      /\ epc[e] = "deposit"  => Following(e) = "attest"
      /\ epc[e] = "attest"   => Following(e) = "mint"
  BY DEF Following
<1>8. ASSUME NEW b \in Outcomes(e), Pays(e, b), epc[e] \in Calls
      PROVE  /\ funds'[u] = b
             /\ epc[e] \notin {"deposit", "attest"} => b["arb_escrow"] = a["arb_escrow"]
             /\ epc[e] = "deposit" => b["arb_escrow"] = a["arb_escrow"] + n
             /\ epc[e] \notin {"attest", "mint"} => b["arc_attested"] = a["arc_attested"]
             /\ epc[e] = "mint" =>
                  n <= a["arc_attested"] /\ b["arc_attested"] = a["arc_attested"] - n
             /\ epc[e] = "attest" =>
                  /\ \E fee \in Nat : /\ n + fee <= a["arb_escrow"]
                                      /\ b["arb_escrow"] = a["arb_escrow"] - n - fee
                  /\ b["arc_attested"] = a["arc_attested"] + n
  BY <1>1, <1>8, CallPays, CallMoves
<1>9. CASE Moves(e)
  <2>1. PICK b \in Outcomes(e) : Pays(e, b)
    BY <1>9 DEF Moves
  <2>2. /\ epc[e] \in {"unsupply", "deposit", "attest", "mint"} /\ After(e, Following(e))
        /\ epc[e] \in Calls /\ stranded' = stranded
    BY <1>9 DEF Moves, Calls
  <2>3. CASE epc[e] = "unsupply"
    BY <1>2, <1>3, <1>4, <1>6, <1>7, <1>8, <2>1, <2>2, <2>3 DEF WithdrawEffect, Shifts
  <2>4. CASE epc[e] = "deposit"
    BY <1>2, <1>3, <1>4, <1>6, <1>7, <1>8, <2>1, <2>2, <2>4 DEF WithdrawEffect, Shifts
  <2>5. CASE epc[e] = "attest"
    BY <1>2, <1>3, <1>4, <1>6, <1>7, <1>8, <2>1, <2>2, <2>5 DEF WithdrawEffect, Shifts
  <2>6. CASE epc[e] = "mint"
    BY <1>2, <1>3, <1>4, <1>6, <1>7, <1>8, <2>1, <2>2, <2>6 DEF WithdrawEffect, Shifts
  <2> QED  BY <2>2, <2>3, <2>4, <2>5, <2>6
<1>10. CASE Refused(e)
  <2>1. /\ epc'[e] = "idle" /\ funds' = funds /\ stranded' = stranded
        /\ epc[e] \in {"unsupply", "deposit", "mint"} /\ Outcomes(e) = {}
    BY <1>2, <1>5, <1>10 DEF Refused, vars
  <2>2. epc[e] = "mint" => ~ (n <= funds[u]["arc_attested"])
    BY <1>2, <2>1, MintRefusal
  <2> QED  BY <1>3, <1>4, <2>1, <2>2 DEF WithdrawEffect, Shifts
<1>11. CASE TransferRefused(e)
  <2>1. /\ epc'[e] = "idle" /\ funds' = funds /\ epc[e] = "attest"
        /\ stranded' = [ stranded EXCEPT ![u] = funds[u]["arb_escrow"] ]
    BY <1>2, <1>5, <1>11 DEF TransferRefused, vars
  <2>2. stranded'[u] = funds[u]["arb_escrow"]
    BY <1>1, <2>1
  <2> QED  BY <1>3, <1>4, <2>1, <2>2 DEF WithdrawEffect, Shifts
<1>12. CASE RevertsUnseen(e)
  <2>1. /\ epc[e] \in {"unsupply", "deposit"} /\ After(e, Following(e))
        /\ funds' = funds /\ stranded' = stranded
    BY <1>12 DEF RevertsUnseen, vars
  <2> QED  BY <1>3, <1>4, <1>6, <1>7, <2>1 DEF WithdrawEffect, Shifts
<1>13. CASE ReadArb(e)
  <2>1. epc[e] = "arb" /\ funds' = funds /\ stranded' = stranded
    BY <1>13 DEF ReadArb, vars
  <2>2. epc'[e] \in {"idle", "deposit"}
    BY <1>1, <1>5, <1>13 DEF ReadArb, Step
  <2> QED  BY <1>3, <1>4, <2>1, <2>2 DEF WithdrawEffect, Shifts
<1>14. CASE CallFails(e)
  <2>1. /\ epc'[e] = "idle" /\ funds' = funds /\ stranded' = stranded
        /\ epc[e] \notin {"attest", "mint"}
    BY <1>5, <1>14 DEF CallFails, vars
  <2> QED  BY <1>3, <1>4, <2>1 DEF WithdrawEffect, Shifts
<1>15. CASE CallLost(e)
  <2>1. PICK b \in Outcomes(e) : Pays(e, b)
    BY <1>15 DEF CallLost
  <2>2. /\ epc'[e] = "idle" /\ stranded' = stranded
        /\ epc[e] \in {"unsupply", "mint"} /\ epc[e] \in Calls
    BY <1>5, <1>15 DEF CallLost, Calls
  <2> QED  BY <1>2, <1>3, <1>4, <1>8, <2>1, <2>2 DEF WithdrawEffect, Shifts
<1>16. ~Pay(e) /\ ~Book(e) /\ ~BuildSupply(e) /\ ~SupplyRecovered(e)
  BY <1>2 DEF Pay, Book, BuildSupply, SupplyRecovered
<1> QED  BY <1>9, <1>10, <1>11, <1>12, <1>13, <1>14, <1>15, <1>16 DEF ExitStep

LEMMA WithdrawKeeps ==
  ASSUME ExitInv, ExitInv', NEW e \in Withdraws, ExitStep(e), NEW u \in Users,
         u = Owner(e), u \notin hit', InGateway(u)
  PROVE  InGateway(u)'
<1>1. WithdrawEffect(e, u)
  BY WithdrawMoves
<1>2. \A f \in Withdraws \ {e} : ShareKept(f, u)
  BY StepFrame, StillShares DEF Exits
<1>3. /\ Carried(u, "attest") \in Nat /\ Carried(u, "attest")' \in Nat
      /\ Share(e, u, "attest") \in Nat /\ Share(e, u, "attest")' \in Nat
      /\ Share(e, u, "attest") <= Carried(u, "attest")
      /\ Carried(u, "attest")' + Share(e, u, "attest")
           = Carried(u, "attest") + Share(e, u, "attest")'
  BY <1>2, CarriedMoves
<1>4. /\ Carried(u, "mint") \in Nat /\ Carried(u, "mint")' \in Nat
      /\ Share(e, u, "mint") \in Nat /\ Share(e, u, "mint")' \in Nat
      /\ Share(e, u, "mint") <= Carried(u, "mint")
      /\ Carried(u, "mint")' + Share(e, u, "mint") = Carried(u, "mint") + Share(e, u, "mint")'
  BY <1>2, CarriedMoves
<1>5. /\ funds[u]["arb_escrow"] \in Nat /\ funds[u]["arc_attested"] \in Nat
      /\ stranded[u] \in Nat /\ exit[e].amount \in Nat
  <2>1. /\ funds[u] \in Account /\ stranded \in [ Users -> Nat ] /\ exit[e] \in Exit
        /\ {"arb_escrow", "arc_attested"} \subseteq Location
    BY DEF ExitInv, ExitTypeOK, TypeOK, Exits, Location
  <2> QED  BY <2>1 DEF Account, Exit
<1>6. /\ funds'[u]["arb_escrow"] <= Carried(u, "attest")' + stranded'[u]
      /\ funds'[u]["arc_attested"] = Carried(u, "mint")'
  BY <1>1, <1>3, <1>4, <1>5 DEF WithdrawEffect, Shifts, InGateway
<1> QED  BY <1>6 DEF InGateway

(* A step of a withdrawal is nothing to the other owners.                  *)
LEMMA OtherShares ==
  ASSUME ExitInv, NEW e \in Withdraws, ExitStep(e), NEW w \in Users, w # Owner(e)
  PROVE  ShareKept(e, w) /\ stranded'[w] = stranded[w]
<1>1. /\ e \in Exits /\ OnPath(e) /\ epc[e] # "idle" /\ Owner(e) \in Users
      /\ exit[e] \in Exit /\ exit \in [ Exits -> Exit ] /\ stranded \in [ Users -> Nat ]
  BY StepFrame DEF Exits, ExitInv, ExitTypeOK
<1>2. exit'[e].who # w
  <2>1. NoExit.who # w
    BY NewExitType, EngineAssumption
  <2>2. ASSUME End(e)  PROVE exit'[e].who # w
    BY <1>1, <2>1, <2>2, EndExits
  <2>3. ASSUME UNCHANGED exit  PROVE exit'[e].who # w
    BY <2>3 DEF Owner
  <2>4. ASSUME NEW label, After(e, label)  PROVE exit'[e].who # w
    BY <2>2, <2>3, <2>4 DEF After
  <2>5. CASE ReadArb(e)
    <3>1. CASE exit' = [ exit EXCEPT ![e].amount = Holds(e)[ArbIdle] ]
      BY <1>1, <3>1 DEF Owner, Exit
    <3> QED  BY <2>2, <2>5, <3>1 DEF ReadArb
  <2>6. epc[e] \notin {"pay", "book", "build", "built"}
    BY <1>1, ExitsAssumption DEF OnPath, Path
  <2> QED  BY <2>2, <2>4, <2>5, <2>6
           DEF ExitStep, Moves, Refused, TransferRefused, RevertsUnseen, Pay, Book,
               BuildSupply, SupplyRecovered, CallFails, CallLost
<1>3. stranded'[w] = stranded[w]
  <2>1. UNCHANGED stranded \/ stranded' = [ stranded EXCEPT ![Owner(e)] = Holds(e)["arb_escrow"] ]
    BY DEF ExitStep, Moves, Refused, TransferRefused, RevertsUnseen, ReadArb, Pay, Book,
           BuildSupply, SupplyRecovered, CallFails, CallLost
  <2> QED  BY <1>1, <2>1
<1> QED  BY <1>2, <1>3 DEF ShareKept, Share, Owner

LEMMA GatewayFrame ==
  ASSUME NEW u \in Users, InGateway(u), Keeps(funds[u], funds'[u]),
         stranded'[u] = stranded[u], \A f \in Withdraws : ShareKept(f, u)
  PROVE  InGateway(u)'
<1>1. Carried(u, "attest")' = Carried(u, "attest") /\ Carried(u, "mint")' = Carried(u, "mint")
  BY CarriedStays
<1> QED  BY <1>1 DEF InGateway, Keeps

LEMMA ExitKeepsGateway ==
  ASSUME ExitInv, ExitInv', OnlyRefusalsStrand, NEW e \in Exits, ExitStep(e)
  PROVE  OnlyRefusalsStrand'
<1> SUFFICES ASSUME NEW w \in Users, w \notin hit'  PROVE  InGateway(w)'
  BY DEF OnlyRefusalsStrand, InGateway
<1>1. /\ \A f \in Exits \ {e} : StaysPut(f)
      /\ \A v \in Users \ {Owner(e)} : funds'[v] = funds[v]
      /\ hit \subseteq hit' /\ Withdraws \subseteq Exits
  BY StepFrame DEF Exits
<1>2. InGateway(w)
  BY <1>1 DEF OnlyRefusalsStrand, InGateway
<1>3. CASE e \notin Withdraws
  <2>1. UNCHANGED stranded
    BY <1>3 DEF ExitStep, Moves, Refused, TransferRefused, RevertsUnseen, ReadArb, Pay, Book,
                BuildSupply, SupplyRecovered, CallFails, CallLost
  <2>2. \A f \in Withdraws : ShareKept(f, w)
    BY <1>1, <1>3, StillShares
  <2> QED  BY <1>2, <1>3, <2>1, <2>2, OtherExitsKeep, GatewayFrame
<1>4. CASE e \in Withdraws /\ w = Owner(e)
  BY <1>2, <1>4, WithdrawKeeps
<1>5. CASE e \in Withdraws /\ w # Owner(e)
  <2>1. \A f \in Withdraws : ShareKept(f, w)
    BY <1>1, <1>5, StillShares, OtherShares
  <2>2. Keeps(funds[w], funds'[w]) /\ stranded'[w] = stranded[w]
    BY <1>1, <1>5, OtherShares DEF Keeps
  <2> QED  BY <1>2, <2>1, <2>2, GatewayFrame
<1> QED  BY <1>3, <1>4, <1>5

(* Every other step leaves the Gateway and the withdrawals to themselves.  *)
LEMMA RestKeeps ==
  ASSUME ExitInv, [ExitNext]_exitVars, \A e \in Exits : ~ExitStep(e)
  PROVE  \A w \in Users : Keeps(funds[w], funds'[w])
<1>1. TypeOK /\ TasksInv
  BY InvParts
<1>2. funds' = funds => \A w \in Users : Keeps(funds[w], funds'[w])
  BY DEF Keeps
<1>3. CASE EngineStep
  BY <1>1, <1>3, NextKeeps DEF EngineStep
<1>4. ASSUME NEW u \in Users, ArcMintLands(u)
      PROVE  \A w \in Users : Keeps(funds[w], funds'[w])
  BY <1>4, ArcLands DEF Keeps
<1>5. ASSUME NEW u \in Users, NEW c \in Chain, NEW n \in Amounts, DepositFunds(u, c, n)
      PROVE  \A w \in Users : Keeps(funds[w], funds'[w])
  BY <1>5, DepositMoves DEF Keeps
<1>6. ASSUME NEW u \in Users, AskExit(u)  PROVE  funds' = funds
  BY <1>6, AskInv DEF vars
<1>7. ASSUME NEW t \in Tasks, BridgeRefused(t)  PROVE  funds' = funds
  BY <1>7 DEF BridgeRefused
<1>8. ASSUME NEW u \in Users, NEW x \in txs[u], RecordFunded(u, x)  PROVE  funds' = funds
  BY <1>8 DEF RecordFunded, vars
<1>9. CASE UNCHANGED exitVars
  BY <1>2, <1>9 DEF exitVars, vars
<1> QED  BY <1>2, <1>3, <1>4, <1>5, <1>6, <1>7, <1>8, <1>9 DEF ExitNext

LEMMA RestShares ==
  ASSUME ExitInv, [ExitNext]_exitVars, \A e \in Exits : ~ExitStep(e), NEW u
  PROVE  UNCHANGED << hit, stranded >> /\ \A f \in Withdraws : ShareKept(f, u)
<1>1. Withdraws \subseteq Exits
  BY DEF Exits
<1>2. CASE \E w \in Users : AskExit(w)
  <2>1. PICK w \in Users : AskExit(w)
    BY <1>2
  <2>2. UNCHANGED << hit, stranded >>
    BY <2>1, AskInv
  <2>3. PICK e \in Exits : /\ epc[e] = "idle" /\ OthersWait(e)
                           /\ e \in Withdraws => epc'[e] \in {"unsupply", "arb"}
    BY <2>1, AskInv
  <2>4. \A f \in Withdraws \ {e} : ShareKept(f, u)
    BY <1>1, <2>3, StillShares DEF OthersWait, StaysPut
  <2>5. ASSUME e \in Withdraws, NEW label \in {"attest", "mint"}
        PROVE  Share(e, u, label)' = Share(e, u, label)
    BY <2>3, <2>5 DEF Share
  <2> QED  BY <2>2, <2>4, <2>5 DEF ShareKept
<1>3. CASE EngineStep
  <2>1. UNCHANGED << epc, hit, stranded >>
    BY <1>3 DEF EngineStep
  <2>2. \A f \in Exits : /\ exit[f] \in Exit
                         /\ \/ exit'[f] = exit[f]
                            \/ exit'[f] = [ exit[f] EXCEPT !.fresh = FALSE ]
    BY <1>3 DEF EngineStep, ExitInv, ExitTypeOK
  <2>3. \A x \in Exit : /\ [ x EXCEPT !.fresh = FALSE ].who = x.who
                        /\ [ x EXCEPT !.fresh = FALSE ].amount = x.amount
    BY DEF Exit
  <2>4. \A f \in Withdraws : StaysPut(f)
    BY <1>1, <2>1, <2>2, <2>3 DEF StaysPut
  <2> QED  BY <2>1, <2>4, StillShares
<1>4. CASE UNCHANGED exits
  <2>1. \A f \in Withdraws : StaysPut(f)
    BY <1>4 DEF StaysPut, exits
  <2> QED  BY <1>4, <2>1, StillShares DEF exits
<1> QED  BY <1>2, <1>3, <1>4
         DEF ExitNext, BridgeRefused, ArcMintLands, DepositFunds, RecordFunded, exitVars, exits

(* Unless a call has failed there, money that a withdrawal has deposited   *)
(* lies in the Gateway only while it is under way or because the Gateway   *)
(* has refused the transfer, and what is attested for Arc is what is about *)
(* to be minted.  So it is for any number of withdrawals beside each other *)
(* and any fee, when the engine takes the balance between a read and its   *)
(* deposit and when nobody looks whether the deposit has reverted          *)
(* (src/api/withdraw.rs, withdraw_to_arc, owner_send).                     *)
THEOREM ExitsOnlyRefusalsStrand == ExitSpec => []OnlyRefusalsStrand
<1>1. ExitInit => OnlyRefusalsStrand
  <2> SUFFICES ASSUME ExitInit, NEW u \in Users  PROVE  InGateway(u)
    BY DEF OnlyRefusalsStrand, InGateway
  <2>1. ASSUME NEW label \in {"attest", "mint"}  PROVE  Carried(u, label) = 0
    <3> DEFINE w == [ e \in Withdraws |-> Share(e, u, label) ]
    <3>1. \A e \in Withdraws : w[e] = 0
      BY DEF ExitInit, Exits, Share
    <3>2. Carried(u, label) = SumOver(w, Withdraws)
      BY DEF Carried
    <3> HIDE DEF w
    <3> QED  BY <3>1, <3>2, ExitsAssumption, SumZero
  <2>2. funds[u]["arb_escrow"] = 0 /\ funds[u]["arc_attested"] = 0 /\ stranded[u] = 0
    BY DEF ExitInit, Init, Location
  <2> QED  BY <2>1, <2>2 DEF InGateway
<1>2. ExitInv /\ ExitInv' /\ OnlyRefusalsStrand /\ [ExitNext]_exitVars => OnlyRefusalsStrand'
  <2> SUFFICES ASSUME ExitInv, ExitInv', OnlyRefusalsStrand, [ExitNext]_exitVars
               PROVE  OnlyRefusalsStrand'
    OBVIOUS
  <2>1. CASE \E e \in Exits : ExitStep(e)
    BY <2>1, ExitKeepsGateway
  <2>2. CASE \A e \in Exits : ~ExitStep(e)
    <3> SUFFICES ASSUME NEW w \in Users, w \notin hit'  PROVE  InGateway(w)'
      BY DEF OnlyRefusalsStrand, InGateway
    <3>1. UNCHANGED << hit, stranded >> /\ \A f \in Withdraws : ShareKept(f, w)
      BY <2>2, RestShares
    <3>2. InGateway(w)
      BY <3>1 DEF OnlyRefusalsStrand, InGateway
    <3> QED  BY <2>2, <3>1, <3>2, RestKeeps, GatewayFrame
  <2> QED  BY <2>1, <2>2
<1> QED  BY <1>1, <1>2, ExitInvariant, PTL DEF ExitSpec

-----------------------------------------------------------------------------
(***************************************************************************)
(* The earnings shown are explained by what is on its way.  The            *)
(* strengthening: an owner's money is never made or lost; the wallet of an *)
(* owner who is followed is what the transactions leave of the endowment;  *)
(* the sums of the events are those of the transactions that are recorded, *)
(* each once, since a transaction has an id of its own and no event is     *)
(* without its transaction.                                                *)
(***************************************************************************)
Amount(S)     == SumOver([ x \in S |-> x.amount ], S)
Made(u, kind) == { x \in txs[u] : x.kind = kind /\ x.ok }
Booked(u, kind) ==
  { x \in txs[u] : x.kind = kind /\ Recorded(events, EventOf(u, x)) }

NothingIsLost == \A u \in Users : Wealth(funds[u]) = Endowment

WalletsAdd ==
  \A u \in followed :
     funds[u]["wallet"] + Amount(Made(u, "deposit"))
       = Endowment + Amount(Made(u, "withdraw_to_eoa"))

IdsAreUnique ==
  \A u \in Users :
     /\ \A x \in txs[u] : x.id <= Cardinality(txs[u])
     /\ \A x, y \in txs[u] : x.id = y.id => x = y
     /\ u \notin followed => txs[u] = {}

EventsAreBacked ==
  \A v \in events :
     v.user \in followed /\ \E x \in txs[v.user] : Key(v) = Key(EventOf(v.user, x))

SumsAgree ==
  \A u \in followed, kind \in Kind : SumOf(events, u, kind) = Amount(Booked(u, kind))

LedgerInv ==
  NothingIsLost /\ WalletsAdd /\ IdsAreUnique /\ EventsAreBacked /\ SumsAgree

-----------------------------------------------------------------------------
(* Sums of amounts.                                                        *)
LEMMA AmountAdd ==
  ASSUME NEW S, IsFiniteSet(S), \A x \in S : x.amount \in Nat,
         NEW y, y \notin S, y.amount \in Nat
  PROVE  Amount(S \cup {y}) = Amount(S) + y.amount /\ Amount(S) \in Nat
<1> DEFINE T == S \cup {y}
           w == [ x \in S |-> x.amount ]
           v == [ x \in T |-> x.amount ]
<1>1. /\ \A x \in S : w[x] \in Nat /\ w[x] = v[x]
      /\ \A x \in S \cup {y} : v[x] \in Nat
      /\ v[y] = y.amount
  OBVIOUS
<1>2. Amount(S) = SumOver(w, S) /\ Amount(S \cup {y}) = SumOver(v, S \cup {y})
  BY DEF Amount
<1> HIDE DEF w, v, T
<1>3. SumOver(w, S) \in Nat
  BY <1>1, SumType
<1>4. SumOver(w, S) = SumOver(v, S)
  BY <1>1, SumSame
<1>5. SumOver(v, S \cup {y}) = v[y] + SumOver(v, S)
  BY <1>1, SumAdd
<1> QED  BY <1>1, <1>2, <1>3, <1>4, <1>5

LEMMA AmountType ==
  ASSUME NEW S, IsFiniteSet(S), \A x \in S : x.amount \in Nat
  PROVE  Amount(S) \in Nat
<1> DEFINE w == [ x \in S |-> x.amount ]
<1>1. \A x \in S : w[x] \in Nat
  OBVIOUS
<1>2. Amount(S) = SumOver(w, S)
  BY DEF Amount
<1> HIDE DEF w
<1> QED  BY <1>1, <1>2, SumType

LEMMA AmountEmpty == Amount({}) = 0
<1> DEFINE w == [ x \in {} |-> x.amount ]
<1>1. Amount({}) = SumOver(w, {})
  BY DEF Amount
<1> HIDE DEF w
<1> QED  BY <1>1, FS_EmptySet, SumUnfold

(* The sum of a kind of events is that of their amounts.                   *)
EventsOf(E, u, kind) == { v \in E : v.user = u /\ v.kind = kind }

LEMMA SumOfIsAmount ==
  ASSUME NEW E, IsFiniteSet(E), NEW u, NEW kind
  PROVE  SumOf(E, u, kind) = Amount(EventsOf(E, u, kind))
<1> DEFINE S == EventsOf(E, u, kind)
           w == [ v \in E |-> v.amount ]
           a == [ v \in S |-> v.amount ]
<1>1. S \subseteq E /\ \A v \in S : w[v] = a[v]
  BY DEF EventsOf
<1>2. IsFiniteSet(S)
  BY <1>1, FS_Subset
<1>3. SumOf(E, u, kind) = SumOver(w, S) /\ Amount(S) = SumOver(a, S)
  BY DEF SumOf, Amount, EventsOf
<1> HIDE DEF S, w, a
<1> QED  BY <1>1, <1>2, <1>3, SumSame DEF S

-----------------------------------------------------------------------------
(* What a step can do to the ledger: nothing that a followed owner's books *)
(* would show, an event, a transaction that is followed, the end of that.  *)
WalletKept(u) == funds'[u]["wallet"] = funds[u]["wallet"]

Quiet ==
  UNCHANGED << followed, txs, events >> /\ \A u \in followed : WalletKept(u)

Reports(u, x) ==
  /\ events' = AppendEvent(events, EventOf(u, x))
  /\ UNCHANGED << followed, txs >>
  /\ \A w \in Users : WalletKept(w)

Follows(u, c, kind, n, ok) ==
  /\ u \in followed
  /\ txs' = [ txs EXCEPT ![u] = txs[u] \cup { NewTx(u, c, kind, n, ok) } ]
  /\ UNCHANGED << followed, events >>
  /\ \A w \in Users \ {u} : WalletKept(w)
  /\ IF ~ok THEN WalletKept(u)
     ELSE IF kind = "deposit"
       THEN n <= funds[u]["wallet"] /\ funds'[u]["wallet"] = funds[u]["wallet"] - n
       ELSE funds'[u]["wallet"] = funds[u]["wallet"] + n

Drops(u) ==
  /\ followed' = followed \ {u}
  /\ txs' = [ txs EXCEPT ![u] = {} ]
  /\ events' = { v \in events : v.user # u }
  /\ \A w \in Users \ {u} : WalletKept(w)

LedgerStep ==
  \/ Quiet
  \/ \E u \in Users :
       \/ \E x \in txs[u] : Reports(u, x)
       \/ \E c \in Chain, kind \in Kind, n \in Nat, ok \in BOOLEAN :
            Follows(u, c, kind, n, ok)
       \/ Drops(u)

LEMMA CallKeepsWallet ==
  ASSUME ExitInv, NEW e \in Exits, ExitStep(e), epc[e] # "pay"
  PROVE  \A w \in Users : WalletKept(w)
<1>1. CASE UNCHANGED funds
  BY <1>1 DEF WalletKept
<1>2. CASE epc[e] \in Calls /\ funds'[Owner(e)] \in Outcomes(e)
  <2>1. funds'[Owner(e)]["wallet"] = Holds(e)["wallet"]
    BY <1>2, CallMoves
  <2>2. \A w \in Users \ {Owner(e)} : funds'[w] = funds[w]
    BY StepFrame
  <2> QED  BY <2>1, <2>2 DEF WalletKept, Holds
<1> QED  BY <1>1, <1>2, StepFrame

LEMMA ExitLedgerStep ==
  ASSUME ExitInv, NEW e \in Exits, ExitStep(e)  PROVE  LedgerStep
<1> DEFINE u == Owner(e)
           n == exit[e].amount
<1>1. /\ u \in Users /\ exit[e] \in Exit /\ n \in Nat /\ followed \subseteq Users
      /\ \A w \in Users \ {u} : WalletKept(w)
  <2>1. exit[e] \in Exit /\ followed \subseteq Users
    BY DEF ExitInv, ExitTypeOK
  <2>2. u \in Users /\ \A w \in Users \ {u} : WalletKept(w)
    BY StepFrame DEF WalletKept
  <2> QED  BY <2>1, <2>2 DEF Exit
<1>2. CASE Pay(e)
  <2>1. PICK ok \in BOOLEAN :
           /\ Paid(e, ok)
           /\ IF ok THEN \E b \in Outcomes(e) : Pays(e, b) ELSE UNCHANGED funds
    BY <1>2 DEF Pay
  <2>2. epc[e] = "pay" /\ epc[e] \in Calls /\ "arc" \in Chain /\ "withdraw_to_eoa" \in Kind
    BY <1>2 DEF Pay, Calls, Chain, Kind
  <2>3. IF ok THEN funds'[u]["wallet"] = funds[u]["wallet"] + n ELSE WalletKept(u)
    <3>1. CASE ok
      <4>1. PICK b \in Outcomes(e) : Pays(e, b)
        BY <2>1, <3>1
      <4>2. funds'[u] = b /\ b["wallet"] = Holds(e)["wallet"] + n
        BY <2>2, <4>1, CallPays, CallMoves
      <4> QED  BY <3>1, <4>2 DEF Holds
    <3>2. CASE ~ok
      BY <2>1, <3>2 DEF WalletKept
    <3> QED  BY <3>1, <3>2
  <2>4. CASE u \in followed /\ Cardinality(Payments(u)) < MaxPayments
    <3>1. /\ txs' = [ txs EXCEPT ![u] = txs[u] \cup { NewTx(u, "arc", "withdraw_to_eoa", n, ok) } ]
          /\ UNCHANGED << followed, events >>
      BY <1>1, <2>1, <2>4 DEF Paid
    <3>2. Follows(u, "arc", "withdraw_to_eoa", n, ok)
      BY <1>1, <2>3, <2>4, <3>1 DEF Follows
    <3> HIDE DEF u, n
    <3> QED  BY <1>1, <2>2, <3>2 DEF LedgerStep
  <2>5. CASE ~(u \in followed /\ Cardinality(Payments(u)) < MaxPayments)
    <3>1. Drops(u)
      BY <1>1, <2>1, <2>5 DEF Paid, Drops
    <3> QED  BY <1>1, <3>1 DEF LedgerStep
  <2> QED  BY <2>4, <2>5
<1>3. CASE Book(e)
  <2>1. \A w \in Users : WalletKept(w)
    BY <1>3, CallKeepsWallet DEF Book
  <2>2. UNCHANGED << followed, txs >>
    BY <1>3 DEF Book
  <2>3. CASE UNCHANGED events
    BY <1>1, <2>1, <2>2, <2>3 DEF LedgerStep, Quiet
  <2>4. CASE \E x \in txs[u] : events' = AppendEvent(events, EventOf(u, x))
    BY <1>1, <2>1, <2>2, <2>4 DEF LedgerStep, Reports
  <2> QED  BY <1>3, <2>3, <2>4 DEF Book
<1>4. CASE UNCHANGED ledger /\ \A w \in Users : WalletKept(w)
  BY <1>1, <1>4 DEF LedgerStep, Quiet, ledger
<1>5. CASE UNCHANGED ledger /\ UNCHANGED funds
  BY <1>4, <1>5 DEF WalletKept
<1>6. CASE Moves(e) \/ SupplyRecovered(e) \/ CallLost(e)
  <2>1. UNCHANGED ledger /\ epc[e] # "pay"
    BY <1>6 DEF Moves, SupplyRecovered, CallLost
  <2> QED  BY <1>4, <2>1, CallKeepsWallet
<1>7. CASE \/ Refused(e) \/ TransferRefused(e) \/ RevertsUnseen(e) \/ ReadArb(e)
           \/ BuildSupply(e) \/ CallFails(e)
  BY <1>5, <1>7 DEF Refused, TransferRefused, RevertsUnseen, ReadArb, BuildSupply,
                    CallFails, vars
<1> QED  BY <1>2, <1>3, <1>6, <1>7 DEF ExitStep

LEMMA NextLedgerStep ==
  ASSUME ExitInv, [ExitNext]_exitVars  PROVE  LedgerStep
<1>1. /\ followed \subseteq Users /\ funds \in [ Users -> Account ]
      /\ txs \in [ Users -> SUBSET Tx ]
  BY DEF ExitInv, ExitTypeOK, TypeOK
<1>2. UNCHANGED << followed, txs, events >> /\ (\A w \in Users : WalletKept(w)) => LedgerStep
  BY <1>1 DEF LedgerStep, Quiet
<1>3. UNCHANGED << followed, txs, events >> /\ funds' = funds => LedgerStep
  BY <1>2 DEF WalletKept
<1>4. CASE EngineStep
  BY <1>2, <1>4 DEF EngineStep, WalletKept, ledger
<1>5. ASSUME NEW u \in Users, ArcMintLands(u)  PROVE LedgerStep
  <2>1. UNCHANGED << followed, txs, events >>
    BY <1>5 DEF ArcMintLands, ledger
  <2>2. \A w \in Users : WalletKept(w)
    BY <1>5, ArcLands DEF WalletKept
  <2> QED  BY <1>2, <2>1, <2>2
<1>6. ASSUME NEW u \in Users, NEW c \in Chain, NEW n \in Amounts, DepositFunds(u, c, n)
      PROVE  LedgerStep
  <2>1. /\ n \in Nat /\ "deposit" \in Kind
        /\ n <= funds[u]["wallet"] /\ funds'[u]["wallet"] = funds[u]["wallet"] - n
        /\ \A w \in Users \ {u} : WalletKept(w)
    BY <1>6, DepositMoves DEF WalletKept, Kind
  <2>2. UNCHANGED << followed, events >>
    BY <1>6 DEF DepositFunds
  <2>3. CASE u \in followed
    <3>1. txs' = [ txs EXCEPT ![u] = txs[u] \cup { NewTx(u, c, "deposit", n, TRUE) } ]
      BY <1>1, <1>6, <2>3 DEF DepositFunds
    <3>2. Follows(u, c, "deposit", n, TRUE)
      BY <2>1, <2>2, <2>3, <3>1 DEF Follows
    <3> QED  BY <2>1, <3>2 DEF LedgerStep
  <2>4. CASE u \notin followed
    <3>1. txs' = txs
      BY <1>6, <2>4 DEF DepositFunds
    <3> QED  BY <1>1, <2>1, <2>2, <2>4, <3>1 DEF LedgerStep, Quiet
  <2> QED  BY <2>3, <2>4
<1>7. ASSUME NEW u \in Users, NEW x \in txs[u], RecordFunded(u, x)  PROVE LedgerStep
  <2>1. Reports(u, x)
    BY <1>7 DEF RecordFunded, Reports, WalletKept, vars
  <2> QED  BY <2>1 DEF LedgerStep
<1>8. ASSUME NEW u \in Users, AskExit(u)  PROVE LedgerStep
  BY <1>3, <1>8, AskInv DEF vars, ledger
<1>9. ASSUME NEW t \in Tasks, BridgeRefused(t)  PROVE LedgerStep
  BY <1>3, <1>9 DEF BridgeRefused, ledger
<1>10. CASE UNCHANGED exitVars
  BY <1>3, <1>10 DEF exitVars, vars, ledger
<1> QED  BY <1>4, <1>5, <1>6, <1>7, <1>8, <1>9, <1>10, ExitLedgerStep DEF ExitNext

BooksInv == WalletsAdd /\ IdsAreUnique /\ EventsAreBacked /\ SumsAgree

LEMMA QuietKeeps == ASSUME BooksInv, Quiet  PROVE  BooksInv'
<1>1. /\ followed' = followed /\ txs' = txs /\ events' = events
      /\ \A u \in followed : funds'[u]["wallet"] = funds[u]["wallet"]
  BY DEF Quiet, WalletKept
<1>2. \A u, kind : Made(u, kind)' = Made(u, kind) /\ Booked(u, kind)' = Booked(u, kind)
  BY <1>1 DEF Made, Booked
<1>3. WalletsAdd'
  BY <1>1, <1>2 DEF BooksInv, WalletsAdd
<1>4. IdsAreUnique' /\ EventsAreBacked'
  BY <1>1 DEF BooksInv, IdsAreUnique, EventsAreBacked
<1>5. SumsAgree'
  BY <1>1, <1>2 DEF BooksInv, SumsAgree
<1> QED  BY <1>3, <1>4, <1>5 DEF BooksInv

(* Two transactions of one owner, or of two, never have the same key.      *)
LEMMA KeysDiffer ==
  ASSUME NEW u, NEW x, NEW w, NEW y
  PROVE  Key(EventOf(u, x)) = Key(EventOf(w, y)) <=>
           u = w /\ x.chain = y.chain /\ x.kind = y.kind /\ x.id = y.id
BY DEF Key, EventOf

LEMMA TxsType ==
  ASSUME ExitInv, NEW u \in Users
  PROVE  /\ txs[u] \subseteq Tx /\ IsFiniteSet(txs[u]) /\ Cardinality(txs[u]) \in Nat
         /\ \A S \in SUBSET txs[u] : IsFiniteSet(S) /\ Amount(S) \in Nat
         /\ \A x \in txs[u] : /\ x.id \in Nat /\ x.kind \in Kind /\ x.amount \in Nat
                              /\ x.ok \in BOOLEAN
<1>1. txs[u] \subseteq Tx /\ IsFiniteSet(txs[u])
  BY InvParts DEF LedgerOK
<1>2. \A x \in txs[u] : x.id \in Nat /\ x.kind \in Kind /\ x.amount \in Nat /\ x.ok \in BOOLEAN
  BY <1>1 DEF Tx
<1>3. \A S \in SUBSET txs[u] : IsFiniteSet(S)
  BY <1>1, FS_Subset
<1>4. \A S \in SUBSET txs[u] : Amount(S) \in Nat
  BY <1>2, <1>3, AmountType
<1> QED  BY <1>1, <1>2, <1>3, <1>4, FS_CardinalityType

LEMMA ReportsKeep ==
  ASSUME ExitInv, BooksInv, NEW u \in Users, NEW x \in txs[u], Reports(u, x)
  PROVE  BooksInv'
<1>1. /\ followed' = followed /\ txs' = txs /\ followed \subseteq Users
      /\ \A w \in Users : funds'[w]["wallet"] = funds[w]["wallet"]
  BY DEF Reports, WalletKept, ExitInv, ExitTypeOK
<1>2. \A w, kind : Made(w, kind)' = Made(w, kind)
  BY <1>1 DEF Made
<1>3. WalletsAdd'
  BY <1>1, <1>2 DEF BooksInv, WalletsAdd
<1>4. IdsAreUnique'
  BY <1>1 DEF BooksInv, IdsAreUnique
<1>5. CASE Recorded(events, EventOf(u, x))
  <2>1. events' = events
    BY <1>5 DEF Reports, AppendEvent
  <2>2. Quiet
    BY <1>1, <2>1 DEF Quiet, WalletKept
  <2> QED  BY <2>2, QuietKeeps
<1>6. CASE ~Recorded(events, EventOf(u, x))
  <2> DEFINE v == Appended(u, x)
  <2>1. /\ events' = events \cup {v} /\ v \notin events /\ IsFiniteSet(events)
        /\ v.user = u /\ v.kind = x.kind /\ v.amount = x.amount
        /\ Key(v) = Key(EventOf(u, x))
    <3>1. LedgerOK /\ events' = AppendEvent(events, EventOf(u, x))
      BY InvParts DEF Reports
    <3> QED  BY <1>6, <3>1, AppendType DEF LedgerOK, Key, EventOf
  <2> HIDE DEF v
  <2>2. EventsAreBacked'
    <3>1. u \in followed
      BY DEF BooksInv, IdsAreUnique
    <3> QED  BY <1>1, <2>1, <3>1 DEF BooksInv, EventsAreBacked
  <2>3. \A w, y : Recorded(events', EventOf(w, y)) <=>
                    Recorded(events, EventOf(w, y)) \/ Key(v) = Key(EventOf(w, y))
    BY <2>1 DEF Recorded
  <2>4. SumsAgree'
    <3> SUFFICES ASSUME NEW w \in followed, NEW kind \in Kind
                 PROVE  SumOf(events', w, kind) = Amount(Booked(w, kind)')
      BY <1>1 DEF SumsAgree
    <3>1. /\ Booked(w, kind)' = { y \in txs[w] : y.kind = kind /\ Recorded(events', EventOf(w, y)) }
          /\ w \in Users
      BY <1>1 DEF Booked
    <3>2. IsFiniteSet(events')
      BY <2>1, FS_AddElement
    <3>3. /\ SumOf(events, w, kind) = Amount(EventsOf(events, w, kind))
          /\ SumOf(events', w, kind) = Amount(EventsOf(events', w, kind))
          /\ SumOf(events, w, kind) = Amount(Booked(w, kind))
      BY <2>1, <3>2, SumOfIsAmount DEF BooksInv, SumsAgree
    <3>4. CASE w = u /\ kind = x.kind
      <4>1. EventsOf(events', w, kind) = EventsOf(events, w, kind) \cup {v}
        BY <2>1, <3>4 DEF EventsOf
      <4>2. Booked(w, kind)' = Booked(w, kind) \cup {x} /\ x \notin Booked(w, kind)
        <5>1. x \notin Booked(w, kind)
          BY <1>6, <3>4 DEF Booked
        <5>2. \A y \in txs[u] : Key(v) = Key(EventOf(u, y)) <=> y = x
          BY <2>1, KeysDiffer DEF BooksInv, IdsAreUnique
        <5> QED  BY <2>3, <3>1, <3>4, <5>1, <5>2 DEF Booked
      <4>3. /\ IsFiniteSet(Booked(w, kind)) /\ \A y \in Booked(w, kind) : y.amount \in Nat
            /\ x.amount \in Nat
        <5>1. Booked(w, kind) \in SUBSET txs[w]
          BY DEF Booked
        <5> QED  BY <3>1, <3>4, <5>1, TxsType
      <4>4. Amount(Booked(w, kind) \cup {x}) = Amount(Booked(w, kind)) + x.amount
        BY <4>2, <4>3, AmountAdd
      <4>5. /\ IsFiniteSet(EventsOf(events, w, kind)) /\ v \notin EventsOf(events, w, kind)
            /\ \A y \in EventsOf(events, w, kind) : y.amount \in Nat
        <5>1. EventsOf(events, w, kind) \subseteq events
          BY DEF EventsOf
        <5>2. \A y \in events : y.amount \in Nat
          BY DEF ExitInv, ExitTypeOK, FundingEvent
        <5> QED  BY <2>1, <5>1, <5>2, FS_Subset
      <4>6. Amount(EventsOf(events, w, kind) \cup {v})
              = Amount(EventsOf(events, w, kind)) + v.amount
        BY <2>1, <4>3, <4>5, AmountAdd
      <4> QED  BY <2>1, <3>3, <4>1, <4>2, <4>4, <4>6
    <3>5. CASE ~(w = u /\ kind = x.kind)
      <4>1. EventsOf(events', w, kind) = EventsOf(events, w, kind)
        BY <2>1, <3>5 DEF EventsOf
      <4>2. \A y \in txs[w] : y.kind = kind => Key(v) # Key(EventOf(w, y))
        BY <2>1, <3>5, KeysDiffer
      <4>3. Booked(w, kind)' = Booked(w, kind)
        BY <2>3, <3>1, <4>2 DEF Booked
      <4> QED  BY <3>3, <4>1, <4>3
    <3> QED  BY <3>4, <3>5
  <2> QED  BY <1>3, <1>4, <2>2, <2>4 DEF BooksInv
<1> QED  BY <1>5, <1>6

LEMMA DropsKeep ==
  ASSUME ExitInv, BooksInv, NEW u \in Users, Drops(u)  PROVE  BooksInv'
<1>1. /\ followed' = followed \ {u} /\ followed \subseteq Users
      /\ events' = { v \in events : v.user # u } /\ IsFiniteSet(events)
      /\ txs'[u] = {} /\ \A w \in Users \ {u} : txs'[w] = txs[w]
      /\ \A w \in Users \ {u} : funds'[w]["wallet"] = funds[w]["wallet"]
  BY InvParts DEF Drops, WalletKept, LedgerOK
<1>2. \A w \in Users \ {u} : \A kind : Made(w, kind)' = Made(w, kind)
  BY <1>1 DEF Made
<1>3. WalletsAdd'
  BY <1>1, <1>2 DEF BooksInv, WalletsAdd
<1>4. IdsAreUnique'
  <2> SUFFICES ASSUME NEW w \in Users
               PROVE  /\ \A x \in txs'[w] : x.id <= Cardinality(txs'[w])
                      /\ \A x, y \in txs'[w] : x.id = y.id => x = y
                      /\ w \notin followed' => txs'[w] = {}
    BY DEF IdsAreUnique
  <2>1. CASE w = u
    BY <1>1, <2>1
  <2>2. CASE w # u
    BY <1>1, <2>2 DEF BooksInv, IdsAreUnique
  <2> QED  BY <2>1, <2>2
<1>5. EventsAreBacked'
  BY <1>1 DEF BooksInv, EventsAreBacked
<1>6. SumsAgree'
  <2> SUFFICES ASSUME NEW w \in followed \ {u}, NEW kind \in Kind
               PROVE  SumOf(events', w, kind) = Amount(Booked(w, kind)')
    BY <1>1 DEF SumsAgree
  <2>1. IsFiniteSet(events')
    BY <1>1, FS_Subset
  <2>2. EventsOf(events', w, kind) = EventsOf(events, w, kind)
    BY <1>1 DEF EventsOf
  <2>3. \A y : Recorded(events', EventOf(w, y)) <=> Recorded(events, EventOf(w, y))
    BY <1>1 DEF Recorded, Key, EventOf
  <2>4. Booked(w, kind)' = Booked(w, kind)
    BY <1>1, <2>3 DEF Booked
  <2>5. SumOf(events', w, kind) = SumOf(events, w, kind)
    BY <1>1, <2>1, <2>2, SumOfIsAmount
  <2> QED  BY <2>4, <2>5 DEF BooksInv, SumsAgree
<1> QED  BY <1>3, <1>4, <1>5, <1>6 DEF BooksInv

LEMMA FollowsKeep ==
  ASSUME ExitInv, BooksInv, NEW u \in Users, NEW c \in Chain, NEW kind \in Kind,
         NEW n \in Nat, NEW ok \in BOOLEAN, Follows(u, c, kind, n, ok)
  PROVE  BooksInv'
<1> DEFINE x == NewTx(u, c, kind, n, ok)
<1>1. /\ u \in followed /\ followed' = followed /\ events' = events /\ followed \subseteq Users
      /\ txs \in [ Users -> SUBSET Tx ]
      /\ txs'[u] = txs[u] \cup {x} /\ \A w \in Users \ {u} : txs'[w] = txs[w]
      /\ \A w \in Users \ {u} : funds'[w]["wallet"] = funds[w]["wallet"]
  BY DEF Follows, WalletKept, ExitInv, ExitTypeOK
<1>2. /\ x.id = Cardinality(txs[u]) + 1 /\ x.kind = kind /\ x.amount = n /\ x.ok = ok
      /\ x.chain = c
  BY DEF NewTx
<1>3. /\ Cardinality(txs[u]) \in Nat /\ IsFiniteSet(txs[u])
      /\ \A y \in txs[u] : y.id \in Nat /\ y.id <= Cardinality(txs[u]) /\ y.id # x.id
  BY <1>2, TxsType DEF BooksInv, IdsAreUnique
<1> HIDE DEF x
<1>4. x \notin txs[u]
  BY <1>3
<1>5. IdsAreUnique'
  <2> SUFFICES ASSUME NEW w \in Users
               PROVE  /\ \A y \in txs'[w] : y.id <= Cardinality(txs'[w])
                      /\ \A y, z \in txs'[w] : y.id = z.id => y = z
                      /\ w \notin followed' => txs'[w] = {}
    BY DEF IdsAreUnique
  <2>1. CASE w # u
    BY <1>1, <2>1 DEF BooksInv, IdsAreUnique
  <2>2. CASE w = u
    <3>1. Cardinality(txs'[u]) = Cardinality(txs[u]) + 1
      <4>1. Cardinality(txs[u] \cup {x}) = Cardinality(txs[u]) + 1
        BY <1>3, <1>4, FS_AddElement
      <4> QED  BY <1>1, <4>1
    <3>2. \A y \in txs'[u] : y.id <= Cardinality(txs'[u])
      BY <1>1, <1>2, <1>3, <3>1
    <3>3. \A y, z \in txs'[u] : y.id = z.id => y = z
      BY <1>1, <1>3 DEF BooksInv, IdsAreUnique
    <3> QED  BY <1>1, <2>2, <3>2, <3>3
  <2> QED  BY <2>1, <2>2
<1>6. EventsAreBacked'
  <2>1. \A v \in events : v.user \in Users /\ txs[v.user] \subseteq txs'[v.user]
    BY <1>1 DEF BooksInv, EventsAreBacked
  <2> QED  BY <1>1, <2>1 DEF BooksInv, EventsAreBacked
<1>7. SumsAgree'
  <2>1. ~Recorded(events, EventOf(u, x))
    <3> SUFFICES ASSUME NEW v \in events, Key(v) = Key(EventOf(u, x))  PROVE FALSE
      BY DEF Recorded
    <3>1. PICK y \in txs[v.user] : Key(v) = Key(EventOf(v.user, y))
      BY DEF BooksInv, EventsAreBacked
    <3>2. v.user = u /\ y.id = x.id
      BY <3>1 DEF Key, EventOf
    <3> QED  BY <1>3, <3>1, <3>2
  <2>2. \A w \in followed, k \in Kind : Booked(w, k)' = Booked(w, k)
    <3> SUFFICES ASSUME NEW w \in followed, NEW k \in Kind
                 PROVE  Booked(w, k)' = Booked(w, k)
      OBVIOUS
    <3>1. Booked(w, k)' = { y \in txs'[w] : y.kind = k /\ Recorded(events, EventOf(w, y)) }
      BY <1>1 DEF Booked
    <3>2. CASE w # u
      BY <1>1, <3>1, <3>2 DEF Booked
    <3>3. CASE w = u
      BY <1>1, <2>1, <3>1, <3>3 DEF Booked
    <3> QED  BY <3>2, <3>3
  <2> QED  BY <1>1, <2>2 DEF BooksInv, SumsAgree
<1>8. WalletsAdd'
  <2> SUFFICES ASSUME NEW w \in followed
               PROVE  funds'[w]["wallet"] + Amount(Made(w, "deposit")')
                        = Endowment + Amount(Made(w, "withdraw_to_eoa")')
    BY <1>1 DEF WalletsAdd
  <2>1. funds[w]["wallet"] + Amount(Made(w, "deposit"))
          = Endowment + Amount(Made(w, "withdraw_to_eoa"))
    BY DEF BooksInv, WalletsAdd
  <2>2. \A k : Made(w, k)' = { y \in txs'[w] : y.kind = k /\ y.ok }
    BY DEF Made
  <2>3. CASE w # u
    <3>1. \A k : Made(w, k)' = Made(w, k)
      BY <1>1, <2>2, <2>3 DEF Made
    <3> QED  BY <1>1, <2>1, <2>3, <3>1
  <2>4. CASE w = u
    <3>1. \A k : Made(u, k)' = IF k = kind /\ ok THEN Made(u, k) \cup {x} ELSE Made(u, k)
      BY <1>1, <1>2, <2>2, <2>4 DEF Made
    <3>2. ASSUME NEW k
          PROVE  /\ Amount(Made(u, k)) \in Nat
                 /\ Amount(Made(u, k) \cup {x}) = Amount(Made(u, k)) + n
      <4>1. Made(u, k) \in SUBSET txs[u]
        BY DEF Made
      <4>2. /\ IsFiniteSet(Made(u, k)) /\ \A y \in Made(u, k) : y.amount \in Nat
            /\ Amount(Made(u, k)) \in Nat
        BY <4>1, TxsType
      <4>3. x \notin Made(u, k)
        BY <1>4, <4>1
      <4> QED  BY <1>2, <4>2, <4>3, AmountAdd
    <3>3. Endowment \in Nat /\ funds[u]["wallet"] \in Nat
      <4>1. funds[u] \in Account /\ "wallet" \in Location
        BY DEF ExitInv, ExitTypeOK, TypeOK, Location
      <4> QED  BY <4>1, EngineAssumption DEF Account
    <3>4. CASE ~ok
      BY <2>1, <2>4, <3>1, <3>4 DEF Follows, WalletKept
    <3>5. CASE ok /\ kind = "deposit"
      <4>1. n <= funds[u]["wallet"] /\ funds'[u]["wallet"] = funds[u]["wallet"] - n
        BY <3>5 DEF Follows
      <4>2. /\ Amount(Made(u, "deposit")') = Amount(Made(u, "deposit")) + n
            /\ Made(u, "withdraw_to_eoa")' = Made(u, "withdraw_to_eoa")
        BY <3>1, <3>2, <3>5
      <4>3. Amount(Made(u, "deposit")) \in Nat /\ Amount(Made(u, "withdraw_to_eoa")) \in Nat
        BY <3>2
      <4> QED  BY <2>1, <2>4, <3>3, <4>1, <4>2, <4>3
    <3>6. CASE ok /\ kind = "withdraw_to_eoa"
      <4>1. funds'[u]["wallet"] = funds[u]["wallet"] + n
        BY <3>6 DEF Follows
      <4>2. /\ Amount(Made(u, "withdraw_to_eoa")') = Amount(Made(u, "withdraw_to_eoa")) + n
            /\ Made(u, "deposit")' = Made(u, "deposit")
        BY <3>1, <3>2, <3>6
      <4>3. Amount(Made(u, "deposit")) \in Nat /\ Amount(Made(u, "withdraw_to_eoa")) \in Nat
        BY <3>2
      <4> QED  BY <2>1, <2>4, <3>3, <4>1, <4>2, <4>3
    <3> QED  BY <3>4, <3>5, <3>6 DEF Kind
  <2> QED  BY <2>3, <2>4
<1> QED  BY <1>5, <1>6, <1>7, <1>8 DEF BooksInv

LEMMA BooksNext == ASSUME ExitInv, BooksInv, [ExitNext]_exitVars  PROVE  BooksInv'
BY NextLedgerStep, QuietKeeps, ReportsKeep, FollowsKeep, DropsKeep DEF LedgerStep

(* An exit makes and loses no money either.                                *)
LEMMA TotalNext ==
  ASSUME ExitInv, NothingIsLost, [ExitNext]_exitVars  PROVE  NothingIsLost'
<1>1. CASE \A e \in Exits : ~ExitStep(e)
  BY <1>1, RestKeeps DEF NothingIsLost, Keeps
<1>2. ASSUME NEW e \in Exits, ExitStep(e)  PROVE  NothingIsLost'
  <2>1. CASE UNCHANGED funds
    BY <2>1 DEF NothingIsLost
  <2>2. CASE epc[e] \in Calls /\ funds'[Owner(e)] \in Outcomes(e)
    <3>1. Wealth(funds'[Owner(e)]) = Wealth(funds[Owner(e)])
      BY <2>2, CallMoves DEF Holds
    <3>2. \A w \in Users \ {Owner(e)} : funds'[w] = funds[w]
      BY <1>2, StepFrame
    <3> QED  BY <3>1, <3>2 DEF NothingIsLost
  <2> QED  BY <1>2, <2>1, <2>2, StepFrame
<1> QED  BY <1>1, <1>2

(* At the start everything is in the wallet.                               *)
LEMMA SumOfOne ==
  ASSUME NEW S, IsFiniteSet(S), NEW y \in S, NEW w, \A x \in S : w[x] \in Nat,
         \A x \in S \ {y} : w[x] = 0
  PROVE  SumOver(w, S) = w[y]
<1> DEFINE R == S \ {y}
           z == [ x \in S |-> 0 ]
<1>1. SumOver(w, S) = w[y] + SumOver(w, R) /\ IsFiniteSet(R) /\ w[y] \in Nat
  BY SumTake, FS_Subset
<1>2. \A T \in SUBSET R : T # {} => Some(T) \in T
  BY DEF Some
<1>3. SumOver(w, R) = 0
  <2> SUFFICES ASSUME SumOver(w, R) # 0  PROVE FALSE
    OBVIOUS
  <2> DEFINE B == { T \in SUBSET R : SumOver(w, T) # 0 }
  <2>1. PICK T \in B : \A U \in B : U \subseteq T => U = T
    <3>1. B \subseteq SUBSET R /\ R \in B /\ IsFiniteSet(R)
      BY <1>1
    <3> HIDE DEF B, R
    <3> QED  BY <3>1, SmallestSubset
  <2>2. IsFiniteSet(T)
    BY <1>1, FS_Subset
  <2>3. T # {}
    <3>1. T = {} => SumOver(w, T) = 0
      <4> HIDE DEF B
      <4> QED  BY <2>2, SumUnfold
    <3> QED  BY <3>1
  <2>4. Some(T) \in T /\ w[Some(T)] = 0
    BY <1>2, <2>3
  <2>5. SumOver(w, T \ {Some(T)}) = 0
    <3>1. T \ {Some(T)} \notin B
      BY <2>1, <2>4
    <3> QED  BY <3>1
  <2>6. SumOver(w, T) = w[Some(T)] + SumOver(w, T \ {Some(T)})
    <3> HIDE DEF B, R
    <3> QED  BY <2>2, <2>3, SumUnfold
  <2> QED  BY <2>4, <2>5, <2>6
<1> HIDE DEF R
<1> QED  BY <1>1, <1>3

LEMMA InitLedger == ExitInit => LedgerInv
<1> SUFFICES ASSUME ExitInit  PROVE  LedgerInv
  OBVIOUS
<1>1. /\ \A u \in Users : txs[u] = {}
      /\ events = {} /\ followed \subseteq Users
      /\ \A u \in Users, l \in Location :
            funds[u][l] = IF l = "wallet" THEN Endowment ELSE 0
  BY DEF ExitInit, Init
<1>2. Endowment \in Nat /\ "wallet" \in Location
  BY EngineAssumption DEF Location
<1>3. NothingIsLost
  <2> SUFFICES ASSUME NEW u \in Users  PROVE  Wealth(funds[u]) = Endowment
    BY DEF NothingIsLost
  <2>1. SumOver(funds[u], Location) = funds[u]["wallet"]
    BY <1>1, <1>2, LocationFinite, SumOfOne
  <2> QED  BY <1>1, <1>2, <2>1 DEF Wealth
<1>4. \A u \in Users : \A k : Made(u, k) = {} /\ Booked(u, k) = {}
  BY <1>1 DEF Made, Booked
<1>5. WalletsAdd
  BY <1>1, <1>2, <1>4, AmountEmpty DEF WalletsAdd
<1>6. IdsAreUnique /\ EventsAreBacked
  BY <1>1 DEF IdsAreUnique, EventsAreBacked
<1>7. SumsAgree
  <2>1. \A u, k : EventsOf(events, u, k) = {}
    BY <1>1 DEF EventsOf
  <2>2. IsFiniteSet(events)
    BY <1>1, FS_EmptySet
  <2> QED  BY <1>1, <1>4, <2>1, <2>2, SumOfIsAmount DEF SumsAgree
<1> QED  BY <1>3, <1>5, <1>6, <1>7 DEF LedgerInv

LEMMA LedgerShows == ASSUME ExitInv, LedgerInv  PROVE  EarningsAreExplained
<1> SUFFICES ASSUME NEW u \in followed,
                    \A x \in txs[u] : x.ok /\ Recorded(events, EventOf(u, x))
             PROVE  GrossEarned(u) = - SumOver(funds[u], InTransit)
  BY DEF EarningsAreExplained
<1> DEFINE a    == funds[u]
           D    == SumOf(events, u, "deposit")
           W    == SumOf(events, u, "withdraw_to_eoa")
           R1   == Location \ {ArcIdle}
           R2   == R1 \ {ArbIdle}
           R3   == R2 \ {ArbAave}
           rest == R3 \ {"wallet"}
<1>1. /\ u \in Users /\ a \in Account /\ Wealth(a) = Endowment /\ Endowment \in Nat
  BY EngineAssumption DEF ExitInv, ExitTypeOK, TypeOK, LedgerInv, NothingIsLost
<1>2. D = Amount(Made(u, "deposit")) /\ W = Amount(Made(u, "withdraw_to_eoa"))
  <2>1. \A k \in Kind : Booked(u, k) = Made(u, k)
    BY DEF Booked, Made
  <2>2. D = Amount(Booked(u, "deposit")) /\ W = Amount(Booked(u, "withdraw_to_eoa"))
    BY DEF LedgerInv, SumsAgree, Kind
  <2> QED  BY <2>1, <2>2 DEF Kind
<1>3. D \in Nat /\ W \in Nat
  <2>1. \A k : Made(u, k) \in SUBSET txs[u]
    BY DEF Made
  <2>2. \A S \in SUBSET txs[u] : Amount(S) \in Nat
    BY <1>1, TxsType
  <2> QED  BY <1>2, <2>1, <2>2
<1>4. a["wallet"] + D = Endowment + W
  BY <1>2 DEF LedgerInv, WalletsAdd
<1>5. NetDeposited(events, u) = IF D > W THEN D - W ELSE 0
  BY DEF NetDeposited
<1>6. InTransit = rest
  BY DEF InTransit
<1>7. /\ ArcIdle \in Location /\ ArbIdle \in R1 /\ ArbAave \in R2 /\ "wallet" \in R3
  BY DEF Location, ArcIdle, ArbIdle, ArbAave
<1>8. IsFiniteSet(R1) /\ IsFiniteSet(R2) /\ IsFiniteSet(R3) /\ IsFiniteSet(rest)
  BY LocationFinite, FS_Subset
<1>9. \A l \in Location : a[l] \in Nat
  BY <1>1 DEF Account
<1>10. \A S \in SUBSET Location : \A l \in S : a[l] \in Nat
  BY <1>9
<1> HIDE DEF a, D, W
<1>11. Wealth(a) = a[ArcIdle] + SumOver(a, R1)
  BY <1>7, <1>9, LocationFinite, SumTake DEF Wealth
<1>12. SumOver(a, R1) = a[ArbIdle] + SumOver(a, R2)
  <2>1. \A l \in R1 : a[l] \in Nat
    BY <1>9
  <2> HIDE DEF R1
  <2> QED  BY <1>7, <1>8, <2>1, SumTake
<1>13. SumOver(a, R2) = a[ArbAave] + SumOver(a, R3)
  <2>1. \A l \in R2 : a[l] \in Nat
    BY <1>9
  <2> HIDE DEF R2
  <2> QED  BY <1>7, <1>8, <2>1, SumTake
<1>14. SumOver(a, R3) = a["wallet"] + SumOver(a, rest)
  <2>1. \A l \in R3 : a[l] \in Nat
    BY <1>9
  <2> HIDE DEF R3
  <2> QED  BY <1>7, <1>8, <2>1, SumTake
<1>15. SumOver(a, rest) \in Nat
  <2>1. \A l \in rest : a[l] \in Nat
    BY <1>9
  <2> HIDE DEF rest
  <2> QED  BY <1>8, <2>1, SumType
<1>16. /\ a[ArcIdle] \in Nat /\ a[ArbIdle] \in Nat /\ a[ArbAave] \in Nat
       /\ a["wallet"] \in Nat
  BY <1>7, <1>9
<1>17. GrossEarned(u) = a[ArcIdle] + a[ArbIdle] + a[ArbAave] - NetDeposited(events, u)
  BY DEF GrossEarned, a
<1> HIDE DEF R1, R2, R3, rest
<1>18. NetDeposited(events, u) = Endowment - a["wallet"]
  <2>1. a["wallet"] <= Endowment
    BY <1>1, <1>11, <1>12, <1>13, <1>14, <1>15, <1>16
  <2>2. D - W = Endowment - a["wallet"] /\ W <= D
    BY <1>1, <1>3, <1>4, <1>16, <2>1
  <2> QED  BY <1>1, <1>3, <1>5, <1>16, <2>1, <2>2
<1>19. GrossEarned(u) = - SumOver(a, rest)
  <2>1. Endowment = a[ArcIdle] + (a[ArbIdle] + (a[ArbAave] + (a["wallet"] + SumOver(a, rest))))
    BY <1>1, <1>11, <1>12, <1>13, <1>14
  <2>2. \A v, w, x, y, z \in Nat : v + w + x - ((v + (w + (x + (y + z)))) - y) = - z
    OBVIOUS
  <2> QED  BY <1>15, <1>16, <1>17, <1>18, <2>1, <2>2
<1> QED  BY <1>6, <1>19 DEF a

(* Once all of a followed owner's transactions are reported and none of    *)
(* the payments has reverted, GET /earnings shows no gain, and as a loss   *)
(* just what is on its way: a transaction reported twice or late counts    *)
(* once, and no part of the engine or of an exit makes or loses money      *)
(* (src/api/earnings.rs, funded.rs, src/automation/funding).               *)
THEOREM ExitsExplainEarnings == ExitSpec => []EarningsAreExplained
<1>1. ExitInit => LedgerInv
  BY InitLedger
<1>2. ExitInv /\ LedgerInv /\ [ExitNext]_exitVars => LedgerInv'
  BY BooksNext, TotalNext DEF LedgerInv, BooksInv
<1>3. ExitInv /\ LedgerInv => EarningsAreExplained
  BY LedgerShows
<1> QED  BY <1>1, <1>2, <1>3, ExitInvariant, PTL DEF ExitSpec
=============================================================================
