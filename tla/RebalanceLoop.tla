---------------------------- MODULE RebalanceLoop ----------------------------
(***************************************************************************)
(* What the evaluator promises when everything around it is ideal: each    *)
(* tick evaluates the true position, an Act decision is carried out        *)
(* exactly and at once, and the position records it (last_action_at,       *)
(* actions_today).  This is the contract the policy's limits are written   *)
(* against; module Engine is the loop the code really runs.                *)
(***************************************************************************)
EXTENDS Evaluator

CONSTANTS
  Policies,   \* the policies an owner may have committed
  Markets,    \* snapshots the worker may publish, builtAt still to be set
  Positions,  \* initial positions
  TickEvery,  \* minutes between two cron cycles
  Horizon,    \* bound: the last minute of the day that is modelled
  Ages        \* ages, in minutes, a snapshot may have when it is read

ASSUME LoopAssumption ==
  /\ \A p \in Policies  : p \in PolicyBody /\ Valid(p)
  /\ \A m \in Markets   : m \in Snapshot
  /\ \A x \in Positions : /\ x \in Position
                          /\ x.actionsToday = 0
                          /\ x.lastActionAt = [v \in Venue |-> Never]
  /\ TickEvery \in Nat \ {0}
  /\ Horizon \in Nat
  /\ Ages \subseteq Nat

VARIABLES
  policy,    \* the policy in force, never changed in this loop
  position,  \* the position, kept up to date by the loop itself
  now,       \* minutes since the start of the day
  market,    \* the snapshot the last tick read
  decision,  \* what the last tick decided
  moves      \* the moves made so far, oldest first

vars == << policy, position, now, market, decision, moves >>

MoveRecord == [ at : Nat, from : Venue, to : Venue, amount : Nat ]

Init ==
  /\ policy   \in Policies
  /\ position \in Positions
  /\ now      = 0
  /\ market   \in Markets
  /\ decision = Noop("no_capital")
  /\ moves    = <<>>

Moved(pos, plan, at) ==
  [ holdings     |-> [ pos.holdings EXCEPT ![plan.from] = @ - plan.amount,
                                           ![plan.to]   = @ + plan.amount ],
    lastActionAt |-> [ pos.lastActionAt EXCEPT ![plan.to] = at ],
    actionsToday |-> pos.actionsToday + 1 ]

Carry(plan) ==
  /\ position' = Moved(position, plan, now)
  /\ moves' = Append(moves, [ at |-> now, from |-> plan.from,
                              to |-> plan.to, amount |-> plan.amount ])

Tick(m, age) ==
  /\ now <= Horizon
  /\ market' = [ m EXCEPT !.builtAt = now - age ]
  /\ decision' \in Evaluate(policy, market', position, now)
  /\ IF decision'.kind = "act" THEN Carry(decision'.plan)
                               ELSE UNCHANGED << position, moves >>
  /\ now' = now + TickEvery
  /\ UNCHANGED policy

Next == \E m \in Markets, age \in Ages : Tick(m, age)

Spec == Init /\ [][Next]_vars

-----------------------------------------------------------------------------
(* Every variable keeps its type.                                          *)
TypeOK ==
  /\ policy   \in Policies
  /\ position \in Position
  /\ now      \in Nat
  /\ market   \in Snapshot
  /\ moves    \in Seq(MoveRecord)

(* caps.max_actions_per_day: no more moves than the policy allows, however *)
(* the market turns between ticks.                                         *)
QuotaHolds == Len(moves) <= policy.maxActions

(* triggers.min_idle_minutes: a venue that received capital does not       *)
(* receive again before the cooldown has passed.                           *)
CooldownHolds ==
  \A i, j \in DOMAIN moves :
     i < j /\ moves[i].to = moves[j].to
       => moves[j].at - moves[i].at >= policy.minIdle

(* protocols.per_protocol_cap_pct: a move never lifts its destination over *)
(* its share of the whole position, nor takes more than is there.          *)
CapHolds ==
  [][ moves' # moves =>
        LET m == moves'[Len(moves')]
        IN  /\ position'.holdings[m.to] * 100
                 <= policy.capPct * Total(position'.holdings)
            /\ m.amount <= position.holdings[m.from]
            /\ Total(position'.holdings) = Total(position.holdings) ]_vars

(* With the market the move was decided on, a move raises the yield of the *)
(* position, so no series of moves can come back to where it started       *)
(* without the market having turned.                                       *)
Yield(h, s) ==
  h[ArcAave] * Apr(s, ArcAave) + h[ArbAave] * Apr(s, ArbAave)

MovesRaiseYield ==
  [][ moves' # moves =>
        Yield(position'.holdings, market') > Yield(position.holdings, market')
    ]_vars

(* A tripped breaker, a dead gateway or a stale snapshot keeps capital     *)
(* where it is: the code in this repository never drains on its own.       *)
MovesOnlyInCalm ==
  [][ moves' # moves =>
        /\ ~Stale(market', now)
        /\ market'.peg >= policy.pegMin
        /\ market'.gateway # "down"
        /\ \A v \in Venue : position.holdings[v] > 0 /\ ~IsIdle(v)
             => /\ v \in market'.listed
                /\ market'.venues[v].utilization <= policy.utilMax
                /\ market'.venues[v].tvlDrop <= policy.tvlDropMax ]_vars

(* The three deciders agree: what evaluate plans, the risk gate lets pass  *)
(* under the same policy and the executor knows how to dispatch, provided  *)
(* the only venue with data is AAVE on Arbitrum, as build_snapshot's is.   *)
PlansAreExecutable ==
  decision.kind = "act" /\ ArcAave \notin market.listed
    => /\ GatePasses("active", policy, decision.plan)
       /\ Route(decision.plan) \in {"supply", "bridge"}
=============================================================================
