------------------------------ MODULE Evaluator ------------------------------
(***************************************************************************)
(* The decision functions of the automation engine:                        *)
(*   evaluate      src/automation/evaluator/mod.rs                         *)
(*   risk gate     src/automation/risk_gate.rs                             *)
(*   routing       dispatch_action of src/automation/executor.rs           *)
(*                                                                         *)
(* The code walks HashMaps (Position::holdings), whose iteration order is  *)
(* not defined, and stops at the first hit.  Evaluate is therefore a SET:  *)
(* the decisions some iteration order returns.                             *)
(*                                                                         *)
(* A holding that is absent and one that is zero are treated alike by      *)
(* every reader, so holdings is a total function.                          *)
(***************************************************************************)
EXTENDS Policy

CONSTANTS
  BpUnit,     \* APR units in one basis point: an APR is finer than a bps
  YearScale,  \* the 365 days of the profit formula, in the units of its product
  MaxAge      \* SNAPSHOT_MAX_AGE_MIN

ASSUME UnitsAssumption ==
  /\ BpUnit    \in Nat \ {0}
  /\ YearScale \in Nat \ {0}
  /\ MaxAge    \in Nat

Never   == -1        \* last_action_at has no entry for the venue
NoVenue == "none"    \* drain_to: None

Position ==
  [ holdings     : [Venue -> Nat],
    lastActionAt : [Venue -> Int],
    actionsToday : Nat ]

VenueState == [ apr : Nat, utilization : Nat, tvlDrop : Nat ]

(* The venues map is partial: listed is its domain, and what venues says   *)
(* of a venue that is not listed is never read.                            *)
Snapshot ==
  [ builtAt : Int,
    peg     : Nat,
    gateway : {"ok", "degraded", "down"},
    listed  : SUBSET Venue,
    venues  : [Venue -> VenueState],
    gas     : [Chain -> Nat],
    fee     : Nat ]

Plan == [ from : Venue, to : Venue, amount : Nat, cost : Nat ]

NoopReason ==
  { "no_capital", "already_at_best_venue", "apr_delta_below_threshold",
    "destination_in_cooldown", "best_venue_at_cap", "gas_exceeds_cap",
    "ev_below_threshold", "daily_quota_reached", "gateway_down" }

BreakReason == { "snapshot_stale", "usdc_depeg", "utilization", "tvl_drop" }

Decision ==
  [ kind : {"noop"}, reason : NoopReason ]
    \cup [ kind : {"act"}, plan : Plan ]
    \cup [ kind : {"escalate"}, venue : Venue ]
    \cup [ kind : {"circuit_break"}, reason : BreakReason,
           drainTo : Venue \cup {NoVenue} ]

Noop(why)             == [ kind |-> "noop", reason |-> why ]
Act(plan)             == [ kind |-> "act", plan |-> plan ]
Escalate(venue)       == [ kind |-> "escalate", venue |-> venue ]
CircuitBreak(why, to) ==
  [ kind |-> "circuit_break", reason |-> why, drainTo |-> to ]

-----------------------------------------------------------------------------
Total(h) == h[ArcIdle] + h[ArcAave] + h[ArbIdle] + h[ArbAave]

MulPct(n, pct) == (n * pct) \div 100

Least(a, b) == IF a < b THEN a ELSE b

Apr(s, v) == IF IsIdle(v) \/ v \notin s.listed THEN 0
                                               ELSE s.venues[v].apr

(* pick_idle: the first idle venue of the whitelist, or idle on the first  *)
(* chain.  A singleton, like BestVenues.                                   *)
PickIdle(p) ==
  LET idle == { i \in DOMAIN p.whitelist : IsIdle(p.whitelist[i]) }
  IN  IF idle = {}
        THEN { IdleOn(p.chains[1]) }
        ELSE { p.whitelist[i] : i \in { i \in idle : \A j \in idle : i <= j } }

(* rank_candidates()[0]: a stable sort by falling APR puts the first of    *)
(* the best ones in front.  A singleton: the whitelist is not empty.       *)
BestVenues(p, s) ==
  { p.whitelist[i] : i \in
      { i \in DOMAIN p.whitelist :
          \A j \in DOMAIN p.whitelist :
             \/ Apr(s, p.whitelist[j]) < Apr(s, p.whitelist[i])
             \/ Apr(s, p.whitelist[j]) = Apr(s, p.whitelist[i]) /\ i <= j } }

(* worst_holding: a held venue of least APR among those that are           *)
(* whitelisted or idle.  Ties go to the one the HashMap yields first.      *)
WorstHoldings(p, s, pos) ==
  LET movable == { v \in Venue : /\ pos.holdings[v] > 0
                                 /\ v \in Listed(p.whitelist) \/ IsIdle(v) }
  IN  { v \in movable : \A w \in movable : Apr(s, v) <= Apr(s, w) }

-----------------------------------------------------------------------------
Overused(p, s, v) == s.venues[v].utilization > p.utilMax

(* Mutant: the drop is held against the limit of the utilisation.          *)
DroppedMixedUp(p, s, v) == s.venues[v].tvlDrop > p.utilMax
Dropped(p, s, v)        == s.venues[v].tvlDrop > p.tvlDropMax

(* check_held_venue_health: what each held, unhealthy venue would return.  *)
HealthAlarms(p, s, pos) ==
  LET held     == { v \in Venue : pos.holdings[v] > 0 /\ ~IsIdle(v) }
      known    == held \cap s.listed
      overused == { v \in known : Overused(p, s, v) }
      dropped  == { v \in known \ overused : Dropped(p, s, v) }
  IN  { Escalate(v) : v \in held \ s.listed }
        \cup { CircuitBreak("utilization", to) : v \in overused, to \in PickIdle(p) }
        \cup { CircuitBreak("tvl_drop", to) : v \in dropped, to \in PickIdle(p) }

MoveCost(s, from, to) ==
  s.gas[ChainOf(from)] + s.gas[ChainOf(to)]
    + (IF ChainOf(from) # ChainOf(to) THEN s.fee ELSE 0)

(* Mutant: what the source venue holds is forgotten.                       *)
MoveAmountUnheld(p, pos, from, to) ==
  LET total == Total(pos.holdings)
      cap   == MulPct(total, p.capPct)
      room  == IF pos.holdings[to] < cap THEN cap - pos.holdings[to] ELSE 0
  IN  Least(MulPct(total, p.movePct), room)

(* Mutant: what the destination already holds is forgotten.                *)
MoveAmountOverCap(p, pos, from, to) ==
  LET total == Total(pos.holdings)
  IN  Least(Least(pos.holdings[from], MulPct(total, p.movePct)),
            MulPct(total, p.capPct))

(* Mutant: a subtraction that does not stop at zero.                       *)
MoveAmountUnderflow(p, pos, from, to) ==
  LET total == Total(pos.holdings)
      room  == MulPct(total, p.capPct) - pos.holdings[to]
  IN  Least(Least(pos.holdings[from], MulPct(total, p.movePct)), room)

MoveAmount(p, pos, from, to) ==
  LET total == Total(pos.holdings)
      cap   == MulPct(total, p.capPct)
      room  == IF pos.holdings[to] < cap THEN cap - pos.holdings[to] ELSE 0
  IN  Least(Least(pos.holdings[from], MulPct(total, p.movePct)), room)

(* Mutant: a limit in minutes read as seconds.                             *)
InCooldownSeconds(p, pos, to, now) ==
  /\ pos.lastActionAt[to] # Never
  /\ now - pos.lastActionAt[to] < p.minIdle \div 60

InCooldown(p, pos, to, now) ==
  /\ pos.lastActionAt[to] # Never
  /\ now - pos.lastActionAt[to] < p.minIdle

(* Mutant: a threshold in basis points taken for a fraction of one.        *)
BelowTriggerFraction(p, delta) == delta < (p.aprDelta * BpUnit) \div 10000
BelowTrigger(p, delta)         == delta < p.aprDelta * BpUnit

(* propose_rebalance once the best and the worst venue are known.          *)
Propose(p, s, pos, now, from, to) ==
  LET delta  == Apr(s, to) - Apr(s, from)
      amount == MoveAmount(p, pos, from, to)
      cost   == MoveCost(s, from, to)
      profit == amount * s.peg * delta * p.holdDays
  IN  IF from = to                       THEN Noop("already_at_best_venue")
      ELSE IF BelowTrigger(p, delta)       THEN Noop("apr_delta_below_threshold")
      ELSE IF InCooldown(p, pos, to, now) THEN Noop("destination_in_cooldown")
      ELSE IF amount = 0                  THEN Noop("best_venue_at_cap")
      ELSE IF cost > p.maxGas             THEN Noop("gas_exceeds_cap")
      ELSE IF /\ p.minProfit > 0
              /\ profit < (cost + p.minProfit) * YearScale
                                          THEN Noop("ev_below_threshold")
      ELSE Act([ from |-> from, to |-> to, amount |-> amount, cost |-> cost ])

ProposeRebalance(p, s, pos, now) ==
  IF WorstHoldings(p, s, pos) = {}
    THEN { Noop("no_capital") }
    ELSE { Propose(p, s, pos, now, from, to) :
             from \in WorstHoldings(p, s, pos), to \in BestVenues(p, s) }

(* Mutant: the comparison the wrong way round.                             *)
StaleInverted(s, now) == now - s.builtAt <= MaxAge
Stale(s, now)         == now - s.builtAt > MaxAge

(* Mutant: one action too many.                                            *)
QuotaReachedLate(p, pos) == pos.actionsToday > p.maxActions
QuotaReached(p, pos)     == pos.actionsToday >= p.maxActions

Evaluate(p, s, pos, now) ==
  IF Stale(s, now)          THEN { CircuitBreak("snapshot_stale", NoVenue) }
  ELSE IF s.peg < p.pegMin  THEN { CircuitBreak("usdc_depeg", to) :
                                     to \in PickIdle(p) }
  ELSE IF HealthAlarms(p, s, pos) # {} THEN HealthAlarms(p, s, pos)
  ELSE IF s.gateway = "down"           THEN { Noop("gateway_down") }
  ELSE IF QuotaReached(p, pos)         THEN { Noop("daily_quota_reached") }
  ELSE ProposeRebalance(p, s, pos, now)

-----------------------------------------------------------------------------
(* Mutant: the gate is stricter than the evaluator at the boundary.        *)
GatePassesStrict(status, p, plan) == status # "paused" /\ plan.cost < p.maxGas

(* risk_gate::check.  A plan always has one action, so the empty-plan case *)
(* cannot be reached from Evaluate.                                        *)
GatePasses(status, p, plan) == status # "paused" /\ plan.cost <= p.maxGas

(* Mutant: the bridge is expected from the wrong chain.                    *)
RouteFromArb(plan) ==
  IF IsIdle(plan.from) /\ ~IsIdle(plan.to) THEN
       IF ChainOf(plan.from) = ChainOf(plan.to) THEN "supply"
       ELSE IF plan.from = ArbIdle              THEN "bridge"
                                                ELSE "unsupported"
  ELSE "unsupported"

(* dispatch_action: the steps an action is turned into.                    *)
Route(plan) ==
  IF IsIdle(plan.from) /\ ~IsIdle(plan.to) THEN
       IF ChainOf(plan.from) = ChainOf(plan.to) THEN "supply"
       ELSE IF plan.from = ArcIdle              THEN "bridge"
                                                ELSE "unsupported"
  ELSE IF /\ ~IsIdle(plan.from)
          /\ IsIdle(plan.to)
          /\ ChainOf(plan.from) = ChainOf(plan.to) THEN "withdraw"
  ELSE "unsupported"
=============================================================================
