------------------------------- MODULE Policy -------------------------------
(***************************************************************************)
(* Venues and policies: the vocabulary of src/automation/policy/schema.rs. *)
(* A policy is the record an owner commits; the store adds a version to    *)
(* it.  Prices, ratios and APRs are integers: the peg, utilisation and TVL *)
(* drop in percent, gas and profit in one money unit, APR in the units of  *)
(* Evaluator!BpUnit.  Labels, timestamps of creation and notification      *)
(* settings steer nothing and are left out.                                *)
(***************************************************************************)
EXTENDS Integers, Sequences

Chain == {"arc", "arb"}

ArcIdle == "arc_idle"
ArcAave == "arc_aave"
ArbIdle == "arb_idle"
ArbAave == "arb_aave"
Venue   == {ArcIdle, ArcAave, ArbIdle, ArbAave}

ChainOf(v) == IF v \in {ArcIdle, ArcAave} THEN "arc" ELSE "arb"
IsIdle(v)  == v \in {ArcIdle, ArbIdle}

IdleOn(c) == IF c = "arc" THEN ArcIdle ELSE ArbIdle

(***************************************************************************)
(* The fields of a policy the engine reads.  The types are those of the    *)
(* Rust struct (u8, u32, f64); Valid is what a stored policy satisfies.    *)
(***************************************************************************)
PolicyBody ==
  [ whitelist  : Seq(Venue),   \* protocols.whitelist, in the order given
    chains     : Seq(Chain),   \* chains.whitelist
    capPct     : Nat,          \* protocols.per_protocol_cap_pct
    aprDelta   : Nat,          \* triggers.apr_delta_bps
    lookback   : Nat,          \* triggers.apr_lookback_minutes
    minIdle    : Nat,          \* triggers.min_idle_minutes
    movePct    : Nat,          \* caps.max_move_pct_per_action
    maxActions : Nat,          \* caps.max_actions_per_day
    minProfit  : Int,          \* caps.min_net_profit_usd
    holdDays   : Nat,          \* gas.estimated_hold_days
    maxGas     : Int,          \* gas.max_gas_usd_per_action
    pegMin     : Int,          \* circuit_breakers.usdc_peg_min
    utilMax    : Int,          \* circuit_breakers.utilization_max
    tvlDropMax : Int ]         \* circuit_breakers.tvl_drop_pct_1h

Listed(s) == { s[i] : i \in DOMAIN s }

(***************************************************************************)
(* Policy::validate, one conjunct per validate_* function.                 *)
(***************************************************************************)
ValidProtocols(p) ==
  /\ p.whitelist # <<>>
  /\ p.capPct \in 1 .. 100
  /\ p.capPct * Len(p.whitelist) >= 100

ValidVenues(p) ==
  /\ \A i, j \in DOMAIN p.whitelist :
        i # j => p.whitelist[i] # p.whitelist[j]
  /\ \A v \in Listed(p.whitelist) : ChainOf(v) \in Listed(p.chains)

ValidTriggers(p) == p.aprDelta >= 10 /\ p.lookback > 0 /\ p.minIdle > 0

ValidCaps(p) ==
  p.movePct \in 1 .. 100 /\ p.maxActions > 0 /\ p.minProfit >= 0

ValidGas(p) == p.holdDays > 0 /\ p.maxGas > 0

ValidBreakers(p) ==
  /\ p.pegMin     \in 1 .. 100
  /\ p.utilMax    \in 1 .. 100
  /\ p.tvlDropMax \in 1 .. 100

Valid(p) ==
  /\ ValidProtocols(p)
  /\ p.chains # <<>>
  /\ ValidVenues(p)
  /\ ValidTriggers(p)
  /\ ValidCaps(p)
  /\ ValidGas(p)
  /\ ValidBreakers(p)
=============================================================================
