--------------------------- MODULE PolicyDefaults ---------------------------
(* Policies for TLC, built from the rows of                                *)
(* src/skills/chat/references/policy_defaults.md.  Money is in tenths of a *)
(* dollar, an APR in basis points.                                         *)
EXTENDS Policy

Conservative ==
  [ whitelist |-> <<ArcIdle, ArbAave>>, chains |-> <<"arc", "arb">>,
    capPct |-> 50, aprDelta |-> 20, lookback |-> 60, minIdle |-> 30,
    movePct |-> 100, maxActions |-> 3, minProfit |-> 0, holdDays |-> 7,
    maxGas |-> 30, pegMin |-> 98, utilMax |-> 95, tvlDropMax |-> 30 ]

(* A bridge costs 1.10 dollars by the snapshot; this owner pays 1 at most. *)
Frugal == [ Conservative EXCEPT !.maxGas = 10 ]

(* Rejected by validate: half the capital would have no venue.             *)
Uncovered == [ Conservative EXCEPT !.whitelist = <<ArbAave>> ]

(* A single action a day is a legal quota.                                 *)
OneADay == [ Conservative EXCEPT !.maxActions = 1 ]

MCBodies         == { Conservative, Frugal, Uncovered }
ConservativeOnly == { Conservative }
OneADayOnly      == { OneADay }

Live      == { 29 }     \* what AAVE pays on the testnet
LiveOrLow == { 5, 29 }  \* and too little for any trigger
=============================================================================
