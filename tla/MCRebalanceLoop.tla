--------------------------- MODULE MCRebalanceLoop ---------------------------
(* Bounded instance of RebalanceLoop for TLC: amounts of a few units, two  *)
(* lending venues, a cooldown longer than the tick.                        *)
EXTENDS RebalanceLoop, TLC

Base ==
  [ whitelist |-> <<ArcIdle, ArbIdle, ArbAave>>, chains |-> <<"arc", "arb">>,
    capPct |-> 50, aprDelta |-> 10, lookback |-> 60, minIdle |-> 30,
    movePct |-> 100, maxActions |-> 2, minProfit |-> 0, holdDays |-> 7,
    maxGas |-> 3, pegMin |-> 98, utilMax |-> 95, tvlDropMax |-> 30 ]

Growth ==
  [ Base EXCEPT !.whitelist = <<ArbAave, ArcAave, ArbIdle>>, !.capPct = 100,
                !.movePct = 50, !.maxActions = 3, !.minProfit = 1 ]

Eager ==
  [ Growth EXCEPT !.whitelist = <<ArcAave, ArbAave>>, !.minProfit = 0,
                  !.maxActions = 1 ]

MCPolicies == { Base, Growth, Eager, [ Growth EXCEPT !.maxGas = 1 ] }

St(apr, util, drop) == [ apr |-> apr, utilization |-> util, tvlDrop |-> drop ]

Calm ==
  [ builtAt |-> 0, peg |-> 100, gateway |-> "ok",
    listed |-> {ArcIdle, ArbIdle, ArbAave}, venues |-> [v \in Venue |-> St(58, 50, 0)],
    gas |-> [c \in Chain |-> 1], fee |-> 1 ]

BothListed(a, b) ==
  [ Calm EXCEPT !.listed = Venue,
                !.venues = [v \in Venue |-> IF v = ArbAave THEN a ELSE b] ]

MCMarkets ==
  { Calm,
    [ Calm EXCEPT !.peg = 97 ],
    [ Calm EXCEPT !.gateway = "down" ],
    BothListed(St(40, 96, 0), St(60, 50, 0)),
    BothListed(St(90, 50, 0), St(60, 50, 31)),
    BothListed(St(90, 50, 30), St(60, 95, 0)),
    BothListed(St(60, 50, 0), St(60, 50, 0)),
    BothListed(St(20, 50, 0), St(39, 50, 0)) }

Hold(a, b, c) ==
  [ holdings |-> (ArcIdle :> a) @@ (ArbIdle :> b) @@ (ArbAave :> c)
                   @@ (ArcAave :> 0),
    lastActionAt |-> [v \in Venue |-> Never],
    actionsToday |-> 0 ]

MCPositions == { Hold(0, 0, 0), Hold(4, 1, 0), Hold(2, 3, 1), Hold(1, 0, 3),
                 Hold(0, 0, 4) }
=============================================================================
