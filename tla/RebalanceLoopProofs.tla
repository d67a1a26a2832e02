------------------------- MODULE RebalanceLoopProofs -------------------------
(* The limits of a policy, proved of the ideal loop for every choice of    *)
(* policies, markets, positions and tick interval.                         *)
EXTENDS RebalanceLoop, OperatorProofs

(***************************************************************************)
(* The inductive invariant: the position's counter is the number of moves, *)
(* and its last_action_at is the time of the last move into the venue.     *)
(***************************************************************************)
CounterInv == position.actionsToday = Len(moves)

LastActionInv ==
  \A i \in 1 .. Len(moves) :
     /\ moves[i].at < now
     /\ moves[i].at <= position.lastActionAt[moves[i].to]

LoopInv ==
  /\ TypeOK /\ QuotaHolds /\ CooldownHolds
  /\ CounterInv /\ LastActionInv

LEMMA LoopInit == Init => LoopInv
<1> SUFFICES ASSUME Init PROVE LoopInv
  OBVIOUS
<1>1. TypeOK
  BY LoopAssumption DEF Init, TypeOK
<1>2. Len(moves) = 0 /\ policy.maxActions \in Nat /\ position.actionsToday = 0
  BY LoopAssumption DEF Init, PolicyBody
<1> QED  BY <1>1, <1>2 DEF LoopInv, QuotaHolds, CooldownHolds, CounterInv,
                           LastActionInv, Init

(* What a tick that moves does, from what the evaluator promises.          *)
LEMMA CarryFacts ==
  ASSUME LoopInv, NEW m \in Markets, NEW age \in Ages, Tick(m, age),
         decision'.kind = "act"
  PROVE  LET plan == decision'.plan
         IN  /\ WithinPolicy(policy, position, plan)
             /\ position' = Moved(position, plan, now)
             /\ moves' = Append(moves, [ at |-> now, from |-> plan.from,
                                         to |-> plan.to, amount |-> plan.amount ])
             /\ position.actionsToday < policy.maxActions
             /\ ~InCooldown(policy, position, plan.to, now)
<1>1. /\ policy \in PolicyBody /\ Valid(policy)
      /\ position \in Position /\ now \in Nat /\ market' \in Snapshot
  <2>1. policy \in PolicyBody /\ Valid(policy) /\ position \in Position /\ now \in Nat
    BY LoopAssumption DEF LoopInv, TypeOK
  <2>2. m \in Snapshot /\ now - age \in Int
    BY <2>1, LoopAssumption
  <2>3. market' \in Snapshot
    BY <2>2 DEF Tick, Snapshot
  <2> QED  BY <2>1, <2>3
<1>2. decision' \in Evaluate(policy, market', position, now)
  BY DEF Tick
<1>3. WithinPolicy(policy, position, decision'.plan)
  BY <1>1, <1>2, DecisionsWithinPolicy
<1>4. Carry(decision'.plan)
  BY DEF Tick
<1>5. /\ decision' \in ProposeRebalance(policy, market', position, now)
      /\ ~(position.actionsToday >= policy.maxActions)
  <2>1. decision' \notin HealthAlarms(policy, market', position)
    BY <1>1, AlarmsType
  <2>2. \A why : Noop(why).kind # "act"
    BY DEF Noop
  <2>3. \A why, to : CircuitBreak(why, to).kind # "act"
    BY DEF CircuitBreak
  <2> QED  BY <1>2, <2>1, <2>2, <2>3 DEF Evaluate, QuotaReached
<1>6. position.actionsToday < policy.maxActions
  BY <1>1, <1>5 DEF Position, PolicyBody
<1>7. ~InCooldown(policy, position, decision'.plan.to, now)
  <2>1. \A why : Noop(why).kind # "act"
    BY DEF Noop
  <2>2. PICK from \in WorstHoldings(policy, market', position),
             to \in BestVenues(policy, market') :
                decision' = Propose(policy, market', position, now, from, to)
    BY <1>5, <2>1 DEF ProposeRebalance
  <2>3. ~InCooldown(policy, position, to, now) /\ decision'.plan.to = to
    <3>1. /\ ~InCooldown(policy, position, to, now)
          /\ decision' = Act([ from |-> from, to |-> to,
                amount |-> MoveAmount(policy, position, from, to),
                cost |-> MoveCost(market', from, to) ])
      BY <2>1, <2>2 DEF Propose
    <3> QED  BY <3>1 DEF Act
  <2> QED  BY <2>3
<1> QED  BY <1>3, <1>4, <1>6, <1>7 DEF Carry

LEMMA MovedType ==
  ASSUME NEW p, NEW pos \in Position, NEW plan, WithinPolicy(p, pos, plan),
         NEW at \in Nat
  PROVE  Moved(pos, plan, at) \in Position
<1>1. /\ plan.from \in Venue /\ plan.to \in Venue /\ plan.from # plan.to
      /\ plan.amount \in Nat /\ plan.amount <= pos.holdings[plan.from]
  BY DEF WithinPolicy, Plan, Position
<1>2. [ pos.holdings EXCEPT ![plan.from] = @ - plan.amount,
                            ![plan.to]   = @ + plan.amount ] \in [Venue -> Nat]
  <2>1. pos.holdings \in [Venue -> Nat]
    BY DEF Position
  <2>2. /\ pos.holdings[plan.from] - plan.amount \in Nat
        /\ pos.holdings[plan.to] + plan.amount \in Nat
    BY <1>1, <2>1
  <2> QED  BY <1>1, <2>1, <2>2
<1>3. /\ [ pos.lastActionAt EXCEPT ![plan.to] = at ] \in [Venue -> Int]
      /\ pos.actionsToday + 1 \in Nat
  <2>1. pos.lastActionAt \in [Venue -> Int] /\ pos.actionsToday \in Nat
    BY DEF Position
  <2> QED  BY <1>1, <2>1
<1> DEFINE h == [ pos.holdings EXCEPT ![plan.from] = @ - plan.amount,
                                      ![plan.to]   = @ + plan.amount ]
           l == [ pos.lastActionAt EXCEPT ![plan.to] = at ]
           n == pos.actionsToday + 1
<1>4. Moved(pos, plan, at)
        = [ holdings |-> h, lastActionAt |-> l, actionsToday |-> n ]
  BY DEF Moved
<1>5. h \in [Venue -> Nat] /\ l \in [Venue -> Int] /\ n \in Nat
  BY <1>2, <1>3
<1> HIDE DEF h, l, n
<1> QED  BY <1>4, <1>5 DEF Position

(* A move neither creates nor loses capital.                               *)
LEMMA MovedTotal ==
  ASSUME NEW p, NEW pos \in Position, NEW plan, WithinPolicy(p, pos, plan),
         NEW at \in Nat
  PROVE  /\ Total(Moved(pos, plan, at).holdings) = Total(pos.holdings)
         /\ Moved(pos, plan, at).holdings[plan.to]
              = pos.holdings[plan.to] + plan.amount
<1> DEFINE g == pos.holdings
           h == [ g EXCEPT ![plan.from] = @ - plan.amount,
                           ![plan.to]   = @ + plan.amount ]
<1>1. /\ plan.from \in Venue /\ plan.to \in Venue /\ plan.from # plan.to
      /\ plan.amount \in Nat /\ g \in [Venue -> Nat]
  BY DEF WithinPolicy, Plan, Position
<1>2. Moved(pos, plan, at).holdings = h
  BY DEF Moved
<1> HIDE DEF g
<1>3. \A v \in Venue : h[v] = IF v = plan.from THEN g[v] - plan.amount
                              ELSE IF v = plan.to THEN g[v] + plan.amount
                              ELSE g[v]
  BY <1>1
<1> HIDE DEF h
<1>4. Total(h) = Total(g)
  BY <1>1, <1>3 DEF Total, Venue, ArcIdle, ArcAave, ArbIdle, ArbAave
<1> QED  BY <1>1, <1>2, <1>3, <1>4 DEF g

LEMMA LoopNext == LoopInv /\ [Next]_vars => LoopInv'
<1> SUFFICES ASSUME LoopInv, [Next]_vars PROVE LoopInv'
  OBVIOUS
<1> USE DEF LoopInv
<1>1. CASE UNCHANGED vars
  BY <1>1 DEF vars, TypeOK, QuotaHolds, CooldownHolds, CounterInv, LastActionInv
<1>2. ASSUME NEW m \in Markets, NEW age \in Ages, Tick(m, age)
      PROVE  LoopInv'
  <2>1. /\ policy' = policy /\ policy \in PolicyBody /\ Valid(policy)
        /\ now' = now + TickEvery /\ now' \in Nat /\ now < now'
        /\ position \in Position /\ moves \in Seq(MoveRecord) /\ now \in Nat
    BY <1>2, LoopAssumption DEF Tick, TypeOK
  <2>2. market' \in Snapshot
    <3>1. m \in Snapshot /\ now - age \in Int
      BY <2>1, LoopAssumption
    <3> QED  BY <1>2, <3>1 DEF Tick, Snapshot
  <2>3. CASE decision'.kind # "act"
    <3>1. position' = position /\ moves' = moves
      BY <1>2, <2>3 DEF Tick
    <3>2. TypeOK'
      BY <2>1, <2>2, <3>1 DEF TypeOK
    <3>3. QuotaHolds' /\ CooldownHolds' /\ CounterInv'
      BY <2>1, <3>1 DEF QuotaHolds, CooldownHolds, CounterInv
    <3>4. LastActionInv'
      <4>1. \A i \in 1 .. Len(moves) : moves[i] \in MoveRecord
        BY <2>1
      <4> QED  BY <2>1, <3>1, <4>1 DEF LastActionInv, MoveRecord
    <3> QED  BY <3>2, <3>3, <3>4
  <2>4. CASE decision'.kind = "act"
    <3> DEFINE plan == decision'.plan
               mv   == [ at |-> now, from |-> plan.from, to |-> plan.to,
                         amount |-> plan.amount ]
               k    == Len(moves)
    <3>1. /\ WithinPolicy(policy, position, plan)
          /\ position' = Moved(position, plan, now)
          /\ moves' = Append(moves, mv)
          /\ position.actionsToday < policy.maxActions
          /\ ~InCooldown(policy, position, plan.to, now)
      BY <1>2, <2>4, CarryFacts
    <3>2. /\ position' \in Position
          /\ position'.actionsToday = position.actionsToday + 1
          /\ position'.lastActionAt
               = [ position.lastActionAt EXCEPT ![plan.to] = now ]
      <4>1. \A x : WithinPolicy(policy, position, x)
                     => Moved(position, x, now) \in Position
        BY <2>1, MovedType
      <4>2. position' \in Position
        <5> HIDE DEF plan
        <5> QED  BY <3>1, <4>1
      <4>3. /\ position'.actionsToday = position.actionsToday + 1
            /\ position'.lastActionAt
                 = [ position.lastActionAt EXCEPT ![plan.to] = now ]
        <5> HIDE DEF plan
        <5> QED  BY <3>1 DEF Moved
      <4> QED  BY <4>2, <4>3
    <3>3. mv \in MoveRecord
      BY <2>1, <3>1 DEF WithinPolicy, Plan, MoveRecord
    <3> HIDE DEF plan, mv
    <3>4. /\ moves' \in Seq(MoveRecord) /\ Len(moves') = k + 1 /\ k \in Nat
          /\ moves'[k + 1] = mv
          /\ \A i \in 1 .. k : moves'[i] = moves[i] /\ moves[i] \in MoveRecord
      BY <2>1, <3>1, <3>3
    <3>5. mv.at = now /\ mv.to = plan.to
      BY DEF mv
    <3>6. plan.to \in Venue /\ position.lastActionAt \in [Venue -> Int]
      BY <2>1, <3>1 DEF WithinPolicy, Plan, Position
    <3>7. TypeOK'
      BY <2>1, <2>2, <3>2, <3>4 DEF TypeOK
    <3>8. QuotaHolds' /\ CounterInv'
      <4>1. position.actionsToday = k /\ policy.maxActions \in Nat
        BY <2>1 DEF CounterInv, PolicyBody
      <4> QED  BY <2>1, <3>1, <3>2, <3>4, <4>1 DEF QuotaHolds, CounterInv
    <3>9. LastActionInv'
      <4> SUFFICES ASSUME NEW i \in 1 .. k + 1
                   PROVE  /\ moves'[i].at < now'
                          /\ moves'[i].at <= position'.lastActionAt[moves'[i].to]
        BY <3>4 DEF LastActionInv
      <4>1. CASE i = k + 1
        BY <2>1, <3>2, <3>4, <3>5, <3>6, <4>1
      <4>2. CASE i \in 1 .. k
        <5>1. /\ moves'[i] = moves[i] /\ moves[i].at \in Nat /\ moves[i].to \in Venue
              /\ moves[i].at < now
              /\ moves[i].at <= position.lastActionAt[moves[i].to]
          BY <3>4, <4>2 DEF LastActionInv, MoveRecord
        <5> QED  BY <2>1, <3>2, <3>6, <5>1
      <4> QED  BY <3>4, <4>1, <4>2
    <3>10. CooldownHolds'
      <4> SUFFICES ASSUME NEW i \in 1 .. k + 1, NEW j \in 1 .. k + 1,
                          i < j, moves'[i].to = moves'[j].to
                   PROVE  moves'[j].at - moves'[i].at >= policy.minIdle
        BY <2>1, <3>4 DEF CooldownHolds
      <4>1. i \in 1 .. k /\ moves'[i] = moves[i] /\ moves[i].at \in Nat
        BY <3>4 DEF MoveRecord
      <4>2. CASE j \in 1 .. k
        BY <3>4, <4>1, <4>2 DEF CooldownHolds
      <4>3. CASE j = k + 1
        <5>1. /\ moves[i].to = plan.to
              /\ moves[i].at <= position.lastActionAt[plan.to]
          BY <3>4, <3>5, <4>1, <4>3 DEF LastActionInv
        <5>2. now - position.lastActionAt[plan.to] >= policy.minIdle
          <6>1. position.lastActionAt[plan.to] \in Int /\ policy.minIdle \in Nat
            BY <2>1, <3>6 DEF PolicyBody
          <6>2. position.lastActionAt[plan.to] # Never
            BY <4>1, <5>1, <6>1 DEF Never
          <6> QED  BY <2>1, <3>1, <6>1, <6>2 DEF InCooldown
        <5>3. position.lastActionAt[plan.to] \in Int /\ policy.minIdle \in Nat
          BY <2>1, <3>6 DEF PolicyBody
        <5> QED  BY <2>1, <3>4, <3>5, <4>1, <4>3, <5>1, <5>2, <5>3
      <4> QED  BY <3>4, <4>2, <4>3
    <3> QED  BY <3>7, <3>8, <3>9, <3>10
  <2> QED  BY <2>3, <2>4
<1> QED  BY <1>1, <1>2 DEF Next

THEOREM LoopInvariant == Spec => []LoopInv
BY LoopInit, LoopNext, PTL DEF Spec

(* The variables of the ideal loop keep their types.                       *)
THEOREM LoopTypeOK == Spec => []TypeOK
<1>1. LoopInv => TypeOK
  BY DEF LoopInv
<1> QED  BY LoopInvariant, <1>1, PTL

(* max_actions_per_day holds if every action is counted in the position.   *)
THEOREM LoopQuota == Spec => []QuotaHolds
<1>1. LoopInv => QuotaHolds
  BY DEF LoopInv
<1> QED  BY LoopInvariant, <1>1, PTL

(* min_idle_minutes holds if every action is recorded in last_action_at.   *)
THEOREM LoopCooldown == Spec => []CooldownHolds
<1>1. LoopInv => CooldownHolds
  BY DEF LoopInv
<1> QED  BY LoopInvariant, <1>1, PTL

(* per_protocol_cap_pct holds of the destination, measured on the position *)
(* the move leaves behind, if a move carries exactly the amount planned.   *)
THEOREM LoopCap == Spec => CapHolds
<1> DEFINE Capped ==
      moves' # moves =>
        LET m == moves'[Len(moves')]
        IN  /\ position'.holdings[m.to] * 100
                 <= policy.capPct * Total(position'.holdings)
            /\ m.amount <= position.holdings[m.from]
            /\ Total(position'.holdings) = Total(position.holdings)
<1>1. ASSUME LoopInv, NEW m \in Markets, NEW age \in Ages, Tick(m, age),
             moves' # moves
      PROVE  Capped
  <2> DEFINE plan == decision'.plan
             mv   == [ at |-> now, from |-> plan.from, to |-> plan.to,
                       amount |-> plan.amount ]
  <2>1. /\ WithinPolicy(policy, position, plan)
        /\ position' = Moved(position, plan, now)
        /\ moves' = Append(moves, mv)
    <3>1. decision'.kind = "act"
      BY <1>1 DEF Tick
    <3> QED  BY <1>1, <3>1, CarryFacts
  <2>2. position \in Position /\ now \in Nat /\ moves \in Seq(MoveRecord)
    BY <1>1 DEF LoopInv, TypeOK
  <2>3. \A x : WithinPolicy(policy, position, x)
          => /\ Total(Moved(position, x, now).holdings) = Total(position.holdings)
             /\ Moved(position, x, now).holdings[x.to]
                  = position.holdings[x.to] + x.amount
    BY <2>2, MovedTotal
  <2>4. mv.from = plan.from /\ mv.to = plan.to /\ mv.amount = plan.amount
    OBVIOUS
  <2> HIDE DEF plan, mv
  <2>5. moves'[Len(moves')] = mv
    <3>1. mv \in MoveRecord
      BY <2>1, <2>2 DEF mv, WithinPolicy, Plan, MoveRecord
    <3> QED  BY <2>1, <2>2, <3>1
  <2>6. /\ Total(position'.holdings) = Total(position.holdings)
        /\ position'.holdings[plan.to] = position.holdings[plan.to] + plan.amount
    BY <2>1, <2>3
  <2>7. /\ (position.holdings[plan.to] + plan.amount) * 100
              <= policy.capPct * Total(position.holdings)
        /\ plan.amount <= position.holdings[plan.from]
    BY <2>1, <2>2 DEF WithinPolicy, Position, Plan
  <2> QED  BY <2>4, <2>5, <2>6, <2>7
<1>2. LoopInv /\ [Next]_vars => [Capped]_vars
  BY <1>1 DEF Next, vars
<1> QED  BY LoopInvariant, <1>2, PTL DEF CapHolds, Spec

(* What the tick that moves found: the conditions of the evaluator.        *)
LEMMA CarryConditions ==
  ASSUME LoopInv, NEW m \in Markets, NEW age \in Ages, Tick(m, age),
         decision'.kind = "act"
  PROVE  /\ position \in Position /\ policy \in PolicyBody /\ market' \in Snapshot
         /\ ~Stale(market', now) /\ ~(market'.peg < policy.pegMin)
         /\ market'.gateway # "down"
         /\ HealthAlarms(policy, market', position) = {}
         /\ Apr(market', decision'.plan.to) > Apr(market', decision'.plan.from)
<1>1. /\ policy \in PolicyBody /\ Valid(policy)
      /\ position \in Position /\ now \in Nat
  BY LoopAssumption DEF LoopInv, TypeOK
<1>2. market' \in Snapshot
  <2>1. m \in Snapshot /\ now - age \in Int
    BY <1>1, LoopAssumption
  <2> QED  BY <2>1 DEF Tick, Snapshot
<1>3. decision' \in Evaluate(policy, market', position, now)
  BY DEF Tick
<1> QED  BY <1>1, <1>2, <1>3, ActConditions

(* No breaker is tripped, and the Gateway is there, when a move is made.   *)
THEOREM LoopMovesInCalm == Spec => MovesOnlyInCalm
<1> DEFINE Calm ==
      moves' # moves =>
        /\ ~Stale(market', now)
        /\ market'.peg >= policy.pegMin
        /\ market'.gateway # "down"
        /\ \A v \in Venue : position.holdings[v] > 0 /\ ~IsIdle(v)
             => /\ v \in market'.listed
                /\ market'.venues[v].utilization <= policy.utilMax
                /\ market'.venues[v].tvlDrop <= policy.tvlDropMax
<1>1. ASSUME LoopInv, NEW m \in Markets, NEW age \in Ages, Tick(m, age),
             moves' # moves
      PROVE  Calm
  <2>1. decision'.kind = "act"
    BY <1>1 DEF Tick
  <2>2. /\ policy \in PolicyBody /\ market' \in Snapshot
        /\ ~Stale(market', now) /\ ~(market'.peg < policy.pegMin)
        /\ market'.gateway # "down"
        /\ HealthAlarms(policy, market', position) = {}
    BY <1>1, <2>1, CarryConditions
  <2>3. market'.peg \in Int /\ policy.pegMin \in Int
    BY <2>2 DEF Snapshot, PolicyBody
  <2>4. ASSUME NEW v \in Venue, position.holdings[v] > 0, ~IsIdle(v)
        PROVE  /\ v \in market'.listed
               /\ market'.venues[v].utilization <= policy.utilMax
               /\ market'.venues[v].tvlDrop <= policy.tvlDropMax
    <3>1. v \in market'.listed
      BY <2>2, <2>4 DEF HealthAlarms
    <3>2. ~Overused(policy, market', v) /\ ~Dropped(policy, market', v)
      <4>1. PickIdle(policy) # {}
        BY <2>2, PickIdleSome
      <4> QED  BY <2>2, <2>4, <3>1, <4>1 DEF HealthAlarms
    <3>3. /\ market'.venues[v].utilization \in Nat /\ market'.venues[v].tvlDrop \in Nat
          /\ policy.utilMax \in Int /\ policy.tvlDropMax \in Int
      BY <2>2 DEF Snapshot, VenueState, PolicyBody
    <3> QED  BY <3>1, <3>2, <3>3 DEF Overused, Dropped
  <2> QED  BY <2>2, <2>3, <2>4
<1>2. LoopInv /\ [Next]_vars => [Calm]_vars
  BY <1>1 DEF Next, vars
<1> QED  BY LoopInvariant, <1>2, PTL DEF MovesOnlyInCalm, Spec

(* The gain of a move is its amount times the difference of the rates.     *)
LEMMA MovedYield ==
  ASSUME NEW p, NEW s \in Snapshot, NEW pos \in Position, NEW plan,
         WithinPolicy(p, pos, plan), NEW at \in Nat
  PROVE  Yield(Moved(pos, plan, at).holdings, s)
           = Yield(pos.holdings, s)
               + plan.amount * (Apr(s, plan.to) - Apr(s, plan.from))
<1> DEFINE h  == pos.holdings
           hh == Moved(pos, plan, at).holdings
           n  == plan.amount
<1>1. /\ plan.from \in Venue /\ plan.to \in Venue /\ plan.from # plan.to
      /\ n \in Nat /\ h \in [Venue -> Nat]
  BY DEF WithinPolicy, Plan, Position
<1>2. \A v \in Venue : hh[v] = IF v = plan.from THEN h[v] - n
                               ELSE IF v = plan.to THEN h[v] + n ELSE h[v]
  BY <1>1 DEF Moved
<1>3. \A v \in Venue : h[v] \in Int /\ hh[v] \in Int /\ Apr(s, v) \in Int
  BY <1>1, <1>2, AprType
<1>4. \A v \in Venue : IsIdle(v) => Apr(s, v) = 0
  BY DEF Apr
<1> DEFINE x == Apr(s, ArcAave)
           y == Apr(s, ArbAave)
<1>5. /\ x \in Int /\ y \in Int
      /\ hh[ArcAave] = h[ArcAave] + (IF plan.to = ArcAave THEN n ELSE 0)
                                  - (IF plan.from = ArcAave THEN n ELSE 0)
      /\ hh[ArbAave] = h[ArbAave] + (IF plan.to = ArbAave THEN n ELSE 0)
                                  - (IF plan.from = ArbAave THEN n ELSE 0)
      /\ h[ArcAave] \in Int /\ h[ArbAave] \in Int
  BY <1>1, <1>2, <1>3 DEF Venue
<1>6. \A v \in Venue : Apr(s, v) = IF v = ArcAave THEN x
                                  ELSE IF v = ArbAave THEN y ELSE 0
  BY <1>4 DEF Venue, IsIdle
<1>7. Apr(s, plan.to) - Apr(s, plan.from)
        = ((IF plan.to = ArcAave THEN x ELSE IF plan.to = ArbAave THEN y ELSE 0)
           - (IF plan.from = ArcAave THEN x ELSE IF plan.from = ArbAave THEN y ELSE 0))
  BY <1>1, <1>6
<1>8. ArcAave # ArbAave
  BY DEF ArcAave, ArbAave
<1> HIDE DEF h, hh, n, x, y
<1> DEFINE tx == IF plan.to = ArcAave THEN 1 ELSE 0
           ty == IF plan.to = ArbAave THEN 1 ELSE 0
           fx == IF plan.from = ArcAave THEN 1 ELSE 0
           fy == IF plan.from = ArbAave THEN 1 ELSE 0
<1>9. /\ tx \in Int /\ ty \in Int /\ fx \in Int /\ fy \in Int
      /\ hh[ArcAave] = h[ArcAave] + (tx - fx) * n
      /\ hh[ArbAave] = h[ArbAave] + (ty - fy) * n
      /\ Apr(s, plan.to) - Apr(s, plan.from) = (tx - fx) * x + (ty - fy) * y
  BY <1>1, <1>5, <1>7, <1>8
<1> HIDE DEF tx, ty, fx, fy
<1> DEFINE a == h[ArcAave]
           b == h[ArbAave]
           c == tx - fx
           d == ty - fy
<1>10. a \in Int /\ b \in Int /\ c \in Int /\ d \in Int
  BY <1>5, <1>9
<1>11. /\ hh[ArcAave] = a + c * n /\ hh[ArbAave] = b + d * n
       /\ Apr(s, plan.to) - Apr(s, plan.from) = c * x + d * y
  BY <1>9
<1> HIDE DEF a, b, c, d
<1>12. (a + c * n) * x + (b + d * n) * y = a * x + b * y + n * (c * x + d * y)
  BY <1>1, <1>5, <1>10
<1>13. hh[ArcAave] * x + hh[ArbAave] * y
         = a * x + b * y + n * (Apr(s, plan.to) - Apr(s, plan.from))
  BY <1>11, <1>12
<1> QED  BY <1>13 DEF Yield, a, b, h, hh, n, x, y

(* No series of moves leads back to where it began in the same market.     *)
THEOREM LoopMovesRaiseYield == Spec => MovesRaiseYield
<1> DEFINE Gain ==
      moves' # moves =>
        Yield(position'.holdings, market') > Yield(position.holdings, market')
<1>1. ASSUME LoopInv, NEW m \in Markets, NEW age \in Ages, Tick(m, age),
             moves' # moves
      PROVE  Gain
  <2> DEFINE plan == decision'.plan
             rise == Apr(market', plan.to) - Apr(market', plan.from)
  <2>1. decision'.kind = "act"
    BY <1>1 DEF Tick
  <2>2. WithinPolicy(policy, position, plan) /\ position' = Moved(position, plan, now)
    BY <1>1, <2>1, CarryFacts
  <2>3. /\ position \in Position /\ market' \in Snapshot /\ now \in Nat
        /\ Apr(market', plan.to) > Apr(market', plan.from)
    BY <1>1, <2>1, CarryConditions DEF LoopInv, TypeOK
  <2>4. plan.amount \in Nat /\ plan.amount > 0 /\ plan.from \in Venue /\ plan.to \in Venue
    BY <2>2, <2>3 DEF WithinPolicy, Plan, Position
  <2>5. rise \in Int /\ rise > 0
    BY <2>3, <2>4, AprType
  <2>6. Yield(position'.holdings, market')
          = Yield(position.holdings, market') + plan.amount * rise
    BY <2>2, <2>3, MovedYield
  <2>7. Yield(position.holdings, market') \in Int
    <3>1. /\ ArcAave \in Venue /\ ArbAave \in Venue
          /\ position.holdings \in [Venue -> Nat]
      BY <2>3 DEF Venue, Position
    <3>2. Apr(market', ArcAave) \in Nat /\ Apr(market', ArbAave) \in Nat
      BY <2>3, <3>1, AprType
    <3>3. position.holdings[ArcAave] \in Nat /\ position.holdings[ArbAave] \in Nat
      BY <3>1
    <3> QED  BY <3>2, <3>3 DEF Yield
  <2> HIDE DEF plan, rise
  <2>8. plan.amount * rise > 0
    BY <2>4, <2>5
  <2>9. plan.amount * rise \in Int
    BY <2>4, <2>5
  <2> QED  BY <2>6, <2>7, <2>8, <2>9
<1>2. LoopInv /\ [Next]_vars => [Gain]_vars
  BY <1>1 DEF Next, vars
<1> QED  BY LoopInvariant, <1>2, PTL DEF MovesRaiseYield, Spec

(* What is decided when AAVE on Arc has no data, gate and executor take:   *)
(* the decision is always one of the market it stands beside.              *)
THEOREM LoopPlansAreExecutable == Spec => []PlansAreExecutable
<1>1. Init => PlansAreExecutable
  BY DEF Init, PlansAreExecutable, Noop
<1>2. ASSUME LoopInv, PlansAreExecutable, [Next]_vars
      PROVE  PlansAreExecutable'
  <2>1. CASE UNCHANGED vars
    BY <1>2, <2>1 DEF vars, PlansAreExecutable
  <2>2. ASSUME NEW m \in Markets, NEW age \in Ages, Tick(m, age),
               decision'.kind = "act", ArcAave \notin market'.listed
        PROVE  /\ GatePasses("active", policy', decision'.plan)
               /\ Route(decision'.plan) \in {"supply", "bridge"}
    <3>1. /\ policy \in PolicyBody /\ Valid(policy) /\ now \in Nat
          /\ position \in Position /\ market' \in Snapshot
      BY <1>2, <2>2, LoopAssumption, CarryConditions DEF LoopInv, TypeOK
    <3>2. decision' \in Evaluate(policy, market', position, now) /\ policy' = policy
      BY <2>2 DEF Tick
    <3> QED  BY <2>2, <3>1, <3>2, PlansAreDispatched
  <2> QED  BY <1>2, <2>1, <2>2 DEF Next, PlansAreExecutable
<1> QED  BY <1>1, <1>2, LoopInvariant, PTL DEF Spec
=============================================================================
