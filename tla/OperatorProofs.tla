---------------------------- MODULE OperatorProofs ----------------------------
(* The operators that have no state.  What holds of every decision of the  *)
(* evaluator, for every valid policy, snapshot, position and time; what a  *)
(* move in the ledger does; how a sum over a finite set changes.           *)
EXTENDS Evaluator, Ledger, Sums, Selection, SequencesExt, FiniteSetTheorems, SequenceTheorems, WellFoundedInduction, TLAPS

(* The least-number principle, for sets of numbers.                        *)
LEMMA NatMin ==
  ASSUME NEW T, T \subseteq Nat, T # {}
  PROVE  \E x \in T : \A y \in T : ~(y < x)
<1>1. IsWellFoundedOn(OpToRel(<, Nat), Nat)
  BY NatLessThanWellFounded
<1>2. PICK x \in T : \A y \in T : ~(<<y, x>> \in OpToRel(<, Nat))
  BY <1>1, WFMin
<1> QED  BY <1>2 DEF OpToRel

LEMMA MulPctFacts ==
  ASSUME NEW n \in Nat, NEW pct \in Nat
  PROVE  /\ MulPct(n, pct) \in Nat
         /\ MulPct(n, pct) * 100 <= n * pct
<1>1. n * pct \in Nat
  OBVIOUS
<1> QED  BY <1>1 DEF MulPct

LEMMA TotalType ==
  ASSUME NEW h \in [Venue -> Nat]  PROVE  Total(h) \in Nat
BY DEF Total, Venue, ArcIdle, ArcAave, ArbIdle, ArbAave

(* The first listed venue exists; whatever is listed is a venue.           *)
LEMMA ListedVenues ==
  ASSUME NEW p \in PolicyBody  PROVE  Listed(p.whitelist) \subseteq Venue
BY DEF Listed, PolicyBody

LEMMA PickIdleType ==
  ASSUME NEW p \in PolicyBody, p.chains # <<>>
  PROVE  PickIdle(p) \subseteq Venue
<1>1. IdleOn(p.chains[1]) \in Venue
  BY DEF IdleOn, Venue
<1>2. \A i \in DOMAIN p.whitelist : p.whitelist[i] \in Venue
  BY DEF PolicyBody
<1> QED  BY <1>1, <1>2 DEF PickIdle

(* A drain has one destination: the breakers of held venues can trip.      *)
LEMMA PickIdleSome ==
  ASSUME NEW p \in PolicyBody  PROVE  PickIdle(p) # {}
<1> DEFINE idle == { i \in DOMAIN p.whitelist : IsIdle(p.whitelist[i]) }
<1>1. CASE idle = {}
  BY <1>1 DEF PickIdle
<1>2. CASE idle # {}
  <2>1. idle \subseteq Nat
    BY DEF PolicyBody
  <2>2. PICK i \in idle : \A j \in idle : ~(j < i)
    BY <1>2, <2>1, NatMin
  <2>3. \A j \in idle : i <= j
    BY <2>1, <2>2
  <2> QED  BY <1>2, <2>3 DEF PickIdle
<1> QED  BY <1>1, <1>2

LEMMA BestVenuesListed ==
  ASSUME NEW p, NEW s  PROVE  BestVenues(p, s) \subseteq Listed(p.whitelist)
BY DEF BestVenues, Listed

LEMMA WorstHoldingsHeld ==
  ASSUME NEW p, NEW s, NEW pos
  PROVE  \A v \in WorstHoldings(p, s, pos) : v \in Venue /\ pos.holdings[v] > 0
BY DEF WorstHoldings

LEMMA CostType ==
  ASSUME NEW s \in Snapshot, NEW from \in Venue, NEW to \in Venue
  PROVE  MoveCost(s, from, to) \in Nat
<1>1. ChainOf(from) \in Chain /\ ChainOf(to) \in Chain
  BY DEF ChainOf, Chain
<1>2. s.gas \in [Chain -> Nat] /\ s.fee \in Nat
  BY DEF Snapshot
<1> QED  BY <1>1, <1>2 DEF MoveCost

(* A proposed amount is there to be moved, stays within the policy's share *)
(* per action and leaves the destination within its share.                 *)
LEMMA AmountBounds ==
  ASSUME NEW p \in PolicyBody, NEW pos \in Position,
         NEW from \in Venue, NEW to \in Venue
  PROVE  LET n == MoveAmount(p, pos, from, to)
         IN  /\ n \in Nat
             /\ n <= pos.holdings[from]
             /\ n * 100 <= p.movePct * Total(pos.holdings)
             /\ n > 0 => (pos.holdings[to] + n) * 100
                            <= p.capPct * Total(pos.holdings)
<1> DEFINE total == Total(pos.holdings)
           cap   == MulPct(total, p.capPct)
           most  == MulPct(total, p.movePct)
           have  == pos.holdings[from]
           there == pos.holdings[to]
           n     == MoveAmount(p, pos, from, to)
<1>1. /\ have \in Nat /\ there \in Nat /\ total \in Nat
      /\ p.capPct \in Nat /\ p.movePct \in Nat
  BY TotalType DEF Position, PolicyBody
<1>2. /\ cap \in Nat  /\ cap * 100  <= total * p.capPct
      /\ most \in Nat /\ most * 100 <= total * p.movePct
  BY <1>1, MulPctFacts
<1>3. n = Least(Least(have, most), IF there < cap THEN cap - there ELSE 0)
  BY DEF MoveAmount
<1> HIDE DEF total, cap, most, have, there, n
<1>4. /\ n \in Nat /\ n <= have /\ n <= most
      /\ n > 0 => there + n <= cap
  BY <1>1, <1>2, <1>3 DEF Least
<1>5. n * 100 <= most * 100 /\ (n > 0 => (there + n) * 100 <= cap * 100)
  BY <1>1, <1>2, <1>4
<1>6. total * p.capPct = p.capPct * total /\ total * p.movePct = p.movePct * total
  BY <1>1
<1>7. total * p.capPct \in Nat /\ total * p.movePct \in Nat
  BY <1>1
<1>8. /\ n * 100 <= p.movePct * total
      /\ n > 0 => (there + n) * 100 <= p.capPct * total
  BY <1>1, <1>2, <1>4, <1>5, <1>6, <1>7
<1> QED  BY <1>4, <1>8 DEF total, have, there, n

LEMMA AprType ==
  ASSUME NEW s \in Snapshot, NEW v \in Venue  PROVE  Apr(s, v) \in Nat
BY DEF Apr, Snapshot, VenueState

-----------------------------------------------------------------------------
(* What propose_rebalance promises of a plan: it moves capital that is     *)
(* held, between two venues, the destination whitelisted and lending, no   *)
(* more than the policy's shares allow, at no more than the policy's cost. *)
WithinPolicy(p, pos, plan) ==
  /\ plan \in Plan
  /\ plan.from # plan.to
  /\ plan.to \in Listed(p.whitelist)
  /\ ~IsIdle(plan.to)
  /\ plan.amount \in 1 .. pos.holdings[plan.from]
  /\ plan.amount * 100 <= p.movePct * Total(pos.holdings)
  /\ (pos.holdings[plan.to] + plan.amount) * 100
        <= p.capPct * Total(pos.holdings)
  /\ plan.cost <= p.maxGas

LEMMA ProposeWithinPolicy ==
  ASSUME NEW p \in PolicyBody, Valid(p), NEW s \in Snapshot,
         NEW pos \in Position, NEW now \in Int,
         NEW from \in Venue, NEW to \in Listed(p.whitelist)
  PROVE  LET d == Propose(p, s, pos, now, from, to)
         IN  \/ \E why \in NoopReason : d = Noop(why)
             \/ \E plan \in Plan : d = Act(plan) /\ WithinPolicy(p, pos, plan)
<1> DEFINE d      == Propose(p, s, pos, now, from, to)
           amount == MoveAmount(p, pos, from, to)
           cost   == MoveCost(s, from, to)
           plan   == [ from |-> from, to |-> to, amount |-> amount, cost |-> cost ]
           acts   == /\ from # to
                     /\ ~(Apr(s, to) - Apr(s, from) < p.aprDelta * BpUnit)
                     /\ amount # 0
                     /\ ~(cost > p.maxGas)
<1>1. to \in Venue
  BY ListedVenues
<1>2. (\E why \in NoopReason : d = Noop(why)) \/ (acts /\ d = Act(plan))
  BY DEF Propose, BelowTrigger, NoopReason
<1>3. SUFFICES ASSUME acts PROVE plan \in Plan /\ WithinPolicy(p, pos, plan)
  BY <1>2
<1>4. /\ amount \in Nat
      /\ amount <= pos.holdings[from]
      /\ amount * 100 <= p.movePct * Total(pos.holdings)
      /\ amount > 0 => (pos.holdings[to] + amount) * 100
                          <= p.capPct * Total(pos.holdings)
  BY <1>1, AmountBounds
<1>5. cost \in Nat /\ p.maxGas \in Int /\ p.aprDelta \in Nat /\ p.aprDelta >= 10
  BY <1>1, CostType DEF Valid, ValidTriggers, PolicyBody
<1>6. p.aprDelta * BpUnit > 0
  <2>1. BpUnit \in Nat /\ BpUnit > 0
    BY UnitsAssumption
  <2> QED  BY <2>1, <1>5
<1>7. ~IsIdle(to)
  <2>1. Apr(s, to) \in Nat /\ Apr(s, from) \in Nat
    BY <1>1, AprType
  <2>2. p.aprDelta * BpUnit \in Int
    BY <1>5, UnitsAssumption
  <2>3. Apr(s, to) > 0
    BY <1>3, <1>6, <2>1, <2>2
  <2> QED  BY <2>3 DEF Apr
<1>8. plan \in Plan
  BY <1>1, <1>4, <1>5 DEF Plan
<1>9. amount \in 1 .. pos.holdings[from] /\ amount > 0
  <2>1. pos.holdings[from] \in Nat
    BY DEF Position
  <2> QED  BY <2>1, <1>3, <1>4
<1>10. plan.from = from /\ plan.to = to /\ plan.amount = amount /\ plan.cost = cost
  OBVIOUS
<1>11. cost <= p.maxGas
  BY <1>3, <1>5
<1> HIDE DEF amount, cost, plan
<1> QED  BY <1>3, <1>4, <1>7, <1>8, <1>9, <1>10, <1>11 DEF WithinPolicy

LEMMA AlarmsType ==
  ASSUME NEW p \in PolicyBody, Valid(p), NEW s \in Snapshot, NEW pos \in Position
  PROVE  /\ HealthAlarms(p, s, pos) \subseteq Decision
         /\ \A d \in HealthAlarms(p, s, pos) : d.kind # "act"
<1>1. PickIdle(p) \subseteq Venue
  BY PickIdleType DEF Valid
<1> QED  BY <1>1 DEF HealthAlarms, Escalate, CircuitBreak, Decision, BreakReason

(* Every decision is well formed, and every plan decided on is within the  *)
(* policy it was decided under, whatever the order in which the maps are   *)
(* walked (evaluate, mod.rs).                                              *)
THEOREM DecisionsWithinPolicy ==
  ASSUME NEW p \in PolicyBody, Valid(p), NEW s \in Snapshot,
         NEW pos \in Position, NEW now \in Int
  PROVE  \A d \in Evaluate(p, s, pos, now) :
            /\ d \in Decision
            /\ d.kind = "act" => WithinPolicy(p, pos, d.plan)
<1> SUFFICES ASSUME NEW d \in Evaluate(p, s, pos, now)
             PROVE  /\ d \in Decision
                    /\ d.kind = "act" => WithinPolicy(p, pos, d.plan)
  OBVIOUS
<1>1. PickIdle(p) \subseteq Venue
  BY PickIdleType DEF Valid
<1>2. \A why \in NoopReason : Noop(why) \in Decision /\ Noop(why).kind # "act"
  BY DEF Noop, Decision
<1>3. \A why \in BreakReason, to \in Venue \cup {NoVenue} :
         CircuitBreak(why, to) \in Decision /\ CircuitBreak(why, to).kind # "act"
  BY DEF CircuitBreak, Decision
<1>4. CASE d \in HealthAlarms(p, s, pos)
  BY <1>4, AlarmsType
<1>5. CASE d \in ProposeRebalance(p, s, pos, now)
  <2>1. d = Noop("no_capital")
          \/ \E from \in WorstHoldings(p, s, pos), to \in BestVenues(p, s) :
                 d = Propose(p, s, pos, now, from, to)
    BY <1>5 DEF ProposeRebalance
  <2>2. CASE d = Noop("no_capital")
    BY <2>2, <1>2 DEF NoopReason
  <2>3. ASSUME NEW from \in WorstHoldings(p, s, pos), NEW to \in BestVenues(p, s),
               d = Propose(p, s, pos, now, from, to)
        PROVE  /\ d \in Decision
               /\ d.kind = "act" => WithinPolicy(p, pos, d.plan)
    <3>1. from \in Venue /\ to \in Listed(p.whitelist)
      BY WorstHoldingsHeld, BestVenuesListed
    <3>2. \/ \E why \in NoopReason : d = Noop(why)
          \/ \E plan \in Plan : d = Act(plan) /\ WithinPolicy(p, pos, plan)
      BY <2>3, <3>1, ProposeWithinPolicy
    <3>3. \A plan \in Plan : Act(plan) \in Decision /\ Act(plan).plan = plan
      BY DEF Act, Decision
    <3> QED  BY <3>2, <3>3, <1>2
  <2> QED  BY <2>1, <2>2, <2>3
<1>6. CASE \E why \in NoopReason : d = Noop(why)
  BY <1>6, <1>2
<1>7. CASE \E why \in BreakReason, to \in Venue \cup {NoVenue} :
              d = CircuitBreak(why, to)
  BY <1>7, <1>3
<1>8. \/ d \in HealthAlarms(p, s, pos)
      \/ d \in ProposeRebalance(p, s, pos, now)
      \/ \E why \in NoopReason : d = Noop(why)
      \/ \E why \in BreakReason, to \in Venue \cup {NoVenue} :
            d = CircuitBreak(why, to)
  BY <1>1 DEF Evaluate, NoopReason, BreakReason
<1> QED  BY <1>4, <1>5, <1>6, <1>7, <1>8

(* The executor's withdraw branch is dead code behind this evaluator: a    *)
(* plan never ends in an idle venue, so dispatch_action never takes it.    *)
THEOREM NeverWithdraws ==
  ASSUME NEW p \in PolicyBody, Valid(p), NEW s \in Snapshot,
         NEW pos \in Position, NEW now \in Int,
         NEW d \in Evaluate(p, s, pos, now), d.kind = "act"
  PROVE  Route(d.plan) # "withdraw"
<1>1. ~IsIdle(d.plan.to)
  BY DecisionsWithinPolicy DEF WithinPolicy
<1> QED  BY <1>1 DEF Route

(* When the evaluator acts at all: no breaker is tripped, every held       *)
(* lending venue is listed and healthy, and the move pays.                 *)
LEMMA ActConditions ==
  ASSUME NEW p \in PolicyBody, Valid(p), NEW s \in Snapshot,
         NEW pos \in Position, NEW now \in Int,
         NEW d \in Evaluate(p, s, pos, now), d.kind = "act"
  PROVE  /\ ~Stale(s, now) /\ ~(s.peg < p.pegMin) /\ s.gateway # "down"
         /\ HealthAlarms(p, s, pos) = {}
         /\ pos.holdings[d.plan.from] > 0
         /\ Apr(s, d.plan.to) > Apr(s, d.plan.from)
<1>1. d \notin HealthAlarms(p, s, pos)
  BY AlarmsType
<1>2. \A why : Noop(why).kind # "act"
  BY DEF Noop
<1>3. \A why, to : CircuitBreak(why, to).kind # "act"
  BY DEF CircuitBreak
<1>4. /\ ~Stale(s, now) /\ ~(s.peg < p.pegMin) /\ s.gateway # "down"
      /\ HealthAlarms(p, s, pos) = {}
      /\ d \in ProposeRebalance(p, s, pos, now)
  BY <1>1, <1>2, <1>3 DEF Evaluate
<1>5. PICK from \in WorstHoldings(p, s, pos), to \in BestVenues(p, s) :
             d = Propose(p, s, pos, now, from, to)
  BY <1>2, <1>4 DEF ProposeRebalance
<1>6. /\ ~BelowTrigger(p, Apr(s, to) - Apr(s, from))
      /\ d = Act([ from |-> from, to |-> to,
                   amount |-> MoveAmount(p, pos, from, to),
                   cost |-> MoveCost(s, from, to) ])
  BY <1>2, <1>5 DEF Propose
<1>7. d.plan.from = from /\ d.plan.to = to
  BY <1>6 DEF Act
<1>8. from \in Venue /\ to \in Venue /\ pos.holdings[from] > 0
  BY WorstHoldingsHeld, BestVenuesListed, ListedVenues
<1>9. Apr(s, to) > Apr(s, from)
  <2>1. Apr(s, to) \in Nat /\ Apr(s, from) \in Nat
    BY <1>8, AprType
  <2>2. p.aprDelta \in Nat /\ p.aprDelta >= 10 /\ BpUnit \in Nat /\ BpUnit > 0
    BY UnitsAssumption DEF Valid, ValidTriggers, PolicyBody
  <2>3. p.aprDelta * BpUnit > 0
    BY <2>2
  <2>4. ~(Apr(s, to) - Apr(s, from) < p.aprDelta * BpUnit)
    BY <1>6 DEF BelowTrigger
  <2>5. p.aprDelta * BpUnit \in Int
    BY <2>2
  <2> QED  BY <2>1, <2>3, <2>4, <2>5
<1> QED  BY <1>4, <1>7, <1>8, <1>9

(* The three deciders agree whenever AAVE on Arc has no data: what the     *)
(* evaluator plans, the gate lets pass and the executor can dispatch.      *)
THEOREM PlansAreDispatched ==
  ASSUME NEW p \in PolicyBody, Valid(p), NEW s \in Snapshot,
         NEW pos \in Position, NEW now \in Int,
         NEW d \in Evaluate(p, s, pos, now), d.kind = "act",
         ArcAave \notin s.listed
  PROVE  /\ GatePasses("active", p, d.plan)
         /\ Route(d.plan) \in {"supply", "bridge"}
<1> DEFINE from == d.plan.from
           to   == d.plan.to
<1>1. WithinPolicy(p, pos, d.plan)
  BY DecisionsWithinPolicy
<1>2. /\ HealthAlarms(p, s, pos) = {}
      /\ pos.holdings[from] > 0
      /\ Apr(s, to) > Apr(s, from)
  BY ActConditions
<1>3. from \in Venue /\ to \in Venue /\ d.plan.cost <= p.maxGas /\ ~IsIdle(to)
  BY <1>1 DEF WithinPolicy, Plan
<1>4. to = ArbAave
  <2>1. Apr(s, to) \in Nat /\ Apr(s, from) \in Nat
    BY <1>3, AprType
  <2>2. to \in s.listed
    BY <1>2, <2>1 DEF Apr
  <2> QED  BY <1>3, <2>2 DEF Venue, IsIdle
<1>5. IsIdle(from)
  <2>1. \A v \in Venue : pos.holdings[v] > 0 /\ ~IsIdle(v) => v \in s.listed
    BY <1>2 DEF HealthAlarms
  <2>2. from # to
    BY <1>1 DEF WithinPolicy
  <2> QED  BY <1>2, <1>3, <1>4, <2>1, <2>2 DEF Venue, IsIdle
<1>6. Route(d.plan) \in {"supply", "bridge"}
  BY <1>3, <1>4, <1>5 DEF Route, IsIdle, ChainOf, ArcIdle, ArbIdle, ArcAave, ArbAave
<1> QED  BY <1>3, <1>6 DEF GatePasses

-----------------------------------------------------------------------------
(* A move in the ledger.                                                   *)
LEMMA MoveType ==
  ASSUME NEW a \in Account, NEW from \in Location, NEW to \in Location,
         NEW n \in Nat, n <= a[from], from # to
  PROVE  /\ Move(a, from, to, n) \in Account
         /\ \A l \in Location \ {from, to} : Move(a, from, to, n)[l] = a[l]
         /\ Move(a, from, to, n)[from] = a[from] - n
         /\ Move(a, from, to, n)[to] = a[to] + n
BY DEF Move, Account

-----------------------------------------------------------------------------
(* Sums over finite sets.                                                  *)

(* Finite sets are well founded: a family of subsets has a smallest one.   *)
LEMMA SmallestSubset ==
  ASSUME NEW S, IsFiniteSet(S), NEW B, B \subseteq SUBSET S, B # {}
  PROVE  \E T \in B : \A U \in B : U \subseteq T => U = T
<1>1. B \subseteq FiniteSubsetsOf(S)
  BY FS_Subset DEF FiniteSubsetsOf
<1>2. IsWellFoundedOn(StrictSubsetOrdering(S), FiniteSubsetsOf(S))
  BY FS_StrictSubsetOrderingWellFounded
<1>3. PICK T \in B : \A U \in B : ~(<< U, T >> \in StrictSubsetOrdering(S))
  BY <1>1, <1>2, WFMin
<1> QED  BY <1>3 DEF StrictSubsetOrdering

(* The folds of the library take the elements in an order of their own: a  *)
(* sum unfolds along it, and is the same along any other.                  *)
Some(s) == CHOOSE x \in s : TRUE

IsSum(w, S, f) ==
  f = [ s \in SUBSET S |-> IF s = {} THEN 0 ELSE w[Some(s)] + f[s \ {Some(s)}] ]

LEMMA SomeIn == ASSUME NEW s, s # {}  PROVE  Some(s) \in s
BY DEF Some

LEMMA SumUnique ==
  ASSUME NEW S, IsFiniteSet(S), NEW w, NEW V \in SUBSET S, NEW f, IsSum(w, S, f),
         NEW g, IsSum(w, V, g)
  PROVE  f[V] = g[V]
<1> SUFFICES ASSUME f[V] # g[V]  PROVE FALSE
  OBVIOUS
<1> DEFINE B == { T \in SUBSET V : f[T] # g[T] }
<1>1. PICK T \in B : \A U \in B : U \subseteq T => U = T
  <2>1. B \subseteq SUBSET V /\ V \in B /\ IsFiniteSet(V)
    BY FS_Subset
  <2> HIDE DEF B
  <2> QED  BY <2>1, SmallestSubset
<1>2. f[{}] = 0 /\ g[{}] = 0
  BY DEF IsSum
<1>3. T # {}
  BY <1>2
<1>4. Some(T) \in T /\ T \ {Some(T)} \notin B
  BY <1>1, <1>3, SomeIn
<1>5. f[T \ {Some(T)}] = g[T \ {Some(T)}]
  BY <1>4
<1>6. /\ f[T] = w[Some(T)] + f[T \ {Some(T)}]
      /\ g[T] = w[Some(T)] + g[T \ {Some(T)}]
  BY <1>3 DEF IsSum
<1> QED  BY <1>5, <1>6

LEMMA SumExists ==
  ASSUME NEW S, IsFiniteSet(S), NEW w  PROVE  \E f : IsSum(w, S, f)
<1> SUFFICES ASSUME ~ \E f : IsSum(w, S, f)  PROVE FALSE
  OBVIOUS
<1> DEFINE B == { T \in SUBSET S : ~ \E f : IsSum(w, T, f) }
<1>1. PICK T \in B : \A U \in B : U \subseteq T => U = T
  <2>1. B \subseteq SUBSET S /\ S \in B /\ IsFiniteSet(S)
    OBVIOUS
  <2> HIDE DEF B
  <2> QED  BY <2>1, SmallestSubset
<1> DEFINE Sub(U) == CHOOSE f : IsSum(w, U, f)
           sub == [ U \in SUBSET T |-> Sub(U)[U] ]
           g   == [ s \in SUBSET T |->
                      IF s = {} THEN 0 ELSE w[Some(s)] + sub[s \ {Some(s)}] ]
<1>2. \A U \in SUBSET T : U # T => IsSum(w, U, Sub(U))
  BY <1>1
<1>3. ASSUME NEW U \in SUBSET T, U # T  PROVE  g[U] = sub[U]
  <2>1. IsSum(w, U, Sub(U)) /\ IsFiniteSet(U)
    BY <1>2, <1>3, FS_Subset
  <2>2. sub[U] = Sub(U)[U]
    OBVIOUS
  <2>3. CASE U = {}
    BY <2>1, <2>2, <2>3 DEF IsSum
  <2>4. CASE U # {}
    <3> DEFINE V == U \ {Some(U)}
    <3>1. Some(U) \in U /\ V \in SUBSET U /\ V \in SUBSET T /\ V # T
      BY <2>4, SomeIn
    <3>2. IsSum(w, V, Sub(V))
      BY <1>2, <3>1
    <3>3. Sub(U)[V] = Sub(V)[V]
      BY <2>1, <3>1, <3>2, SumUnique
    <3>4. Sub(U)[U] = w[Some(U)] + Sub(U)[V]
      BY <2>1, <2>4 DEF IsSum
    <3>5. g[U] = w[Some(U)] + sub[V] /\ sub[V] = Sub(V)[V]
      BY <2>4, <3>1
    <3> QED  BY <2>2, <3>3, <3>4, <3>5
  <2> QED  BY <2>3, <2>4
<1>4. ASSUME NEW s \in SUBSET T, s # {}  PROVE  g[s] = w[Some(s)] + g[s \ {Some(s)}]
  <2>1. s \ {Some(s)} \in SUBSET T /\ s \ {Some(s)} # T
    BY <1>4, SomeIn
  <2>2. g[s \ {Some(s)}] = sub[s \ {Some(s)}]
    BY <1>3, <2>1
  <2> QED  BY <1>4, <2>2
<1>5. g[{}] = 0
  OBVIOUS
<1>6. g = [ s \in SUBSET T |-> g[s] ]
  OBVIOUS
<1> HIDE DEF g
<1>7. IsSum(w, T, g)
  BY <1>4, <1>5, <1>6 DEF IsSum
<1> QED  BY <1>1, <1>7

LEMMA SumUnfold ==
  ASSUME NEW S, IsFiniteSet(S), NEW w
  PROVE  /\ S = {} => SumOver(w, S) = 0
         /\ S # {} => SumOver(w, S) = w[Some(S)] + SumOver(w, S \ {Some(S)})
<1> DEFINE Sum(U) == CHOOSE f : IsSum(w, U, f)
           V == S \ {Some(S)}
<1>1. \A U : SumOver(w, U) = Sum(U)[U]
  BY DEF SumOver, MapThenSumSet, MapThenFoldSet, IsSum, Some
<1>2. IsSum(w, S, Sum(S)) /\ IsSum(w, V, Sum(V)) /\ V \in SUBSET S
  BY SumExists, FS_Subset
<1>3. Sum(S)[V] = Sum(V)[V]
  BY <1>2, SumUnique
<1>4. /\ S = {} => Sum(S)[S] = 0
      /\ S # {} => Sum(S)[S] = w[Some(S)] + Sum(S)[V]
  BY <1>2 DEF IsSum
<1> QED  BY <1>1, <1>3, <1>4

(* What a sum is, whichever element is taken first.                        *)
LEMMA SumType ==
  ASSUME NEW S, IsFiniteSet(S), NEW w, \A x \in S : w[x] \in Nat
  PROVE  SumOver(w, S) \in Nat
<1> SUFFICES ASSUME SumOver(w, S) \notin Nat  PROVE FALSE
  OBVIOUS
<1> DEFINE B == { T \in SUBSET S : SumOver(w, T) \notin Nat }
<1>1. PICK T \in B : \A U \in B : U \subseteq T => U = T
  <2>1. B \subseteq SUBSET S /\ S \in B /\ IsFiniteSet(S)
    OBVIOUS
  <2> HIDE DEF B
  <2> QED  BY <2>1, SmallestSubset
<1>2. IsFiniteSet(T)
  BY FS_Subset
<1>3. T # {}
  <2>1. SumOver(w, {}) = 0
    BY FS_EmptySet, SumUnfold
  <2> QED  BY <2>1
<1>4. Some(T) \in T /\ T \ {Some(T)} \notin B
  BY <1>1, <1>3, SomeIn
<1>5. SumOver(w, T \ {Some(T)}) \in Nat /\ w[Some(T)] \in Nat
  BY <1>4
<1>6. SumOver(w, T) = w[Some(T)] + SumOver(w, T \ {Some(T)})
  BY <1>2, <1>3, SumUnfold
<1> QED  BY <1>5, <1>6

LEMMA SumSame ==
  ASSUME NEW S, IsFiniteSet(S), NEW w, NEW v, \A x \in S : w[x] = v[x]
  PROVE  SumOver(w, S) = SumOver(v, S)
<1> SUFFICES ASSUME SumOver(w, S) # SumOver(v, S)  PROVE FALSE
  OBVIOUS
<1> DEFINE B == { T \in SUBSET S : SumOver(w, T) # SumOver(v, T) }
<1>1. PICK T \in B : \A U \in B : U \subseteq T => U = T
  <2>1. B \subseteq SUBSET S /\ S \in B /\ IsFiniteSet(S)
    OBVIOUS
  <2> HIDE DEF B
  <2> QED  BY <2>1, SmallestSubset
<1>2. IsFiniteSet(T)
  BY FS_Subset
<1>3. T # {}
  BY <1>2, SumUnfold
<1>4. Some(T) \in T /\ T \ {Some(T)} \notin B
  BY <1>1, <1>3, SomeIn
<1>5. SumOver(w, T \ {Some(T)}) = SumOver(v, T \ {Some(T)})
  BY <1>4
<1>6. w[Some(T)] = v[Some(T)]
  BY <1>4
<1>7. /\ SumOver(w, T) = w[Some(T)] + SumOver(w, T \ {Some(T)})
      /\ SumOver(v, T) = v[Some(T)] + SumOver(v, T \ {Some(T)})
  BY <1>2, <1>3, SumUnfold
<1> QED  BY <1>5, <1>6, <1>7

LEMMA SumZero ==
  ASSUME NEW S, IsFiniteSet(S), NEW w, \A x \in S : w[x] = 0
  PROVE  SumOver(w, S) = 0
<1> SUFFICES ASSUME SumOver(w, S) # 0  PROVE FALSE
  OBVIOUS
<1> DEFINE B == { T \in SUBSET S : SumOver(w, T) # 0 }
<1>1. PICK T \in B : \A U \in B : U \subseteq T => U = T
  <2>1. B \subseteq SUBSET S /\ S \in B /\ IsFiniteSet(S)
    OBVIOUS
  <2> HIDE DEF B
  <2> QED  BY <2>1, SmallestSubset
<1>2. IsFiniteSet(T)
  BY FS_Subset
<1>3. T # {}
  BY <1>2, SumUnfold
<1>4. Some(T) \in T /\ T \ {Some(T)} \notin B
  BY <1>1, <1>3, SomeIn
<1>5. SumOver(w, T \ {Some(T)}) = 0 /\ w[Some(T)] = 0
  BY <1>4
<1>6. SumOver(w, T) = w[Some(T)] + SumOver(w, T \ {Some(T)})
  BY <1>2, <1>3, SumUnfold
<1> QED  BY <1>5, <1>6

LEMMA SumTake ==
  ASSUME NEW S, IsFiniteSet(S), NEW w, \A x \in S : w[x] \in Nat, NEW y \in S
  PROVE  SumOver(w, S) = w[y] + SumOver(w, S \ {y})
<1> SUFFICES ASSUME SumOver(w, S) # w[y] + SumOver(w, S \ {y})  PROVE FALSE
  OBVIOUS
<1> DEFINE B == { T \in SUBSET S :
                    \E z \in T : SumOver(w, T) # w[z] + SumOver(w, T \ {z}) }
<1>1. PICK T \in B : \A U \in B : U \subseteq T => U = T
  <2>1. B \subseteq SUBSET S /\ S \in B /\ IsFiniteSet(S)
    OBVIOUS
  <2> HIDE DEF B
  <2> QED  BY <2>1, SmallestSubset
<1>2. PICK z \in T : SumOver(w, T) # w[z] + SumOver(w, T \ {z})
  OBVIOUS
<1> DEFINE x == Some(T)
<1>3. IsFiniteSet(T) /\ x \in T
  BY <1>2, FS_Subset, SomeIn
<1>4. SumOver(w, T) = w[x] + SumOver(w, T \ {x})
  BY <1>2, <1>3, SumUnfold
<1>5. x # z
  BY <1>2, <1>4
<1> HIDE DEF x
<1>6. T \ {x} \notin B /\ T \ {z} \notin B
  BY <1>1, <1>2, <1>3
<1>7. /\ SumOver(w, T \ {x}) = w[z] + SumOver(w, (T \ {x}) \ {z})
      /\ SumOver(w, T \ {z}) = w[x] + SumOver(w, (T \ {z}) \ {x})
  BY <1>2, <1>3, <1>5, <1>6
<1>8. (T \ {x}) \ {z} = (T \ {z}) \ {x}
  OBVIOUS
<1>9. SumOver(w, (T \ {z}) \ {x}) \in Nat /\ w[x] \in Nat /\ w[z] \in Nat
  BY <1>2, <1>3, SumType, FS_Subset
<1> QED  BY <1>2, <1>4, <1>7, <1>8, <1>9

LEMMA SumAdd ==
  ASSUME NEW S, IsFiniteSet(S), NEW y, y \notin S, NEW w,
         \A x \in S \cup {y} : w[x] \in Nat
  PROVE  SumOver(w, S \cup {y}) = w[y] + SumOver(w, S)
<1>1. IsFiniteSet(S \cup {y}) /\ (S \cup {y}) \ {y} = S
  BY FS_AddElement
<1> QED  BY <1>1, SumTake

(* One element comes, goes or changes its weight.                          *)
LEMMA SumOneChanges ==
  ASSUME NEW S, IsFiniteSet(S), NEW T, NEW y, S \ {y} = T \ {y},
         NEW w, NEW v, \A x \in S : w[x] \in Nat, \A x \in T : v[x] \in Nat,
         \A x \in S \ {y} : w[x] = v[x]
  PROVE  /\ SumOver(w, S) \in Nat /\ SumOver(v, T) \in Nat
         /\ SumOver(v, T) + (IF y \in S THEN w[y] ELSE 0)
              = SumOver(w, S) + (IF y \in T THEN v[y] ELSE 0)
<1> DEFINE R == S \ {y}
<1>1. IsFiniteSet(R)
  BY FS_Subset
<1>2. IsFiniteSet(T)
  <2>1. T \subseteq R \cup {y} /\ IsFiniteSet(R \cup {y})
    BY <1>1, FS_AddElement
  <2> QED  BY <2>1, FS_Subset
<1>3. SumOver(w, R) = SumOver(v, R) /\ SumOver(w, R) \in Nat
  BY <1>1, SumSame, SumType
<1>4. SumOver(w, S) = SumOver(w, R) + (IF y \in S THEN w[y] ELSE 0)
  <2>1. CASE y \in S
    BY <2>1, <1>3, SumTake
  <2>2. CASE y \notin S
    <3>1. R = S
      BY <2>2
    <3> QED  BY <1>3, <2>2, <3>1
  <2> QED  BY <2>1, <2>2
<1>5. SumOver(v, T) = SumOver(v, R) + (IF y \in T THEN v[y] ELSE 0)
  <2>1. CASE y \in T
    <3>1. SumOver(v, T) = v[y] + SumOver(v, T \ {y})
      BY <1>2, <2>1, SumTake
    <3>2. T \ {y} = R
      OBVIOUS
    <3> HIDE DEF R
    <3>3. SumOver(v, R) \in Nat
      BY <1>3
    <3>4. v[y] \in Nat
      BY <2>1
    <3>5. SumOver(v, T) = v[y] + SumOver(v, R)
      BY <3>1, <3>2
    <3>6. v[y] + SumOver(v, R) = SumOver(v, R) + v[y]
      BY <3>3, <3>4
    <3> QED  BY <2>1, <3>5, <3>6
  <2>2. CASE y \notin T
    <3>1. R = T
      BY <2>2
    <3> HIDE DEF R
    <3>2. SumOver(v, R) \in Nat
      BY <1>3
    <3> QED  BY <2>2, <3>1, <3>2
  <2> QED  BY <2>1, <2>2
<1>6. (IF y \in S THEN w[y] ELSE 0) \in Nat /\ (IF y \in T THEN v[y] ELSE 0) \in Nat
  OBVIOUS
<1> HIDE DEF R
<1> QED  BY <1>3, <1>4, <1>5, <1>6
-----------------------------------------------------------------------------
(* Sequences.                                                              *)
LEMMA MapSeq ==
  ASSUME NEW T, NEW s \in Seq(T), NEW S, NEW f \in [ DOMAIN s -> S ]
  PROVE  f \in Seq(S) /\ Len(f) = Len(s)
<1>1. Len(s) \in Nat /\ f \in [ 1 .. Len(s) -> S ]
  OBVIOUS
<1>2. f \in Seq(S)
  BY <1>1, SeqDef
<1> QED  BY <1>1, <1>2

LEMMA EmptyMap ==
  ASSUME NEW f, DOMAIN f = 1 .. 0, f = [ k \in 1 .. 0 |-> f[k] ]  PROVE  f = <<>>
OBVIOUS

IsAppended(t, s, x) ==
  /\ t = [ i \in 1 .. Len(s) + 1 |-> t[i] ]
  /\ \A i \in 1 .. Len(s) : t[i] = s[i]
  /\ t[Len(s) + 1] = x

LEMMA AppendIs ==
  ASSUME NEW S, NEW s \in Seq(S), NEW x \in S, NEW t, IsAppended(t, s, x)
  PROVE  t = Append(s, x)
<1>1. PICK u \in Seq(S) : u = Append(s, x)
  <2>1. Append(s, x) \in Seq(S)
    BY AppendProperties
  <2> QED  BY <2>1
<1>2. /\ Len(u) = Len(s) + 1 /\ \A i \in 1 .. Len(s) : u[i] = s[i]
      /\ u[Len(s) + 1] = x
  BY <1>1, AppendProperties
<1>3. PICK n \in Nat : n = Len(s)
  OBVIOUS
<1>4. u = [ i \in 1 .. n + 1 |-> u[i] ] /\ t = [ i \in 1 .. n + 1 |-> t[i] ]
  BY <1>2, <1>3 DEF IsAppended
<1>5. \A i \in 1 .. n + 1 : i \in 1 .. n \/ i = n + 1
  OBVIOUS
<1>6. \A i \in 1 .. n + 1 : t[i] = u[i]
  BY <1>2, <1>3, <1>5 DEF IsAppended
<1> QED  BY <1>1, <1>4, <1>6

(* The concatenation of sequences, taken one by one: the recursive         *)
(* function exists, is unique, and grows with the sequence.                *)
IsFlat(s, n, f) == f = [ i \in 1 .. n |-> IF i = 1 THEN s[i] ELSE f[i - 1] \o s[i] ]

LEMMA FlatUnique ==
  ASSUME NEW s, NEW t, NEW n \in Nat, NEW m \in Nat, NEW f, IsFlat(s, n, f),
         NEW g, IsFlat(t, m, g), NEW k \in Nat, k <= n, k <= m,
         \A i \in 1 .. k : s[i] = t[i]
  PROVE  \A i \in 1 .. k : f[i] = g[i]
<1> DEFINE D == { i \in 1 .. k : f[i] # g[i] }
<1> SUFFICES ASSUME D # {}  PROVE FALSE
  OBVIOUS
<1>1. D \subseteq Nat
  OBVIOUS
<1>2. PICK i \in D : \A j \in D : ~(j < i)
  <2> HIDE DEF D
  <2> QED  BY <1>1, NatMin
<1>3. i \in 1 .. k /\ f[i] # g[i]
  OBVIOUS
<1>4. i # 1 => i - 1 \in 1 .. k /\ f[i - 1] = g[i - 1]
  BY <1>2, <1>3
<1>5. /\ f[i] = IF i = 1 THEN s[i] ELSE f[i - 1] \o s[i]
      /\ g[i] = IF i = 1 THEN t[i] ELSE g[i - 1] \o t[i]
  <2>1. i \in 1 .. n /\ i \in 1 .. m
    BY <1>3
  <2> QED  BY <2>1 DEF IsFlat
<1> QED  BY <1>3, <1>4, <1>5

LEMMA FlatExists ==
  ASSUME NEW s, NEW n \in Nat  PROVE  \E f : IsFlat(s, n, f)
<1> DEFINE D == { i \in Nat : ~ \E f : IsFlat(s, i, f) }
<1> SUFFICES ASSUME D # {}  PROVE FALSE
  OBVIOUS
<1>1. PICK i \in D : \A j \in D : ~(j < i)
  <2>1. D \subseteq Nat
    OBVIOUS
  <2> HIDE DEF D
  <2> QED  BY <2>1, NatMin
<1>2. i \in Nat /\ ~ \E f : IsFlat(s, i, f)
  OBVIOUS
<1>3. CASE i = 0
  <2> DEFINE f == [ j \in 1 .. i |-> j ]
  <2>1. f = [ j \in 1 .. i |-> IF j = 1 THEN s[j] ELSE f[j - 1] \o s[j] ]
    BY <1>3
  <2> QED  BY <1>2, <2>1 DEF IsFlat
<1>4. CASE i # 0
  <2>1. i - 1 \in Nat /\ i - 1 \notin D
    BY <1>1, <1>2, <1>4
  <2>2. PICK g : IsFlat(s, i - 1, g)
    BY <2>1
  <2> DEFINE e == IF i = 1 THEN s[i] ELSE g[i - 1] \o s[i]
             f == [ j \in 1 .. i |-> IF j = i THEN e ELSE g[j] ]
  <2>3. ASSUME NEW j \in 1 .. i  PROVE  f[j] = IF j = 1 THEN s[j] ELSE f[j - 1] \o s[j]
    <3>1. j # 1 => j - 1 \in 1 .. i /\ j - 1 # i
      BY <1>2
    <3>2. CASE j = i
      BY <3>1, <3>2
    <3>3. CASE j # i
      <4>1. j \in 1 .. i - 1
        BY <1>2, <3>3
      <4>2. g[j] = IF j = 1 THEN s[j] ELSE g[j - 1] \o s[j]
        BY <2>2, <4>1 DEF IsFlat
      <4> QED  BY <3>1, <3>3, <4>2
    <3> QED  BY <3>2, <3>3
  <2>4. f = [ j \in 1 .. i |-> f[j] ]
    OBVIOUS
  <2> HIDE DEF f
  <2>5. IsFlat(s, i, f)
    BY <2>3, <2>4 DEF IsFlat
  <2> QED  BY <1>2, <2>5
<1> QED  BY <1>3, <1>4

LEMMA FlattenIs ==
  ASSUME NEW S, NEW s \in Seq(S), s # <<>>
  PROVE  \E f : IsFlat(s, Len(s), f) /\ FlattenSeq(s) = f[Len(s)]
<1>1. Len(s) \in Nat /\ Len(s) # 0
  OBVIOUS
<1>2. FlattenSeq(s) = (CHOOSE f : IsFlat(s, Len(s), f))[Len(s)]
  BY <1>1 DEF FlattenSeq, IsFlat
<1> QED  BY <1>1, <1>2, FlatExists

LEMMA FlattenOne ==
  ASSUME NEW x  PROVE  FlattenSeq(<< x >>) = x
<1>1. << x >> \in Seq({x}) /\ << x >> # <<>> /\ Len(<< x >>) = 1 /\ << x >>[1] = x
  OBVIOUS
<1>2. PICK f : IsFlat(<< x >>, Len(<< x >>), f) /\ FlattenSeq(<< x >>) = f[Len(<< x >>)]
  BY <1>1, FlattenIs
<1>3. f = [ i \in 1 .. 1 |-> IF i = 1 THEN << x >>[i] ELSE f[i - 1] \o << x >>[i] ]
  BY <1>1, <1>2 DEF IsFlat
<1>4. f[1] = x
  BY <1>3
<1> QED  BY <1>1, <1>2, <1>4

LEMMA FlattenAppend ==
  ASSUME NEW S, NEW s \in Seq(S), s # <<>>, NEW x \in S
  PROVE  FlattenSeq(Append(s, x)) = FlattenSeq(s) \o x
<1> DEFINE n == Len(s)
           t == Append(s, x)
<1>1. /\ n \in Nat /\ n # 0
      /\ t \in Seq(S) /\ t # <<>> /\ Len(t) = n + 1
      /\ t[n + 1] = x /\ \A i \in 1 .. n : t[i] = s[i]
  OBVIOUS
<1> HIDE DEF n, t
<1>2. PICK f : IsFlat(s, n, f) /\ FlattenSeq(s) = f[n]
  BY FlattenIs DEF n
<1>3. PICK g : IsFlat(t, n + 1, g) /\ FlattenSeq(t) = g[n + 1]
  <2>1. \E g : IsFlat(t, Len(t), g) /\ FlattenSeq(t) = g[Len(t)]
    BY <1>1, FlattenIs
  <2> QED  BY <1>1, <2>1
<1>4. f[n] = g[n]
  <2>1. n \in Nat /\ n + 1 \in Nat /\ n <= n /\ n <= n + 1 /\ \A i \in 1 .. n : s[i] = t[i]
    BY <1>1
  <2>2. \A i \in 1 .. n : f[i] = g[i]
    BY <1>2, <1>3, <2>1, FlatUnique
  <2> QED  BY <1>1, <2>2
<1>5. g[n + 1] = g[n] \o t[n + 1]
  <2>1. PICK k \in 1 .. n + 1 : k = n + 1
    BY <1>1
  <2>2. k # 1 /\ k - 1 = n
    BY <1>1, <2>1
  <2>3. g = [ i \in 1 .. n + 1 |-> IF i = 1 THEN t[i] ELSE g[i - 1] \o t[i] ]
    BY <1>3 DEF IsFlat
  <2>4. g[k] = IF k = 1 THEN t[k] ELSE g[k - 1] \o t[k]
    BY <2>3
  <2>5. g[k] = g[n] \o t[k]
    BY <2>2, <2>4
  <2> QED  BY <2>1, <2>5
<1> QED  BY <1>1, <1>2, <1>3, <1>4, <1>5 DEF t

-----------------------------------------------------------------------------
(* Recursive functions: if a step makes of a function one whose value at x *)
(* depends only on values of lower rank, some function is left as it is.   *)
Extensional(X, V, rank, E) ==
  \A f, g \in [ X -> V ], x \in X :
     (\A y \in X : rank[y] < rank[x] => f[y] = g[y]) => E[f][x] = E[g][x]

FixedUpTo(X, rank, E, f, n) == \A x \in X : rank[x] < n => f[x] = E[f][x]

LEMMA LowestRank ==
  ASSUME NEW X, NEW rank \in [ X -> Nat ], NEW D, D \subseteq X, D # {}
  PROVE  \E x \in D : \A y \in D : ~(rank[y] < rank[x])
<1> DEFINE R == { rank[x] : x \in D }
<1>1. R \subseteq Nat /\ R # {}
  OBVIOUS
<1>2. PICK r \in R : \A q \in R : ~(q < r)
  <2> HIDE DEF R
  <2> QED  BY <1>1, NatMin
<1>3. PICK x \in D : rank[x] = r
  OBVIOUS
<1> QED  BY <1>2, <1>3

LEMMA FixedAgree ==
  ASSUME NEW X, NEW V, NEW rank \in [ X -> Nat ], NEW E, Extensional(X, V, rank, E),
         NEW f \in [ X -> V ], NEW g \in [ X -> V ], NEW n \in Nat,
         FixedUpTo(X, rank, E, f, n), FixedUpTo(X, rank, E, g, n)
  PROVE  \A x \in X : rank[x] < n => f[x] = g[x]
<1> DEFINE D == { x \in X : rank[x] < n /\ f[x] # g[x] }
<1> SUFFICES ASSUME D # {}  PROVE FALSE
  OBVIOUS
<1>1. PICK x \in D : \A y \in D : ~(rank[y] < rank[x])
  <2>1. D \subseteq X
    OBVIOUS
  <2> HIDE DEF D
  <2> QED  BY <2>1, LowestRank
<1>2. x \in X /\ rank[x] < n /\ f[x] # g[x]
  OBVIOUS
<1>3. \A y \in X : rank[y] < rank[x] => f[y] = g[y]
  <2> SUFFICES ASSUME NEW y \in X, rank[y] < rank[x]  PROVE f[y] = g[y]
    OBVIOUS
  <2>1. y \notin D /\ rank[y] \in Nat /\ rank[x] \in Nat
    BY <1>1
  <2> QED  BY <1>2, <2>1
<1>4. E[f][x] = E[g][x]
  BY <1>2, <1>3 DEF Extensional
<1> QED  BY <1>2, <1>4 DEF FixedUpTo

LEMMA FixedExists ==
  ASSUME NEW X, NEW V, V # {}, NEW rank \in [ X -> Nat ], NEW E \in [ [X -> V] -> [X -> V] ],
         Extensional(X, V, rank, E), NEW n \in Nat
  PROVE  \E f \in [ X -> V ] : FixedUpTo(X, rank, E, f, n)
<1> DEFINE D == { k \in Nat : ~ \E f \in [ X -> V ] : FixedUpTo(X, rank, E, f, k) }
<1> SUFFICES ASSUME D # {}  PROVE FALSE
  OBVIOUS
<1>1. PICK k \in D : \A j \in D : ~(j < k)
  <2>1. D \subseteq Nat
    OBVIOUS
  <2> HIDE DEF D
  <2> QED  BY <2>1, NatMin
<1>2. k \in Nat /\ ~ \E f \in [ X -> V ] : FixedUpTo(X, rank, E, f, k)
  OBVIOUS
<1>3. CASE k = 0
  <2>1. PICK v \in V : TRUE
    OBVIOUS
  <2>2. [ x \in X |-> v ] \in [ X -> V ]
    OBVIOUS
  <2>3. \A x \in X : ~(rank[x] < k)
    BY <1>3
  <2>4. FixedUpTo(X, rank, E, [ x \in X |-> v ], k)
    BY <2>3 DEF FixedUpTo
  <2> QED  BY <1>2, <2>2, <2>4
<1>4. CASE k # 0
  <2>1. k - 1 \in Nat /\ k - 1 \notin D
    BY <1>1, <1>2, <1>4
  <2>2. PICK f \in [ X -> V ] : FixedUpTo(X, rank, E, f, k - 1)
    BY <2>1
  <2>3. PICK g \in [ X -> V ] : g = E[f]
    OBVIOUS
  <2>4. ASSUME NEW x \in X, rank[x] < k  PROVE  g[x] = E[g][x]
    <3>1. \A y \in X : rank[y] < rank[x] => f[y] = g[y]
      <4> SUFFICES ASSUME NEW y \in X, rank[y] < rank[x]  PROVE f[y] = g[y]
        OBVIOUS
      <4>1. rank[y] \in Nat /\ rank[x] \in Nat
        OBVIOUS
      <4>2. rank[y] < k - 1
        BY <1>2, <2>4, <4>1
      <4> QED  BY <2>2, <2>3, <4>2 DEF FixedUpTo
    <3>2. E[f][x] = E[g][x]
      BY <3>1 DEF Extensional
    <3> QED  BY <2>3, <3>2
  <2>5. FixedUpTo(X, rank, E, g, k)
    BY <2>4 DEF FixedUpTo
  <2> QED  BY <1>2, <2>5
<1> QED  BY <1>3, <1>4

IsRecursion(X, V, rank, E) ==
  /\ V # {} /\ rank \in [ X -> Nat ] /\ E \in [ [X -> V] -> [X -> V] ]
  /\ Extensional(X, V, rank, E)

HasFixed(X, V, E) == \E f \in [ X -> V ] : f = E[f]

LEMMA Fixed ==
  ASSUME NEW X, NEW V, NEW rank, NEW E, IsRecursion(X, V, rank, E)
  PROVE  HasFixed(X, V, E)
<1> USE DEF IsRecursion
<1> DEFINE G(n) == CHOOSE f \in [ X -> V ] : FixedUpTo(X, rank, E, f, n)
           h == [ x \in X |-> G(rank[x] + 1)[x] ]
<1>1. \A n \in Nat : G(n) \in [ X -> V ] /\ FixedUpTo(X, rank, E, G(n), n)
  BY FixedExists
<1> HIDE DEF G
<1>2. \A x \in X : rank[x] \in Nat /\ rank[x] + 1 \in Nat
  OBVIOUS
<1>3. h \in [ X -> V ]
  BY <1>1, <1>2
<1>4. ASSUME NEW x \in X  PROVE  h[x] = E[h][x]
  <2>1. PICK g \in [ X -> V ], n \in Nat :
          n = rank[x] + 1 /\ g = G(n) /\ FixedUpTo(X, rank, E, g, n)
    BY <1>1, <1>2
  <2>2. \A y \in X : rank[y] < rank[x] => h[y] = g[y]
    <3> SUFFICES ASSUME NEW y \in X, rank[y] < rank[x]  PROVE h[y] = g[y]
      OBVIOUS
    <3>1. PICK f \in [ X -> V ], m \in Nat :
            m = rank[y] + 1 /\ f = G(m) /\ FixedUpTo(X, rank, E, f, m)
      BY <1>1, <1>2
    <3>2. \A z \in X : rank[z] < m => rank[z] < n
      BY <1>2, <2>1, <3>1
    <3>3. FixedUpTo(X, rank, E, g, m)
      BY <2>1, <3>2 DEF FixedUpTo
    <3>4. rank[y] < m
      BY <1>2, <3>1
    <3>5. f[y] = g[y]
      BY <3>1, <3>3, <3>4, FixedAgree
    <3> QED  BY <3>1, <3>5
  <2>3. E[h][x] = E[g][x]
    BY <1>3, <2>2 DEF Extensional
  <2>4. rank[x] < n
    BY <1>2, <2>1
  <2>5. g[x] = E[g][x]
    BY <2>1, <2>4 DEF FixedUpTo
  <2> QED  BY <2>1, <2>3, <2>5
<1> HIDE DEF h
<1>5. E[h] \in [ X -> V ]
  BY <1>3
<1>6. h = E[h]
  BY <1>3, <1>4, <1>5
<1> QED  BY <1>3, <1>6 DEF HasFixed

-----------------------------------------------------------------------------
(* A selection: the place with k places up to it is there, and only one.   *)
Rank(places, i) == Cardinality({ j \in places : j <= i })

LEMMA RankFacts ==
  ASSUME NEW places, places \subseteq Nat, IsFiniteSet(places)
  PROVE  /\ \A i \in places : Rank(places, i) \in 1 .. Cardinality(places)
         /\ \A i, j \in places : i < j => Rank(places, i) < Rank(places, j)
<1> DEFINE Up(i) == { j \in places : j <= i }
<1>1. ASSUME NEW i \in places
      PROVE  /\ IsFiniteSet(Up(i)) /\ Cardinality(Up(i)) \in Nat
             /\ Cardinality(Up(i)) <= Cardinality(places) /\ Cardinality(Up(i)) # 0
  <2>1. Up(i) \subseteq places /\ i \in Up(i)
    OBVIOUS
  <2> HIDE DEF Up
  <2>2. IsFiniteSet(Up(i)) /\ Cardinality(Up(i)) <= Cardinality(places)
    BY <2>1, FS_Subset
  <2>3. Cardinality(Up(i)) \in Nat /\ Cardinality(Up(i)) # 0
    BY <2>1, <2>2, FS_CardinalityType, FS_EmptySet
  <2> QED  BY <2>2, <2>3
<1>2. Cardinality(places) \in Nat
  BY FS_CardinalityType
<1>3. ASSUME NEW i \in places, NEW j \in places, i < j
      PROVE  Cardinality(Up(i)) < Cardinality(Up(j))
  <2>1. Up(i) \subseteq Up(j) /\ j \in Up(j) /\ j \notin Up(i)
    <3>1. i \in Nat /\ j \in Nat /\ j <= j /\ ~(j <= i)
      BY <1>3
    <3>2. \A k \in places : k <= i => k <= j
      <4> SUFFICES ASSUME NEW k \in places, k <= i  PROVE k <= j
        OBVIOUS
      <4>1. k \in Nat
        OBVIOUS
      <4> QED  BY <1>3, <3>1, <4>1
    <3> QED  BY <3>1, <3>2
  <2>2. IsFiniteSet(Up(i)) /\ IsFiniteSet(Up(j))
    BY <1>1
  <2> HIDE DEF Up
  <2>3. Cardinality(Up(i)) <= Cardinality(Up(j)) /\ Up(i) # Up(j)
    BY <2>1, <2>2, FS_Subset
  <2>4. Cardinality(Up(i)) # Cardinality(Up(j))
    BY <2>1, <2>2, <2>3, FS_Subset
  <2> QED  BY <1>1, <2>3, <2>4
<1>4. \A i : Rank(places, i) = Cardinality(Up(i))
  BY DEF Rank
<1> HIDE DEF Up
<1>5. \A i \in places : Rank(places, i) \in 1 .. Cardinality(places)
  BY <1>1, <1>2, <1>4
<1>6. \A i, j \in places : i < j => Rank(places, i) < Rank(places, j)
  BY <1>3, <1>4
<1> QED  BY <1>5, <1>6

LEMMA RankOnce ==
  ASSUME NEW places, places \subseteq Nat, IsFiniteSet(places),
         NEW i \in places, NEW j \in places, Rank(places, i) = Rank(places, j)
  PROVE  i = j
<1> DEFINE N == 1 .. Cardinality(places)
<1>1. i \in Nat /\ j \in Nat
  OBVIOUS
<1>2. Rank(places, i) \in N
  BY RankFacts
<1>3. Rank(places, i) \in Nat
  <2>1. Cardinality(places) \in Nat
    BY FS_CardinalityType
  <2> QED  BY <1>2, <2>1
<1>4. /\ i < j => Rank(places, i) < Rank(places, j)
      /\ j < i => Rank(places, j) < Rank(places, i)
  BY RankFacts
<1>5. ~(i < j) /\ ~(j < i)
  BY <1>3, <1>4
<1> QED  BY <1>1, <1>5

LEMMA RankIs ==
  ASSUME NEW places, places \subseteq Nat, IsFiniteSet(places),
         NEW k \in 1 .. Cardinality(places)
  PROVE  \E i \in places : Rank(places, i) = k
<1> DEFINE f == [ i \in places |-> Rank(places, i) ]
           R == { f[i] : i \in places }
           N == 1 .. Cardinality(places)
<1>1. Cardinality(places) \in Nat
  BY FS_CardinalityType
<1>2. IsFiniteSet(N) /\ Cardinality(N) = Cardinality(places)
  <2>1. PICK a \in Int, b \in Int : a = 1 /\ b = Cardinality(places)
    BY <1>1
  <2>2. IsFiniteSet(a .. b) /\ Cardinality(a .. b) = IF a > b THEN 0 ELSE b - a + 1
    BY FS_Interval
  <2>3. (IF a > b THEN 0 ELSE b - a + 1) = Cardinality(places)
    BY <1>1, <2>1
  <2> QED  BY <2>1, <2>2, <2>3
<1>3. R \subseteq N
  BY RankFacts
<1>4. f \in Bijection(places, R)
  <2>1. \A i, j \in places : f[i] = f[j] => i = j
    BY RankOnce
  <2>2. f \in [ places -> R ]
    OBVIOUS
  <2>3. \A r \in R : \E i \in places : f[i] = r
    OBVIOUS
  <2> HIDE DEF f, R
  <2> QED  BY <2>1, <2>2, <2>3 DEF Bijection, Injection, Surjection, IsInjective
<1>5. IsFiniteSet(R) /\ Cardinality(R) = Cardinality(places)
  <2> HIDE DEF f, R
  <2>1. f \in Surjection(places, R) /\ f \in Injection(places, R)
    BY <1>4 DEF Bijection
  <2> QED  BY <2>1, FS_Surjection
<1>6. R = N
  <2> HIDE DEF R, N
  <2> QED  BY <1>2, <1>3, <1>5, FS_Subset
<1> QED  BY <1>6

IsOrder(places, c, nth) ==
  /\ nth \in [ 1 .. c -> places ]
  /\ \A n \in 1 .. c : Rank(places, nth[n]) = n
  /\ \A s : Selected(s, places) = [ n \in 1 .. c |-> s[nth[n]] ]

LEMMA SelectedNth ==
  ASSUME NEW places, places \subseteq Nat, IsFiniteSet(places),
         NEW c, c = Cardinality(places)
  PROVE  \E nth : IsOrder(places, c, nth)
<1> DEFINE N == 1 .. c
           Nth(n) == CHOOSE k \in places : Cardinality({ j \in places : j <= k }) = n
           nth == [ n \in N |-> Nth(n) ]
<1>1. \A n \in N : Nth(n) \in places /\ Rank(places, Nth(n)) = n
  <2> SUFFICES ASSUME NEW n \in N  PROVE  Nth(n) \in places /\ Rank(places, Nth(n)) = n
    OBVIOUS
  <2>1. \E k \in places : Cardinality({ j \in places : j <= k }) = n
    BY RankIs DEF Rank
  <2> QED  BY <2>1 DEF Rank
<1>2. \A s : Selected(s, places) = [ n \in N |-> s[Nth(n)] ]
  BY DEF Selected
<1> HIDE DEF Nth
<1>3. nth \in [ N -> places ] /\ \A n \in N : nth[n] = Nth(n)
  BY <1>1
<1>4. \A s : Selected(s, places) = [ n \in N |-> s[nth[n]] ]
  BY <1>2
<1> HIDE DEF nth
<1>5. IsOrder(places, c, nth)
  BY <1>1, <1>3, <1>4 DEF IsOrder
<1> QED  BY <1>5

LEMMA SelectedType ==
  ASSUME NEW T, NEW s \in Seq(T), NEW places \in SUBSET DOMAIN s
  PROVE  /\ IsFiniteSet(places) /\ places \subseteq Nat
         /\ Selected(s, places) \in Seq(T)
         /\ Len(Selected(s, places)) = Cardinality(places)
<1>1. PICK l \in Nat : l = Len(s) /\ DOMAIN s = 1 .. l
  OBVIOUS
<1>2. IsFiniteSet(1 .. l)
  BY FS_Interval
<1>3. IsFiniteSet(places) /\ places \subseteq Nat
  BY <1>1, <1>2, FS_Subset
<1>4. PICK c \in Nat : c = Cardinality(places)
  BY <1>3, FS_CardinalityType
<1>5. PICK nth : IsOrder(places, c, nth)
  BY <1>3, <1>4, SelectedNth
<1> USE DEF IsOrder
<1>6. \A n \in 1 .. c : s[nth[n]] \in T
  BY <1>5
<1>7. PICK f \in [ 1 .. c -> T ] : f = Selected(s, places)
  BY <1>5, <1>6
<1>8. f \in Seq(T) /\ Len(f) = c
  BY <1>7, SeqDef
<1> QED  BY <1>3, <1>4, <1>7, <1>8

LEMMA SelectedSame ==
  ASSUME NEW places, places \subseteq Nat, IsFiniteSet(places),
         NEW s, NEW t, \A i \in places : s[i] = t[i]
  PROVE  Selected(s, places) = Selected(t, places)
<1>1. PICK c : c = Cardinality(places)
  OBVIOUS
<1>2. PICK nth : IsOrder(places, c, nth)
  BY <1>1, SelectedNth
<1>3. \A n \in 1 .. c : s[nth[n]] = t[nth[n]]
  BY <1>2 DEF IsOrder
<1> QED  BY <1>2, <1>3 DEF IsOrder

LEMMA SelectedNone ==
  ASSUME NEW s  PROVE  Selected(s, {}) = <<>>
<1>1. Cardinality({}) = 0 /\ IsFiniteSet({}) /\ {} \subseteq Nat
  BY FS_EmptySet
<1>2. PICK nth : IsOrder({}, 0, nth)
  BY <1>1, SelectedNth
<1>3. Selected(s, {}) = [ n \in 1 .. 0 |-> s[nth[n]] ]
  BY <1>2 DEF IsOrder
<1> QED  BY <1>3

(* One more place, after the others.                                       *)
LEMMA RankMore ==
  ASSUME NEW places, places \subseteq Nat, IsFiniteSet(places),
         NEW k \in Nat, \A i \in places : i < k
  PROVE  /\ IsFiniteSet(places \cup {k}) /\ places \cup {k} \subseteq Nat
         /\ Cardinality(places \cup {k}) = Cardinality(places) + 1
         /\ \A i \in places : Rank(places \cup {k}, i) = Rank(places, i)
         /\ Rank(places \cup {k}, k) = Cardinality(places) + 1
<1>1. k \notin places
  BY SMT
<1>2. /\ IsFiniteSet(places \cup {k}) /\ places \cup {k} \subseteq Nat
      /\ Cardinality(places \cup {k}) = Cardinality(places) + 1
  BY <1>1, FS_AddElement
<1>3. ASSUME NEW i \in places  PROVE  Rank(places \cup {k}, i) = Rank(places, i)
  <2>1. ~(k <= i)
    <3>1. i \in Nat /\ i < k
      OBVIOUS
    <3> QED  BY <3>1
  <2>2. { j \in places \cup {k} : j <= i } = { j \in places : j <= i }
    BY <2>1
  <2> QED  BY <2>2 DEF Rank
<1>4. Rank(places \cup {k}, k) = Cardinality(places) + 1
  <2>1. \A j \in places \cup {k} : j <= k
    <3> SUFFICES ASSUME NEW j \in places \cup {k}  PROVE j <= k
      OBVIOUS
    <3>1. CASE j = k
      BY <3>1
    <3>2. CASE j \in places
      <4>1. j \in Nat /\ j < k
        BY <3>2
      <4> QED  BY <4>1
    <3> QED  BY <3>1, <3>2
  <2>2. { j \in places \cup {k} : j <= k } = places \cup {k}
    BY <2>1
  <2> QED  BY <1>2, <2>2 DEF Rank
<1> QED  BY <1>2, <1>3, <1>4

SameBelow(s, t, places, k) == \A i \in places : i < k /\ s[i] = t[i]

LEMMA SelectedMore ==
  ASSUME NEW T, NEW s, NEW t, NEW places, places \subseteq Nat, IsFiniteSet(places),
         NEW k \in Nat, SameBelow(s, t, places, k),
         NEW a \in Seq(T), a = Selected(s, places), NEW x \in T, x = t[k],
         NEW q, q = places \cup {k}
  PROVE  IsAppended(Selected(t, q), a, x)
<1> USE DEF SameBelow
<1>1. PICK c \in Nat : c = Cardinality(places)
  BY FS_CardinalityType
<1>2. /\ IsFiniteSet(q) /\ q \subseteq Nat /\ Cardinality(q) = c + 1
      /\ \A i \in places : Rank(q, i) = Rank(places, i)
      /\ Rank(q, k) = c + 1
  BY <1>1, RankMore
<1>3. places \subseteq q /\ k \in q
  OBVIOUS
<1>4. PICK nth : IsOrder(places, c, nth)
  BY <1>1, SelectedNth
<1>5. PICK mth : IsOrder(q, c + 1, mth)
  BY <1>2, SelectedNth
<1> USE DEF IsOrder
<1>6. ASSUME NEW n \in 1 .. c  PROVE  mth[n] = nth[n]
  <2>1. nth[n] \in q /\ mth[n] \in q /\ n \in 1 .. c + 1
    <3>1. n \in 1 .. c + 1
      OBVIOUS
    <3>2. nth \in [ 1 .. c -> places ] /\ mth \in [ 1 .. c + 1 -> q ]
      BY <1>4, <1>5
    <3> QED  BY <1>3, <3>1, <3>2
  <2>2. Rank(q, nth[n]) = Rank(q, mth[n])
    BY <1>2, <1>4, <1>5, <2>1
  <2> QED  BY <1>2, <2>1, <2>2, RankOnce
<1>7. mth[c + 1] = k
  <2>1. c + 1 \in 1 .. c + 1
    OBVIOUS
  <2>2. mth[c + 1] \in q /\ Rank(q, mth[c + 1]) = Rank(q, k)
    BY <1>2, <1>5, <2>1
  <2> QED  BY <1>2, <1>3, <2>2, RankOnce
<1>8. PICK b : b = Selected(t, q)
  OBVIOUS
<1>9. a = [ n \in 1 .. c |-> s[nth[n]] ] /\ b = [ n \in 1 .. c + 1 |-> t[mth[n]] ]
  BY <1>4, <1>5, <1>8
<1>10. Len(a) = c
  <2>1. a \in Seq(T) /\ DOMAIN a = 1 .. c
    BY <1>8, <1>9
  <2> QED  BY <1>1, <2>1
<1>11. IsAppended(b, a, x)
  <2>1. b = [ n \in 1 .. c + 1 |-> b[n] ]
    BY <1>9
  <2>2. ASSUME NEW n \in 1 .. c  PROVE  b[n] = a[n]
    <3>1. n \in 1 .. c + 1 /\ nth[n] \in places
      BY <1>4
    <3>2. b[n] = t[mth[n]] /\ a[n] = s[nth[n]]
      BY <1>9, <3>1
    <3> QED  BY <1>6, <3>1, <3>2
  <2>3. b[c + 1] = x
    <3>1. c + 1 \in 1 .. c + 1
      OBVIOUS
    <3> QED  BY <1>7, <1>9, <3>1
  <2> QED  BY <1>10, <2>1, <2>2, <2>3 DEF IsAppended
<1> QED  BY <1>8, <1>11
=============================================================================
