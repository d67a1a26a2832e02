---------------------------- MODULE FundingLedger ----------------------------
(***************************************************************************)
(* The funding events an owner's earnings are computed from                *)
(* (src/automation/funding): an append that is idempotent per owner,       *)
(* chain, kind and transaction, sums by kind, the net deposit.  The        *)
(* INSERT ... ON CONFLICT DO NOTHING of the Postgres store and the write   *)
(* lock of the in-memory one make an append one step; rows are never       *)
(* changed or deleted, so the SELECT after a conflict finds its row.       *)
(***************************************************************************)
EXTENDS Integers, Sums

Kind == { "deposit", "withdraw_to_eoa" }

FundingEvent(Owner, On, Tx) ==
  [ id : Nat \ {0}, user : Owner, chain : On, kind : Kind, amount : Nat, tx : Tx ]

Key(e) == << e.user, e.chain, e.kind, e.tx >>

Recorded(events, e) == \E f \in events : Key(f) = Key(e)

NextId(events) == Cardinality(events) + 1

Insert(events, e) == events \cup { [ e EXCEPT !.id = NextId(events) ] }

(* Mutant: a transaction reported twice is two events.                     *)
AppendAny(events, e) == Insert(events, e)

AppendEvent(events, e) ==
  IF Recorded(events, e) THEN events ELSE Insert(events, e)

SumOf(events, u, kind) ==
  SumOver([ e \in events |-> e.amount ], { e \in events : e.user = u /\ e.kind = kind })

(* saturating_sub                                                          *)
NetDeposited(events, u) ==
  LET deposits    == SumOf(events, u, "deposit")
      withdrawals == SumOf(events, u, "withdraw_to_eoa")
  IN  IF deposits > withdrawals THEN deposits - withdrawals ELSE 0
=============================================================================
