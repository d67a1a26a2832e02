------------------------ MODULE GatewayTransferProofs ------------------------
(***************************************************************************)
(* The time the retried transfer takes, for every budget, backoff and      *)
(* indexer.  WithinBudget and RidesOutLag are not inductive: the first     *)
(* needs that a wait was only begun when it ends within the budget, the    *)
(* second that what the indexer lacks is the lag it had less the time      *)
(* since, and that a refusal is of the call that made it.                  *)
(***************************************************************************)
EXTENDS GatewayTransfer, TLAPS

(* What is left of the budget at each place.                               *)
Clock ==
  /\ pc \in { "first", "authorize" } => elapsed = 0
  /\ pc = "loop" => elapsed <= Budget
  /\ pc = "wait" => elapsed + backoff <= Budget
  /\ elapsed <= Budget + Slowest

(* The deposit comes nearer as time passes.                                *)
Nearer == pc \in { "loop", "wait" } => deposit = After(lag, elapsed)

Blamed == pc = "authorize" => refusal = "not_authorized"

TransferInv == TypeOK /\ Clock /\ Nearer /\ Blamed /\ RidesOutLag

(* Waiting in two parts is waiting for the sum.                            *)
LEMMA AfterAfter ==
  ASSUME NEW left \in Nat \cup {-1}, NEW d \in Nat, NEW e \in Nat
  PROVE  /\ After(left, d) \in Nat \cup {-1}
         /\ After(left, 0) = left
         /\ After(After(left, d), e) = After(left, d + e)
  BY DEF After

LEMMA InitInv == Init => TransferInv
  BY TransferAssumption
     DEF Init, TransferInv, TypeOK, Clock, Nearer, Blamed, RidesOutLag, Refusals, Budget

LEMMA FirstCallInv ==
  ASSUME TransferInv, NEW d \in Durations, FirstCall(d)
  PROVE  TransferInv'
<1>1. d \in Nat
  BY TransferAssumption
<1>2. deposit' \in Nat \cup {-1} /\ delegate' \in Nat \cup {-1}
  BY <1>1, AfterAfter DEF FirstCall, Elapse, TransferInv, TypeOK
<1>3. TypeOK'
  BY <1>2, TransferAssumption
     DEF FirstCall, EnterLoop, TransferInv, TypeOK, Refusals
<1>4. Clock' /\ Blamed' /\ RidesOutLag'
  BY TransferAssumption
     DEF FirstCall, EnterLoop, TransferInv, TypeOK, Clock, Blamed, RidesOutLag, Budget
<1>5. Nearer'
  <2>1. pc' = "loop" => lag' = deposit' /\ elapsed' = 0
    BY DEF FirstCall, EnterLoop
  <2>2. pc' # "wait"
    BY DEF FirstCall, EnterLoop
  <2>. QED BY <1>2, <2>1, <2>2, AfterAfter DEF Nearer
<1>. QED BY <1>3, <1>4, <1>5 DEF TransferInv

LEMMA AuthorizeInv ==
  ASSUME TransferInv, NEW d \in Durations, NEW l \in Lags, Authorize(d, l)
  PROVE  TransferInv'
<1>1. d \in Nat /\ l \in Nat
  BY TransferAssumption
<1>2. deposit' \in Nat \cup {-1} /\ delegate' \in Nat \cup {-1}
  BY <1>1, AfterAfter DEF Authorize, TransferInv, TypeOK
<1>3. TypeOK'
  BY <1>2, TransferAssumption DEF Authorize, EnterLoop, TransferInv, TypeOK
<1>4. Clock' /\ Blamed' /\ RidesOutLag'
  BY TransferAssumption
     DEF Authorize, EnterLoop, TransferInv, TypeOK, Clock, Blamed, RidesOutLag, Budget
<1>5. Nearer'
  <2>1. pc' = "loop" => lag' = deposit' /\ elapsed' = 0
    BY DEF Authorize, EnterLoop
  <2>2. pc' # "wait"
    BY DEF Authorize, EnterLoop
  <2>. QED BY <1>2, <2>1, <2>2, AfterAfter DEF Nearer
<1>. QED BY <1>3, <1>4, <1>5 DEF TransferInv

LEMMA RetryInv ==
  ASSUME TransferInv, NEW d \in Durations, Retry(d)
  PROVE  TransferInv'
<1>1. d \in Nat /\ d <= Slowest
  BY TransferAssumption
<1>2. deposit' \in Nat \cup {-1} /\ delegate' \in Nat \cup {-1}
  BY <1>1, AfterAfter DEF Retry, Elapse, TransferInv, TypeOK
<1>3. TypeOK'
  BY <1>1, <1>2 DEF Retry, TransferInv, TypeOK, Refusals
<1>4. Clock' /\ Blamed'
  BY <1>1, TransferAssumption
     DEF Retry, TransferInv, TypeOK, Clock, Blamed, Budget, OutOfBudget
<1>5. Nearer'
  <2>1. deposit' = After(After(lag, elapsed), d) /\ elapsed' = elapsed + d /\ lag' = lag
    BY DEF Retry, Elapse, TransferInv, Nearer
  <2>. QED BY <1>1, <2>1, AfterAfter DEF TransferInv, TypeOK, Nearer
<1>6. RidesOutLag'
  <2>. SUFFICES ASSUME pc' = "failed", refusal' = "insufficient"
                PROVE  lag' < 0 \/ lag' > Budget - MAX_BACKOFF - Slowest
    BY DEF RidesOutLag
  <2>1. deposit # 0 /\ elapsed + d + backoff > Budget
    BY DEF Retry, Refuses, OutOfBudget
  <2>2. deposit = After(lag, elapsed) /\ lag' = lag
    BY DEF Retry, TransferInv, Nearer
  <2>3. lag < 0 \/ lag > elapsed
    BY <2>1, <2>2 DEF After, TransferInv, TypeOK
  <2>. QED BY <1>1, <2>1, <2>2, <2>3, TransferAssumption
              DEF TransferInv, TypeOK, Budget
<1>. QED BY <1>3, <1>4, <1>5, <1>6 DEF TransferInv

LEMMA WaitInv ==
  ASSUME TransferInv, Wait
  PROVE  TransferInv'
<1>1. backoff \in Nat
  BY TransferAssumption DEF TransferInv, TypeOK
<1>2. deposit' \in Nat \cup {-1} /\ delegate' \in Nat \cup {-1}
  BY <1>1, AfterAfter DEF Wait, Elapse, TransferInv, TypeOK
<1>3. TypeOK'
  BY <1>2, TransferAssumption DEF Wait, Least, TransferInv, TypeOK
<1>4. Clock' /\ Blamed' /\ RidesOutLag'
  BY <1>1, TransferAssumption
     DEF Wait, TransferInv, TypeOK, Clock, Blamed, RidesOutLag, Budget
<1>5. Nearer'
  <2>1. /\ deposit' = After(After(lag, elapsed), backoff)
        /\ elapsed' = elapsed + backoff /\ lag' = lag
    BY DEF Wait, Elapse, TransferInv, Nearer
  <2>. QED BY <1>1, <2>1, AfterAfter DEF TransferInv, TypeOK, Nearer
<1>. QED BY <1>3, <1>4, <1>5 DEF TransferInv

LEMMA NextInv == TransferInv /\ [Next]_vars => TransferInv'
<1>. SUFFICES ASSUME TransferInv, [Next]_vars PROVE TransferInv'
  OBVIOUS
<1>1. CASE \E d \in Durations : FirstCall(d)
  BY <1>1, FirstCallInv
<1>2. CASE \E d \in Durations : Retry(d)
  BY <1>2, RetryInv
<1>3. CASE \E d \in Durations : \E l \in Lags : Authorize(d, l)
  BY <1>3, AuthorizeInv
<1>4. CASE Wait
  BY <1>4, WaitInv
<1>5. CASE UNCHANGED vars
  BY <1>5 DEF vars, TransferInv, TypeOK, Clock, Nearer, Blamed, RidesOutLag
<1>. QED BY <1>1, <1>2, <1>3, <1>4, <1>5 DEF Next

(* The executor's transfer step keeps to its budget: no call is made after *)
(* it, and it holds up a tick for the budget and one call at most.         *)
THEOREM TransferWithinBudget == Spec => []WithinBudget
<1>1. TransferInv => WithinBudget
  BY DEF TransferInv, Clock, WithinBudget
<1>. QED BY <1>1, InitInv, NextInv, PTL DEF Spec

(* The executor does not give a deposit up before the indexer is more than *)
(* the budget less one wait and one call behind.                           *)
THEOREM TransferRidesOutLag == Spec => []RidesOutLag
<1>1. TransferInv => RidesOutLag
  BY DEF TransferInv
<1>. QED BY <1>1, InitInv, NextInv, PTL DEF Spec

(* Every variable keeps its type.                                          *)
THEOREM TransferTypeOK == Spec => []TypeOK
<1>1. TransferInv => TypeOK
  BY DEF TransferInv
<1>. QED BY <1>1, InitInv, NextInv, PTL DEF Spec
=============================================================================
