--------------------------- MODULE GatewayTransfer ---------------------------
(***************************************************************************)
(* transfer_with_delegate_retry of src/automation/executor.rs: the step    *)
(* "transfer" of Engine, second by second.  The Gateway learns of a        *)
(* deposit, and of a delegate, when its indexer gets to them.  A refusal   *)
(* for want of balance is waited out with a growing backoff while the      *)
(* budget lasts; a refusal of the signer is repaired once, before that.    *)
(*                                                                         *)
(* A call takes a number of seconds and is judged by what the Gateway      *)
(* knows when it comes in.                                                 *)
(***************************************************************************)
EXTENDS Integers

CONSTANTS
  CIRCLE_INDEXER_RETRY_BUDGET,
  FIRST_BACKOFF, MAX_BACKOFF,
  Lags,      \* seconds until the indexer has the deposit, or the delegate
  Durations, \* seconds a call may take
  Slowest,   \* the longest of them
  Faults     \* may the Gateway fail in other ways?

Budget == CIRCLE_INDEXER_RETRY_BUDGET

ASSUME TransferAssumption ==
  /\ CIRCLE_INDEXER_RETRY_BUDGET \in Nat
  /\ FIRST_BACKOFF \in Nat \ {0} /\ MAX_BACKOFF \in Nat
  /\ FIRST_BACKOFF <= MAX_BACKOFF
  /\ Lags \subseteq Nat /\ Durations \subseteq Nat /\ Slowest \in Nat
  /\ \A d \in Durations : d <= Slowest
  /\ Faults \in BOOLEAN

Refusals == { "not_authorized", "insufficient", "other" }

VARIABLES
  deposit,   \* seconds until the Gateway knows of the deposit; -1: it never
             \* does, what is deposited does not cover amount and fee
  delegate,  \* the same of the delegate; -1: it is not authorized
  pc,        \* where the call is
  elapsed,   \* seconds since the retry loop was entered
  backoff,
  lag,       \* what deposit was when the loop was entered
  refusal    \* the last refusal

vars == << deposit, delegate, pc, elapsed, backoff, lag, refusal >>

Init ==
  /\ deposit \in Lags \cup {-1}
  /\ delegate \in Lags \cup {-1}
  /\ pc = "first"
  /\ elapsed = 0 /\ backoff = FIRST_BACKOFF /\ lag = 0 /\ refusal = "other"

-----------------------------------------------------------------------------
After(left, d) == IF left < 0 THEN left ELSE IF left <= d THEN 0 ELSE left - d

Elapse(d) ==
  /\ deposit'  = After(deposit, d)
  /\ delegate' = After(delegate, d)

Attests == deposit = 0 /\ delegate = 0

(* Which check the Gateway makes first is not known.                       *)
Refuses(why) ==
  \/ why = "not_authorized" /\ delegate # 0
  \/ why = "insufficient" /\ deposit # 0
  \/ why = "other" /\ Faults

EnterLoop ==
  /\ pc' = "loop"
  /\ elapsed' = 0
  /\ lag' = deposit'

(* The first call; the refusal decides what comes next.                    *)
FirstCall(d) ==
  /\ pc = "first"
  /\ Elapse(d)
  /\ \/ Attests /\ pc' = "attested" /\ UNCHANGED << elapsed, lag, refusal >>
     \/ \E why \in Refusals :
          /\ Refuses(why)
          /\ refusal' = why
          /\ \/ why = "not_authorized" /\ pc' = "authorize"
                                       /\ UNCHANGED << elapsed, lag >>
             \/ why = "insufficient" /\ EnterLoop
             \/ why = "other" /\ pc' = "failed" /\ UNCHANGED << elapsed, lag >>
  /\ UNCHANGED backoff

(* authorize_arc_gateway_delegate returns with the receipt; the Gateway    *)
(* may still have to learn of it.                                          *)
Authorize(d, l) ==
  /\ pc = "authorize"
  /\ deposit' = After(deposit, d)
  /\ \/ delegate' = (IF delegate < 0 THEN l ELSE After(delegate, d)) /\ EnterLoop
     \/ /\ Faults /\ pc' = "failed"
        /\ delegate' = delegate
        /\ UNCHANGED << elapsed, lag >>
  /\ UNCHANGED << backoff, refusal >>

(* Mutant: what the next wait will take is not part of the budget.         *)
OutOfBudgetNow(now) == now > Budget

(* Mutant: the budget is spent as if each wait were followed by another.   *)
OutOfBudgetEarly(now) == now + 2 * backoff > Budget

OutOfBudget(now) == now + backoff > Budget

Retry(d) ==
  /\ pc = "loop"
  /\ Elapse(d)
  /\ elapsed' = elapsed + d
  /\ \/ Attests /\ pc' = "attested" /\ UNCHANGED refusal
     \/ /\ Refuses("insufficient")
        /\ refusal' = "insufficient"
        /\ pc' = IF OutOfBudget(elapsed + d) THEN "failed" ELSE "wait"
     \/ \E why \in Refusals \ {"insufficient"} :
          Refuses(why) /\ refusal' = why /\ pc' = "failed"
  /\ UNCHANGED << backoff, lag >>

Least(a, b) == IF a <= b THEN a ELSE b

(* Mutant: the waits keep doubling.                                        *)
WaitUncapped ==
  /\ pc = "wait"
  /\ Elapse(backoff)
  /\ elapsed' = elapsed + backoff
  /\ backoff' = 2 * backoff
  /\ pc' = "loop"
  /\ UNCHANGED << lag, refusal >>

(* Mutant: the start is taken anew in each round.                          *)
WaitRestarts ==
  /\ pc = "wait"
  /\ Elapse(backoff)
  /\ elapsed' = backoff
  /\ backoff' = Least(2 * backoff, MAX_BACKOFF)
  /\ pc' = "loop"
  /\ UNCHANGED << lag, refusal >>

Wait ==
  /\ pc = "wait"
  /\ Elapse(backoff)
  /\ elapsed' = elapsed + backoff
  /\ backoff' = Least(2 * backoff, MAX_BACKOFF)
  /\ pc' = "loop"
  /\ UNCHANGED << lag, refusal >>

Next ==
  \/ \E d \in Durations : FirstCall(d) \/ Retry(d) \/ \E l \in Lags : Authorize(d, l)
  \/ Wait

Spec == Init /\ [][Next]_vars

(* Calls return and sleeps end.                                            *)
FairSpec == Spec /\ WF_vars(Next)

-----------------------------------------------------------------------------
(* Every variable keeps its type.                                          *)
TypeOK ==
  /\ deposit \in Nat \cup {-1} /\ delegate \in Nat \cup {-1}
  /\ pc \in { "first", "authorize", "loop", "wait", "attested", "failed" }
  /\ elapsed \in Nat /\ lag \in Nat \cup {-1}
  /\ backoff \in 1 .. MAX_BACKOFF
  /\ refusal \in Refusals

(* No call is made when the budget is over, so that a bridge holds up the  *)
(* cycle for the budget and one call, whatever the Gateway answers.        *)
WithinBudget ==
  /\ pc = "loop" => elapsed <= Budget
  /\ elapsed <= Budget + Slowest

(* The deposit is not given up on early: a transfer that fails for want of *)
(* balance was refused by an indexer more than Budget - MAX_BACKOFF        *)
(* seconds, less one call, behind.                                         *)
RidesOutLag ==
  pc = "failed" /\ refusal = "insufficient" =>
    lag < 0 \/ lag > Budget - MAX_BACKOFF - Slowest

(* The executor comes to an end, and lets the cycle go on.                 *)
Ends == <>(pc \in { "attested", "failed" })
=============================================================================
