---------------------------- MODULE MCOwnerExits ----------------------------
(* A bounded instance of OwnerExits for TLC.  Behaviours end where a       *)
(* failing call has left money in the Gateway.  An owner whose             *)
(* transactions are followed, or who deposits twice, commits no policy.  A *)
(* recovery, which is a debugging route, is not asked for beside other     *)
(* exits, nor while the policy is active.                                  *)
EXTENDS OwnerExits, PolicyDefaults

UnderWay(E) == { e \in E : epc[e] # "idle" }

AloneInRecovery ==
  \/ UnderWay(Recovers)' = {}
  \/ /\ UnderWay(Withdraws \cup Sends)' = {}
     /\ \A u \in Users : policy[u].status # "active"

LedgerOrEngine ==
  \A u \in Users :
    policy[u].hist = <<>> \/ (u \notin followed /\ deposits[u] <= 1)

MCNext ==
  \/ /\ hit = {}
     /\ ExitNext
     /\ AloneInRecovery
     /\ LedgerOrEngine'
  \/ hit # {} /\ UNCHANGED exitVars

MCSpec == ExitInit /\ [][MCNext]_exitVars /\ ExitFairness
=============================================================================
