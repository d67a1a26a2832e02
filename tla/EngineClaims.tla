---------------------------- MODULE EngineClaims ----------------------------
(***************************************************************************)
(* What the skill documents, which the chat agent repeats to the owner,    *)
(* say of the engine, and the engine as it runs does not do.  The property *)
(* is checked in a run of its own and is violated there; the README tells  *)
(* how.                                                                    *)
(***************************************************************************)
EXTENDS Engine

StartsOf(u, v) ==
  { e \in audit : e.type = "start" /\ e.user = u /\ e.version = v }

(* policy_defaults.md: "Hard cap of 3 actions/day" of the conservative row *)
(* and the max_actions_per_day of the others.  The clock of the run stays  *)
(* within one day.                                                         *)
DailyCapIsHard ==
  \A u \in Users : \A v \in 1 .. Version(u) :
     Cardinality(StartsOf(u, v)) <= policy[u].hist[v].maxActions
=============================================================================
