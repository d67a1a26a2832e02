----------------------------- MODULE PolicyTable -----------------------------
(***************************************************************************)
(* What a PolicyStore promises, as InMemoryPolicyStore keeps it: each call *)
(* is one step under the write lock.  The tests of the engine run on this  *)
(* store; production runs on Postgres (module PolicyPostgres).             *)
(***************************************************************************)
EXTENDS Naturals, Sequences

CONSTANTS
  Users,
  Bodies,   \* the policies that pass validate
  NoRow     \* the owner has no policy yet

VARIABLES
  row,      \* row[u]: the policy in force
  assigned  \* assigned[u]: the versions put has returned, oldest first

Status == { "active", "paused" }

Row == [ version : Nat \ {0}, status : Status, body : Bodies ]

NextVersion(r) == IF r = NoRow THEN 1 ELSE r.version + 1

Init ==
  /\ row = [ u \in Users |-> NoRow ]
  /\ assigned = [ u \in Users |-> <<>> ]

(* The caller of a put may be gone before it is told its version.          *)
Put(u, body, status, told) ==
  /\ row' = [ row EXCEPT ![u] = [ version |-> NextVersion(@),
                                  status  |-> status,
                                  body    |-> body ] ]
  /\ assigned' = IF told
                   THEN [ assigned EXCEPT ![u] = Append(@, row'[u].version) ]
                   ELSE assigned

SetStatus(u, status) ==
  /\ row[u] # NoRow
  /\ row' = [ row EXCEPT ![u].status = status ]
  /\ UNCHANGED assigned

Next ==
  \E u \in Users, s \in Status :
    \/ \E b \in Bodies, told \in BOOLEAN : Put(u, b, s, told)
    \/ SetStatus(u, s)

Spec == Init /\ [][Next]_<< row, assigned >>
=============================================================================
