--------------------------- MODULE PolicyPostgres ---------------------------
(***************************************************************************)
(* PostgresPolicyStore, statement by statement: put and set_status are     *)
(* transactions of a SELECT ... FOR UPDATE, a write and a COMMIT, in the   *)
(* isolation Postgres gives by default (READ COMMITTED).  Of Postgres the  *)
(* model has what the statements rely on: FOR UPDATE locks the row it      *)
(* finds and nothing when it finds none; a write waits for whoever holds   *)
(* the row or is inserting it; COMMIT publishes and unlocks.               *)
(***************************************************************************)
EXTENDS Naturals, Sequences

CONSTANTS
  Users, Bodies, NoRow,
  Clients, NoClient,  \* requests that call the store
  FirstRaces,         \* may other requests run beside an owner's first put?
  Faults,             \* may the connection be lost?
  MaxVersion          \* bound: versions of a policy

VARIABLES
  table,    \* the committed rows
  lock,     \* lock[u]: who holds or is inserting the row of u
  pc, tx,   \* each client: its next statement, its call
  assigned  \* assigned[u]: the versions put has returned, oldest first

vars == << table, lock, pc, tx, assigned >>

Status == { "active", "paused" }

Data == [ version : Nat \ {0}, status : Status, body : Bodies ]

(* The columns version and status repeat what data says: set_status and    *)
(* list_active_users use the one, get and the engine the other.            *)
TableRow == [ version : Nat \ {0}, status : Status, data : Data ]

ASSUME StoreAssumption ==
  /\ NoClient \notin Clients
  /\ NoRow \notin TableRow \cup Data
  /\ FirstRaces \in BOOLEAN
  /\ Faults \in BOOLEAN
  /\ MaxVersion \in Nat

Call == [ op : {"put"}, user : Users, body : Bodies, status : Status,
          read : TableRow \cup {NoRow} ]
          \cup [ op : {"set_status"}, user : Users, status : Status,
                 read : TableRow \cup {NoRow} ]

NoCall == [ op |-> "none" ]

Init ==
  /\ table = [ u \in Users |-> NoRow ]
  /\ lock = [ u \in Users |-> NoClient ]
  /\ pc = [ c \in Clients |-> "idle" ]
  /\ tx = [ c \in Clients |-> NoCall ]
  /\ assigned = [ u \in Users |-> <<>> ]

-----------------------------------------------------------------------------
Goto(c, label) == pc' = [ pc EXCEPT ![c] = label ]

(* The call ends, by COMMIT, by an error or because tx is dropped: what it *)
(* held is free.                                                           *)
Return(c) ==
  /\ Goto(c, "idle")
  /\ tx' = [ tx EXCEPT ![c] = NoCall ]
  /\ lock' = [ u \in Users |-> IF lock[u] = c THEN NoClient ELSE lock[u] ]

Begin(c, call) ==
  /\ pc[c] = "idle"
  /\ tx' = [ tx EXCEPT ![c] = call ]
  /\ Goto(c, "select")
  /\ UNCHANGED << table, lock, assigned >>

BeginPut(c, u, body, status) ==
  Begin(c, [ op |-> "put", user |-> u, body |-> body, status |-> status,
             read |-> NoRow ])

BeginSetStatus(c, u, status) ==
  Begin(c, [ op |-> "set_status", user |-> u, status |-> status,
             read |-> NoRow ])

(* Mutant: the row is read without a lock.                                 *)
SelectUnlocked(c) ==
  /\ pc[c] = "select" /\ table[tx[c].user] # NoRow
  /\ tx' = [ tx EXCEPT ![c].read = table[tx[c].user] ]
  /\ Goto(c, "write")
  /\ UNCHANGED << table, lock, assigned >>

(* SELECT ... FOR UPDATE.                                                  *)
SelectRow(c) ==
  LET u == tx[c].user
  IN  /\ pc[c] = "select" /\ table[u] # NoRow /\ lock[u] = NoClient
      /\ lock' = [ lock EXCEPT ![u] = c ]
      /\ tx' = [ tx EXCEPT ![c].read = table[u] ]
      /\ Goto(c, "write")
      /\ UNCHANGED << table, assigned >>

(* No row: put goes on and holds nothing, set_status returns an error.     *)
SelectNothing(c) ==
  /\ pc[c] = "select" /\ table[tx[c].user] = NoRow
  /\ IF tx[c].op = "put" THEN Goto(c, "write") /\ UNCHANGED << tx, lock >>
                         ELSE Return(c)
  /\ UNCHANGED << table, assigned >>

(* INSERT ... ON CONFLICT DO UPDATE, or UPDATE.                            *)
Write(c) ==
  LET u == tx[c].user
  IN  /\ pc[c] = "write" /\ lock[u] \in { NoClient, c }
      /\ lock' = [ lock EXCEPT ![u] = c ]
      /\ Goto(c, "commit")
      /\ UNCHANGED << table, tx, assigned >>

NextVersion(r) == IF r = NoRow THEN 1 ELSE r.version + 1

(* Mutant: put serialises the policy before it sets the version.           *)
NewRowEarly(call) ==
  IF call.op = "put"
    THEN [ version |-> NextVersion(call.read), status |-> call.status,
           data |-> [ version |-> 0, status |-> call.status,
                      body |-> call.body ] ]
    ELSE [ call.read EXCEPT !.status = call.status,
                            !.data.status = call.status ]

(* Mutant: set_status forgets the copy in data.                            *)
NewRowColumnOnly(call) ==
  IF call.op = "put"
    THEN LET v == NextVersion(call.read)
         IN  [ version |-> v, status |-> call.status,
               data |-> [ version |-> v, status |-> call.status,
                          body |-> call.body ] ]
    ELSE [ call.read EXCEPT !.status = call.status ]

(* What the write has put into the row.                                    *)
NewRow(call) ==
  IF call.op = "put"
    THEN LET v == NextVersion(call.read)
         IN  [ version |-> v, status |-> call.status,
               data |-> [ version |-> v, status |-> call.status,
                          body |-> call.body ] ]
    ELSE [ call.read EXCEPT !.status = call.status,
                            !.data.status = call.status ]

Publish(c) ==
  /\ pc[c] = "commit"
  /\ table' = [ table EXCEPT ![tx[c].user] = NewRow(tx[c]) ]
  /\ Return(c)

Commit(c) ==
  /\ Publish(c)
  /\ assigned' =
       IF tx[c].op = "put"
         THEN [ assigned EXCEPT ![tx[c].user] =
                  Append(@, NextVersion(tx[c].read)) ]
         ELSE assigned

(* The answer to COMMIT is lost.                                           *)
CommitUnseen(c) == Faults /\ Publish(c) /\ UNCHANGED assigned

RollBack(c) ==
  /\ Faults /\ pc[c] # "idle"
  /\ Return(c)
  /\ UNCHANGED << table, assigned >>

Step(c) ==
  \/ SelectRow(c) \/ SelectNothing(c) \/ Write(c)
  \/ Commit(c) \/ CommitUnseen(c) \/ RollBack(c)

(* Until a first put is committed its owner's next request waits; nothing  *)
(* in the store makes it wait.                                             *)
Alone(u) ==
  table[u] = NoRow => \A d \in Clients : pc[d] # "idle" => tx[d].user # u

Request(c) ==
  \E u \in Users, s \in Status :
    /\ FirstRaces \/ Alone(u)
    /\ \/ /\ table[u] # NoRow => table[u].version < MaxVersion
          /\ \E b \in Bodies : BeginPut(c, u, b, s)
       \/ BeginSetStatus(c, u, s)

Next == \E c \in Clients : Request(c) \/ Step(c)

Spec == Init /\ [][Next]_vars

-----------------------------------------------------------------------------
(* Every variable keeps its type.                                          *)
TypeOK ==
  /\ table    \in [ Users -> TableRow \cup {NoRow} ]
  /\ lock     \in [ Users -> Clients \cup {NoClient} ]
  /\ pc       \in [ Clients -> { "idle", "select", "write", "commit" } ]
  /\ tx       \in [ Clients -> Call \cup {NoCall} ]
  /\ assigned \in [ Users -> Seq(Nat) ]

(* The scheduler lists the owners by the column and the tick then reads    *)
(* data: the two never disagree, whichever writes come in between, not     *)
(* even when first puts race.                                              *)
ColumnsAgree ==
  \A u \in Users :
     table[u] # NoRow => /\ table[u].status  = table[u].data.status
                         /\ table[u].version = table[u].data.version

(* Two puts of one owner are never told the same version, so that what the *)
(* audit log books under a version was decided by that policy: as long as  *)
(* no request runs beside an owner's first put (FirstRaces = FALSE).       *)
VersionsAreNew ==
  \A u \in Users : \A i, j \in DOMAIN assigned[u] :
     i < j => assigned[u][i] < assigned[u][j]

(* The store of production implements the store of the tests, under the    *)
(* same condition: each call takes effect at its COMMIT, on what is        *)
(* committed by then.                                                      *)
Table == INSTANCE PolicyTable
           WITH row <- [ u \in Users |-> IF table[u] = NoRow THEN NoRow
                                                     ELSE table[u].data ]

Implements == Table!Spec
=============================================================================
