------------------------- MODULE PolicyPostgresProofs -------------------------
(* For any number of owners, policies and concurrent requests, with        *)
(* connections that are lost anywhere, the Postgres store keeps its types  *)
(* and its two columns agree; and as long as no request of an owner runs   *)
(* beside the owner's first put, it is the in-memory store.                *)
EXTENDS PolicyPostgres, TLAPS

(***************************************************************************)
(* What holds even when first puts race: a request past its SELECT has     *)
(* read a row whose columns agree, or none, and then it is a put.          *)
(***************************************************************************)
Consistent(r) == r.status = r.data.status /\ r.version = r.data.version

CallInv(c) ==
  /\ pc[c] # "idle" => tx[c] \in Call
  /\ pc[c] = "select" => tx[c].read = NoRow
  /\ pc[c] \in { "write", "commit" } =>
       IF tx[c].read = NoRow THEN tx[c].op = "put" ELSE Consistent(tx[c].read)

RowsInv ==
  /\ TypeOK
  /\ ColumnsAgree
  /\ \A c \in Clients : CallInv(c)

(***************************************************************************)
(* The inductive invariant when they do not: a request past its SELECT read what is         *)
(* committed and holds the row, once there is one; before that it is the   *)
(* only one of its owner.  The versions told so far are in order and none  *)
(* is ahead of the row.                                                    *)
(***************************************************************************)
ReadIsCurrent(c) ==
  /\ tx[c].read = table[tx[c].user]
  /\ tx[c].read = NoRow => tx[c].op = "put"
  /\ tx[c].read # NoRow \/ pc[c] = "commit" => lock[tx[c].user] = c

ClientInv(c) ==
  /\ pc[c] # "idle" => tx[c] \in Call
  /\ pc[c] = "select" => tx[c].read = NoRow
  /\ pc[c] \in { "write", "commit" } => ReadIsCurrent(c)

FirstIsAlone ==
  \A c, d \in Clients :
     /\ c # d /\ pc[c] # "idle" /\ pc[d] # "idle" /\ tx[c].user = tx[d].user
     => table[tx[c].user] # NoRow

NoneAhead ==
  \A u \in Users : \A i \in DOMAIN assigned[u] :
     table[u] # NoRow /\ assigned[u][i] <= table[u].version

StoreInv ==
  /\ TypeOK
  /\ ColumnsAgree
  /\ VersionsAreNew
  /\ NoneAhead
  /\ FirstIsAlone
  /\ \A c \in Clients : ClientInv(c)

LEMMA StoreRows == StoreInv => RowsInv
<1> SUFFICES ASSUME StoreInv, NEW c \in Clients PROVE CallInv(c)
  BY DEF StoreInv, RowsInv
<1>1. pc[c] # "idle" => tx[c].user \in Users
  BY DEF StoreInv, ClientInv, Call
<1> QED
  BY <1>1 DEF StoreInv, ClientInv, ReadIsCurrent, CallInv, ColumnsAgree, Consistent

LEMMA InitStore == Init => StoreInv /\ RowsInv
BY StoreAssumption
   DEF Init, StoreInv, TypeOK, ColumnsAgree, VersionsAreNew, NoneAhead,
       FirstIsAlone, ClientInv, RowsInv, CallInv

(* What a write puts into the row.                                         *)
LEMMA NewRowFacts ==
  ASSUME NEW call \in Call, call.read = NoRow => call.op = "put",
         call.read # NoRow => /\ call.read.status = call.read.data.status
                              /\ call.read.version = call.read.data.version
  PROVE  /\ NewRow(call) \in TableRow
         /\ NewRow(call).status  = NewRow(call).data.status
         /\ NewRow(call).version = NewRow(call).data.version
         /\ NewRow(call).version = IF call.op = "put" THEN NextVersion(call.read)
                                                      ELSE call.read.version
         /\ NewRow(call).data =
              IF call.op = "put"
                THEN [ version |-> NextVersion(call.read),
                       status |-> call.status, body |-> call.body ]
                ELSE [ call.read.data EXCEPT !.status = call.status ]
         /\ NextVersion(call.read) \in Nat \ {0}
         /\ call.read # NoRow => NextVersion(call.read) = call.read.version + 1
<1> USE StoreAssumption
<1>1. call.read \in TableRow \cup {NoRow} /\ call.status \in Status
  BY DEF Call
<1>2. /\ NextVersion(call.read) \in Nat \ {0}
      /\ call.read # NoRow => NextVersion(call.read) = call.read.version + 1
  BY <1>1 DEF NextVersion, TableRow
<1>3. CASE call.op = "put"
  <2>1. call.body \in Bodies
    BY <1>3 DEF Call
  <2> HIDE DEF NextVersion
  <2> QED
    BY <1>1, <1>2, <1>3, <2>1 DEF NewRow, TableRow, Data
<1>4. CASE call.op # "put"
  <2>1. call.read \in TableRow
    BY <1>1, <1>4
  <2> QED
    BY <1>1, <1>2, <1>4, <2>1 DEF NewRow, TableRow, Data
<1> QED
  BY <1>3, <1>4

(* A call that ends frees its own row and no other.                        *)
LEMMA ReturnFacts ==
  ASSUME TypeOK, NEW c \in Clients, pc[c] # "idle", Return(c)
  PROVE  /\ lock' \in [ Users -> Clients \cup {NoClient} ]
         /\ pc' \in [ Clients -> { "idle", "select", "write", "commit" } ]
         /\ tx' \in [ Clients -> Call \cup {NoCall} ]
         /\ pc'[c] = "idle"
         /\ \A d \in Clients \ {c} :
              /\ pc'[d] = pc[d] /\ tx'[d] = tx[d]
              /\ \A u \in Users : lock[u] = d => lock'[u] = d
BY DEF TypeOK, Return, Goto

(* A request begins with a call that has read nothing.                     *)
LEMMA RequestFacts ==
  ASSUME NEW c \in Clients, Request(c)
  PROVE  \E call \in Call : /\ Begin(c, call) /\ call.read = NoRow
                            /\ FirstRaces \/ Alone(call.user)
<1>1. PICK u \in Users, s \in Status :
        /\ FirstRaces \/ Alone(u)
        /\ (\E b \in Bodies : BeginPut(c, u, b, s)) \/ BeginSetStatus(c, u, s)
  BY DEF Request
<1>2. CASE BeginSetStatus(c, u, s)
  <2> DEFINE call == [ op |-> "set_status", user |-> u, status |-> s,
                       read |-> NoRow ]
  <2>1. call \in Call /\ call.read = NoRow /\ call.user = u
    BY DEF Call
  <2> QED
    BY <1>1, <1>2, <2>1 DEF BeginSetStatus
<1>3. ASSUME NEW b \in Bodies, BeginPut(c, u, b, s)
      PROVE  \E call \in Call : /\ Begin(c, call) /\ call.read = NoRow
                                /\ FirstRaces \/ Alone(call.user)
  <2> DEFINE call == [ op |-> "put", user |-> u, body |-> b, status |-> s,
                       read |-> NoRow ]
  <2>1. call \in Call /\ call.read = NoRow /\ call.user = u
    BY DEF Call
  <2> QED
    BY <1>1, <1>3, <2>1 DEF BeginPut
<1> QED
  BY <1>1, <1>2, <1>3

(* What COMMIT publishes agrees with itself, whoever else has published.   *)
LEMMA PublishRows ==
  ASSUME RowsInv, NEW c \in Clients, Commit(c) \/ CommitUnseen(c)
  PROVE  RowsInv'
<1> DEFINE u == tx[c].user
           new == NewRow(tx[c])
           next == NextVersion(tx[c].read)
<1>1. /\ tx[c] \in Call /\ u \in Users /\ pc[c] = "commit"
      /\ table' = [ table EXCEPT ![u] = new ] /\ Return(c)
  BY DEF Commit, CommitUnseen, Publish, RowsInv, CallInv, Call
<1>2. /\ new \in TableRow /\ next \in Nat
      /\ new.status = new.data.status /\ new.version = new.data.version
  BY <1>1, NewRowFacts DEF RowsInv, CallInv, Consistent
<1>3. \/ assigned' = assigned
      \/ assigned' = [ assigned EXCEPT ![u] = Append(@, next) ]
  BY DEF Commit, CommitUnseen
<1> HIDE DEF new, next
<1>4. assigned' \in [ Users -> Seq(Nat) ]
  <2>1. assigned \in [ Users -> Seq(Nat) ] /\ Append(assigned[u], next) \in Seq(Nat)
    BY <1>1, <1>2 DEF RowsInv, TypeOK
  <2> QED
    BY <1>1, <1>3, <2>1
<1>5. table' \in [ Users -> TableRow \cup {NoRow} ] /\ ColumnsAgree'
  BY <1>1, <1>2 DEF RowsInv, TypeOK, ColumnsAgree
<1>6. ASSUME NEW d \in Clients PROVE CallInv(d)'
  BY <1>1, ReturnFacts DEF RowsInv, CallInv, Consistent
<1> QED
  BY <1>1, <1>4, <1>5, <1>6, ReturnFacts DEF RowsInv, TypeOK

LEMMA NextRows == ASSUME RowsInv, [Next]_vars PROVE RowsInv'
<1> USE StoreAssumption
<1>1. CASE UNCHANGED vars
  BY <1>1 DEF RowsInv, vars, TypeOK, ColumnsAgree, CallInv, Consistent
<1>2. CASE Next
  <2> PICK c \in Clients : Request(c) \/ Step(c)
    BY <1>2 DEF Next
  <2>1. CASE Request(c)
    <3>1. PICK call \in Call : Begin(c, call) /\ call.read = NoRow
      BY <2>1, RequestFacts
    <3> QED
      BY <3>1 DEF Begin, Goto, RowsInv, TypeOK, ColumnsAgree, CallInv, Consistent
  <2>2. CASE SelectRow(c)
    <3>1. tx[c] \in Call /\ tx[c].user \in Users /\ table[tx[c].user] # NoRow
      BY <2>2 DEF SelectRow, RowsInv, CallInv, Call
    <3>2. /\ tx'[c] \in Call /\ tx'[c].read = table[tx[c].user]
          /\ \A d \in Clients \ {c} : tx'[d] = tx[d] /\ pc'[d] = pc[d]
      BY <2>2, <3>1 DEF SelectRow, Goto, RowsInv, TypeOK, Call
    <3>3. TypeOK'
      BY <2>2, <3>1, <3>2 DEF SelectRow, Goto, RowsInv, TypeOK
    <3>4. Consistent(table[tx[c].user])
      BY <3>1 DEF RowsInv, ColumnsAgree, Consistent
    <3>5. ASSUME NEW d \in Clients PROVE CallInv(d)'
      <4>1. CASE d = c
        <5>1. pc'[c] = "write"
          BY <2>2 DEF SelectRow, Goto, RowsInv, TypeOK
        <5> QED
          BY <3>1, <3>2, <3>4, <4>1, <5>1 DEF CallInv, Consistent
      <4>2. CASE d # c
        BY <3>2, <4>2 DEF RowsInv, CallInv, Consistent
      <4> QED
        BY <4>1, <4>2
    <3> QED
      BY <2>2, <3>3, <3>5 DEF SelectRow, RowsInv, ColumnsAgree
  <2>3. CASE SelectNothing(c) \/ RollBack(c)
    <3>1. /\ UNCHANGED << table, assigned >> /\ pc[c] # "idle"
          /\ \/ Return(c)
             \/ /\ tx[c].op = "put" /\ pc[c] = "select"
                /\ Goto(c, "write") /\ UNCHANGED << tx, lock >>
      BY <2>3 DEF SelectNothing, RollBack
    <3>2. CASE Return(c)
      <4>1. ASSUME NEW d \in Clients PROVE CallInv(d)'
        BY <3>1, <3>2, ReturnFacts DEF RowsInv, CallInv, Consistent
      <4> QED
        BY <3>1, <3>2, <4>1, ReturnFacts DEF RowsInv, TypeOK, ColumnsAgree
    <3>3. CASE ~Return(c)
      BY <3>1, <3>3 DEF Goto, RowsInv, TypeOK, ColumnsAgree, CallInv, Consistent
    <3> QED
      BY <3>2, <3>3
  <2>4. CASE Write(c)
    <3>1. tx[c].user \in Users
      BY <2>4 DEF Write, RowsInv, CallInv, Call
    <3> QED
      BY <2>4, <3>1 DEF Write, Goto, RowsInv, TypeOK, ColumnsAgree, CallInv, Consistent
  <2>5. CASE Commit(c) \/ CommitUnseen(c)
    BY <2>5, PublishRows
  <2> QED
    BY <2>1, <2>2, <2>3, <2>4, <2>5 DEF Step
<1> QED
  BY <1>1, <1>2

(* A call may end anywhere without having written.                         *)
LEMMA EndStore ==
  ASSUME StoreInv, NEW c \in Clients, pc[c] # "idle", Return(c),
         UNCHANGED << table, assigned >>
  PROVE  StoreInv'
<1>1. ASSUME NEW d \in Clients PROVE ClientInv(d)'
  <2>1. CASE d = c
    BY <2>1, ReturnFacts DEF ClientInv, StoreInv
  <2>2. CASE d # c
    <3>1. pc[d] # "idle" => tx[d].user \in Users
      BY DEF StoreInv, ClientInv, Call
    <3> QED
      BY <2>2, <3>1, ReturnFacts DEF StoreInv, ClientInv, ReadIsCurrent
  <2> QED
    BY <2>1, <2>2
<1>2. FirstIsAlone'
  BY ReturnFacts DEF StoreInv, FirstIsAlone
<1> QED
  BY <1>1, <1>2, ReturnFacts
     DEF StoreInv, TypeOK, ColumnsAgree, VersionsAreNew, NoneAhead

LEMMA NextStore ==
  ASSUME StoreInv, [Next]_vars, FirstRaces = FALSE PROVE StoreInv'
<1> USE StoreAssumption
<1>1. CASE UNCHANGED vars
  BY <1>1 DEF StoreInv, vars, TypeOK, ColumnsAgree, VersionsAreNew, NoneAhead,
              FirstIsAlone, ClientInv, ReadIsCurrent
<1>2. CASE Next
  <2> PICK c \in Clients : Request(c) \/ Step(c)
    BY <1>2 DEF Next
  <2>1. CASE Request(c)
    <3>1. PICK call \in Call : /\ Begin(c, call) /\ call.read = NoRow
                               /\ Alone(call.user)
      BY <2>1, RequestFacts
    <3>2. UNCHANGED << table, lock, assigned >>
      BY <3>1 DEF Begin
    <3>3. TypeOK' /\ \A d \in Clients : ClientInv(d)'
      BY <3>1, <3>2 DEF StoreInv, Begin, Goto, TypeOK, ClientInv, ReadIsCurrent
    <3>4. FirstIsAlone'
      BY <3>1, <3>2 DEF StoreInv, Begin, Goto, TypeOK, Alone, FirstIsAlone
    <3> QED
      BY <3>2, <3>3, <3>4
         DEF StoreInv, ColumnsAgree, VersionsAreNew, NoneAhead
  <2>2. CASE SelectRow(c)
    <3>1. tx[c] \in Call /\ tx[c].user \in Users
      BY <2>2 DEF SelectRow, StoreInv, ClientInv, Call
    <3>2. tx'[c] \in Call /\ tx'[c].user = tx[c].user
                         /\ tx'[c].read = table[tx[c].user]
      BY <2>2, <3>1 DEF SelectRow, StoreInv, TypeOK, Call
    <3>3. TypeOK'
      BY <2>2, <3>1, <3>2 DEF SelectRow, Goto, StoreInv, TypeOK
    <3>4. ASSUME NEW d \in Clients PROVE ClientInv(d)'
      BY <2>2, <3>1, <3>2
         DEF SelectRow, Goto, StoreInv, TypeOK, ClientInv, ReadIsCurrent
    <3>5. FirstIsAlone'
      BY <2>2, <3>1, <3>2 DEF SelectRow, Goto, StoreInv, TypeOK, FirstIsAlone
    <3> QED
      BY <2>2, <3>3, <3>4, <3>5
         DEF SelectRow, StoreInv, ColumnsAgree, VersionsAreNew, NoneAhead
  <2>3. CASE SelectNothing(c)
    <3>1. /\ tx[c] \in Call /\ tx[c].user \in Users /\ pc[c] # "idle"
          /\ tx[c].read = NoRow /\ table[tx[c].user] = NoRow
          /\ UNCHANGED << table, assigned >>
      BY <2>3 DEF SelectNothing, StoreInv, ClientInv, Call
    <3>2. CASE tx[c].op = "put"
      <4>1. Goto(c, "write") /\ UNCHANGED << tx, lock >>
        BY <2>3, <3>2 DEF SelectNothing
      <4> QED
        BY <3>1, <3>2, <4>1
           DEF Goto, StoreInv, TypeOK, ColumnsAgree, VersionsAreNew, NoneAhead,
               FirstIsAlone, ClientInv, ReadIsCurrent
    <3>3. CASE tx[c].op # "put"
      <4>1. Return(c)
        BY <2>3, <3>3 DEF SelectNothing
      <4> QED
        BY <3>1, <4>1, EndStore
    <3> QED
      BY <3>2, <3>3
  <2>4. CASE Write(c)
    <3>1. tx[c] \in Call /\ tx[c].user \in Users
      BY <2>4 DEF Write, StoreInv, ClientInv, Call
    <3>2. TypeOK'
      BY <2>4, <3>1 DEF Write, Goto, StoreInv, TypeOK
    <3>3. ASSUME NEW d \in Clients PROVE ClientInv(d)'
      <4>1. pc[d] # "idle" => tx[d].user \in Users
        BY DEF StoreInv, ClientInv, Call
      <4> QED
        BY <2>4, <3>1, <4>1
           DEF Write, Goto, StoreInv, TypeOK, ClientInv, ReadIsCurrent, FirstIsAlone
    <3>4. FirstIsAlone'
      BY <2>4 DEF Write, Goto, StoreInv, TypeOK, FirstIsAlone
    <3> QED
      BY <2>4, <3>2, <3>3, <3>4
         DEF Write, StoreInv, ColumnsAgree, VersionsAreNew, NoneAhead
  <2>5. CASE RollBack(c)
    BY <2>5, EndStore DEF RollBack
  <2>6. CASE Publish(c) /\ (Commit(c) \/ CommitUnseen(c))
    <3> DEFINE u == tx[c].user
               old == table[u]
    <3>1. /\ tx[c] \in Call /\ u \in Users /\ pc[c] # "idle"
          /\ tx[c].read = old /\ lock[u] = c
          /\ old \in TableRow \cup {NoRow}
          /\ old = NoRow => tx[c].op = "put"
          /\ old # NoRow => /\ old.version \in Nat
                            /\ old.status = old.data.status
                            /\ old.version = old.data.version
      BY <2>6 DEF Publish, StoreInv, ClientInv, ReadIsCurrent, Call, TableRow,
                  ColumnsAgree
    <3> DEFINE new == NewRow(tx[c])
               next == NextVersion(old)
    <3>2. /\ new \in TableRow /\ new # NoRow /\ next \in Nat
          /\ new.status = new.data.status /\ new.version = new.data.version
          /\ new.version = IF tx[c].op = "put" THEN next ELSE old.version
          /\ old # NoRow => next = old.version + 1
      BY <3>1, NewRowFacts
    <3>3. table' = [ table EXCEPT ![u] = new ] /\ Return(c)
      BY <2>6 DEF Publish
    <3>4. \/ assigned' = assigned
          \/ /\ tx[c].op = "put"
             /\ assigned' = [ assigned EXCEPT ![u] = Append(@, next) ]
      BY <2>6, <3>1 DEF Commit, CommitUnseen
    <3> HIDE DEF new, next
    <3>5. table'[u] = new /\ \A v \in Users \ {u} : table'[v] = table[v]
      BY <3>1, <3>3 DEF StoreInv, TypeOK
    <3>6. TypeOK' /\ ColumnsAgree'
      BY <2>6, StoreRows, PublishRows DEF RowsInv
    <3>8. VersionsAreNew' /\ NoneAhead'
      <4> SUFFICES ASSUME NEW v \in Users
                   PROVE  /\ \A i, j \in DOMAIN assigned'[v] :
                               i < j => assigned'[v][i] < assigned'[v][j]
                          /\ \A i \in DOMAIN assigned'[v] :
                               /\ table'[v] # NoRow
                               /\ assigned'[v][i] <= table'[v].version
        BY DEF VersionsAreNew, NoneAhead
      <4>1. /\ assigned[v] \in Seq(Nat)
            /\ table[v] # NoRow => table[v].version \in Nat
            /\ \A i, j \in DOMAIN assigned[v] :
                 i < j => assigned[v][i] < assigned[v][j]
            /\ \A i \in DOMAIN assigned[v] : /\ table[v] # NoRow
                                             /\ assigned[v][i] <= table[v].version
        BY DEF StoreInv, TypeOK, VersionsAreNew, NoneAhead, TableRow
      <4>2. CASE assigned'[v] = assigned[v]
        <5>1. CASE v = u
          <6>1. table[v] # NoRow => /\ table'[v] # NoRow /\ table'[v].version \in Nat
                                   /\ table[v].version <= table'[v].version
            BY <3>1, <3>2, <3>5, <5>1
          <6> QED
            BY <4>1, <4>2, <6>1
        <5>2. CASE v # u
          BY <3>5, <4>1, <4>2, <5>2
        <5> QED
          BY <5>1, <5>2
      <4>3. CASE /\ v = u /\ tx[c].op = "put"
                 /\ assigned'[v] = Append(assigned[v], next)
        <5>1. table'[v] # NoRow /\ table'[v].version = next
          BY <3>2, <3>5, <4>3
        <5>2. \A i \in DOMAIN assigned[v] :
                assigned[v][i] \in Nat /\ assigned[v][i] < next
          <6>1. table[v] # NoRow => table[v].version \in Nat /\ next = table[v].version + 1
            BY <3>1, <3>2, <4>3
          <6>2. \A i \in DOMAIN assigned[v] : assigned[v][i] \in Nat
            BY <4>1
          <6> QED
            BY <4>1, <6>1, <6>2
        <5> DEFINE s == assigned[v]
        <5>3. s \in Seq(Nat) /\ Len(s) \in Nat /\ DOMAIN s = 1 .. Len(s)
          BY <4>1
        <5>4. assigned'[v] = Append(s, next) /\ next \in Nat
          BY <3>2, <4>3
        <5>5. \A i, j \in DOMAIN s : i < j => s[i] < s[j]
          BY <4>1
        <5> HIDE DEF s
        <5>6. \A i \in DOMAIN Append(s, next) :
                \/ i \in DOMAIN s /\ Append(s, next)[i] = s[i]
                \/ i = Len(s) + 1 /\ Append(s, next)[i] = next
          BY <5>3, <5>4
        <5>7. \A i \in DOMAIN s : s[i] \in Nat /\ s[i] < next
          BY <5>2 DEF s
        <5>8. ASSUME NEW i \in DOMAIN assigned'[v], NEW j \in DOMAIN assigned'[v],
                     i < j
              PROVE  assigned'[v][i] < assigned'[v][j]
          <6>1. i \in DOMAIN s /\ assigned'[v][i] = s[i]
            BY <5>3, <5>4, <5>6, <5>8
          <6> QED
            BY <5>4, <5>5, <5>6, <5>7, <5>8, <6>1
        <5>9. ASSUME NEW i \in DOMAIN assigned'[v]
              PROVE  assigned'[v][i] <= table'[v].version
          BY <5>1, <5>4, <5>6, <5>7
        <5> QED
          BY <5>1, <5>8, <5>9
      <4> QED
        BY <3>1, <3>4, <4>2, <4>3 DEF StoreInv, TypeOK
    <3>9. ASSUME NEW d \in Clients PROVE ClientInv(d)'
      <4>1. CASE d = c
        BY <3>1, <3>3, <4>1, ReturnFacts DEF ClientInv, StoreInv
      <4>2. CASE d # c
        <5>1. pc[d] # "idle" => tx[d].user \in Users
          BY DEF StoreInv, ClientInv, Call
        <5>2. pc[d] \in { "write", "commit" } => tx[d].user # u
          <6> SUFFICES ASSUME pc[d] \in { "write", "commit" }, tx[d].user = u
                       PROVE  FALSE
            OBVIOUS
          <6>1. old # NoRow
            BY <3>1, <4>2 DEF StoreInv, FirstIsAlone
          <6>2. tx[d].read = old /\ lock[u] = d
            BY <6>1 DEF StoreInv, ClientInv, ReadIsCurrent
          <6> QED
            BY <3>1, <4>2, <6>2
        <5> QED
          BY <3>1, <3>3, <3>5, <4>2, <5>1, <5>2, ReturnFacts
             DEF StoreInv, ClientInv, ReadIsCurrent
      <4> QED
        BY <4>1, <4>2
    <3>10. FirstIsAlone'
      <4> SUFFICES ASSUME NEW d \in Clients, NEW e \in Clients, d # e,
                          pc'[d] # "idle", pc'[e] # "idle",
                          tx'[d].user = tx'[e].user
                   PROVE  table'[tx'[d].user] # NoRow
        BY Zenon DEF FirstIsAlone
      <4>1. /\ d # c /\ e # c
            /\ pc'[d] = pc[d] /\ tx'[d] = tx[d] /\ pc'[e] = pc[e] /\ tx'[e] = tx[e]
        BY <3>1, <3>3, ReturnFacts DEF StoreInv
      <4>2. table[tx[d].user] # NoRow
        BY <4>1 DEF StoreInv, FirstIsAlone
      <4>3. tx[d].user \in Users
        BY <4>1 DEF StoreInv, ClientInv, Call
      <4> QED
        BY <3>2, <3>5, <4>1, <4>2, <4>3
    <3> QED
      BY <3>6, <3>8, <3>9, <3>10 DEF StoreInv
  <2> QED
    BY <2>1, <2>2, <2>3, <2>4, <2>5, <2>6 DEF Step, Commit, CommitUnseen
<1> QED
  BY <1>1, <1>2

THEOREM StoreInvariant ==
  ASSUME FirstRaces = FALSE PROVE Spec => []StoreInv
BY InitStore, NextStore, PTL DEF Spec

THEOREM RowsInvariant == Spec => []RowsInv
BY InitStore, NextRows, PTL DEF Spec

(* Every variable of the Postgres store keeps its type.                    *)
THEOREM StoreTypeOK == Spec => []TypeOK
<1>1. RowsInv => TypeOK
  BY DEF RowsInv
<1> QED
  BY <1>1, RowsInvariant, PTL

(* Two puts of one owner are never told the same version.                  *)
THEOREM StoreVersions ==
  ASSUME FirstRaces = FALSE PROVE Spec => []VersionsAreNew
<1>1. StoreInv => VersionsAreNew
  BY DEF StoreInv
<1> QED
  BY <1>1, StoreInvariant, PTL

(* The column the scheduler lists owners by agrees with what a tick reads, *)
(* even when requests race with an owner's first put.                      *)
THEOREM StoreColumns == Spec => []ColumnsAgree
<1>1. RowsInv => ColumnsAgree
  BY DEF RowsInv
<1> QED
  BY <1>1, RowsInvariant, PTL

(* PostgresPolicyStore implements what InMemoryPolicyStore does.           *)
THEOREM StoreImplements ==
  ASSUME FirstRaces = FALSE PROVE Spec => Implements
<1> USE StoreAssumption
<1>1. Init => Table!Init
  BY DEF Init, Table!Init
<1>2. StoreInv /\ [Next]_vars
        => [Table!Next]_<< [ u \in Users |-> IF table[u] = NoRow THEN NoRow
                                              ELSE table[u].data ], assigned >>
  <2> DEFINE row == [ u \in Users |-> IF table[u] = NoRow THEN NoRow
                                                         ELSE table[u].data ]
  <2> SUFFICES ASSUME StoreInv, [Next]_vars,
                      ~UNCHANGED << row, assigned >>
               PROVE  Table!Next
    BY Zenon
  <2>1. PICK c \in Clients : Publish(c) /\ (Commit(c) \/ CommitUnseen(c))
    <3>1. CASE UNCHANGED << table, assigned >>
      BY <3>1
    <3>2. CASE Next /\ ~UNCHANGED << table, assigned >>
      <4>1. PICK c \in Clients : Request(c) \/ Step(c)
        BY <3>2 DEF Next
      <4>2. ~Request(c)
        BY <3>2 DEF Request, BeginPut, BeginSetStatus, Begin
      <4>3. Commit(c) \/ CommitUnseen(c)
        BY <3>2, <4>1, <4>2 DEF Step, SelectRow, SelectNothing, Write, RollBack
      <4> QED
        BY <4>3 DEF Commit, CommitUnseen
    <3> QED
      BY <3>1, <3>2 DEF vars
  <2>u. PICK u \in Users, s \in Status :
          tx[c] \in Call /\ u = tx[c].user /\ s = tx[c].status
    BY <2>1 DEF Publish, StoreInv, ClientInv, Call
  <2> DEFINE old == table[u]
             new == NewRow(tx[c])
  <2>2. /\ tx[c].op = "put" => tx[c].body \in Bodies
        /\ tx[c].read = old /\ old \in TableRow \cup {NoRow}
        /\ old = NoRow => tx[c].op = "put"
        /\ old # NoRow => old.status = old.data.status /\ old.version = old.data.version
    BY <2>1, <2>u DEF Publish, StoreInv, TypeOK, ClientInv, ReadIsCurrent, Call,
                      ColumnsAgree
  <2>3. row[u] = IF old = NoRow THEN NoRow ELSE old.data
    OBVIOUS
  <2>4. Table!NextVersion(row[u]) = NextVersion(old)
    <3>1. old # NoRow => old.data # NoRow
      BY <2>2 DEF TableRow
    <3> QED
      BY <2>2, <2>3, <3>1 DEF Table!NextVersion, NextVersion
  <2>5. /\ new \in TableRow /\ new # NoRow
        /\ new.data = IF tx[c].op = "put"
                        THEN [ version |-> NextVersion(old),
                               status |-> s, body |-> tx[c].body ]
                        ELSE [ old.data EXCEPT !.status = s ]
    BY <2>2, <2>u, NewRowFacts
  <2>6. \/ assigned' = assigned
        \/ /\ tx[c].op = "put"
           /\ assigned' = [ assigned EXCEPT ![u] = Append(@, NextVersion(old)) ]
    BY <2>1, <2>2, <2>u DEF Commit, CommitUnseen
  <2>t. table' = [ table EXCEPT ![u] = new ]
    BY <2>1, <2>u DEF Publish
  <2> HIDE DEF new
  <2>7. row' = [ row EXCEPT ![u] = new.data ] /\ row'[u] = new.data
    BY <2>5, <2>t DEF StoreInv, TypeOK
  <2>8. CASE tx[c].op = "put"
    <3> PICK b \in Bodies : b = tx[c].body
      BY <2>2, <2>8
    <3>1. new.data = [ version |-> Table!NextVersion(row[u]),
                       status |-> s, body |-> b ]
      BY <2>4, <2>5, <2>8
    <3>2. PICK told \in BOOLEAN :
            assigned' = IF told THEN [ assigned EXCEPT ![u] =
                                         Append(@, row'[u].version) ]
                                ELSE assigned
      <4>1. row'[u].version = NextVersion(old)
        BY <2>5, <2>7, <2>8
      <4> HIDE DEF row
      <4>2. CASE assigned' = assigned
        BY <4>2
      <4>3. CASE assigned' = [ assigned EXCEPT ![u] = Append(@, NextVersion(old)) ]
        BY <4>1, <4>3
      <4> QED
        BY <2>6, <4>2, <4>3
    <3>3. row' = [ row EXCEPT ![u] =
                     [ version |-> Table!NextVersion(@),
                       status |-> s, body |-> b ] ]
      BY <2>7, <3>1
    <3>4. Table!Put(u, b, s, told)
      BY <3>2, <3>3 DEF Table!Put
    <3> QED
      BY <3>4 DEF Table!Next, Table!Status, Status
  <2>9. CASE tx[c].op # "put"
    <3>1. row' = [ row EXCEPT ![u] = [ @ EXCEPT !.status = s ] ]
      BY <2>2, <2>3, <2>5, <2>7, <2>9
    <3>2. row[u] # NoRow
      BY <2>2, <2>3, <2>9 DEF TableRow
    <3>3. Table!SetStatus(u, s)
      BY <2>6, <2>9, <3>1, <3>2 DEF Table!SetStatus
    <3> QED
      BY <3>3 DEF Table!Next, Table!Status, Status
  <2> QED
    BY <2>8, <2>9
<1> QED
  BY <1>1, <1>2, StoreInvariant, PTL DEF Spec, Implements, Table!Spec
=============================================================================
