---------------------------- MODULE SessionProofs ----------------------------
(* What a setup that has answered leaves behind, for any number of setups, *)
(* tool calls and status requests of one owner at once, any life of a      *)
(* session and any failing calls.                                          *)
EXTENDS Session, FiniteSetTheorems, TLAPS

Callers == Setups \cup Tools

(***************************************************************************)
(* The inductive invariant: what a setup knows of the chains when it gets  *)
(* to a label.  What it has been told stays true, as there is no way back  *)
(* from a deployment, and a registration on its way lands before its       *)
(* session is over.                                                        *)
(***************************************************************************)
AfterArc     == { "ensure_arb", "authorize", "invalidate", "probe", "put", "done" }
AfterArb     == AfterArc \ { "ensure_arb" }
AfterReceipt == AfterArb \ { "authorize" }

Sure(r, c) == chain[c].deployed /\ (job[r].left = LIFE => Held(c))

Known(r) ==
  /\ pc[r] \in AfterArc     => Sure(r, "arc")
  /\ pc[r] \in AfterArb     => Sure(r, "arb")
  /\ pc[r] \in AfterReceipt /\ r \in Setups => delegate

Lives ==
  /\ \A tx \in mempool : tx.kind = "registerSession" => tx.left > 0
  /\ \A r \in Requests : pc[r] \in { "ensure_arc", "ensure_arb" } => job[r].left > 0

OneEntry == \A e, f \in cache : e = f

Types ==
  /\ chain    \in [ Chains -> Diamond ]
  /\ mempool  \subseteq Tx
  /\ delegate \in BOOLEAN
  /\ cache    \subseteq CachedEntry
  /\ pc       \in [ Requests -> Label ]
  /\ job      \in [ Requests -> Job ]

BothProbed == \A r \in Requests : pc[r] = "put" => DOMAIN job[r].status = Chains

SessionInv ==
  /\ Types /\ OneEntry /\ BothProbed
  /\ Lives
  /\ \A r \in Callers : Known(r)

-----------------------------------------------------------------------------
(* A session stays held while the chain is as it was and no transaction is *)
(* lost.                                                                   *)
LEMMA HeldStays ==
  ASSUME UNCHANGED chain, mempool \subseteq mempool', NEW c \in Chains, Held(c)
  PROVE  Held(c)'
BY DEF Held

LEMMA RequestFacts ==
  ASSUME SessionInv, NEW r \in Requests
  PROVE  job[r] \in Job /\ pc[r] \in Label
BY DEF SessionInv, Types

LEMMA NewJobType == NewJob \in Job /\ NewJob.left # LIFE
<1>1. Unprobed \in [ {} -> DiamondStatus ]
  BY DEF Unprobed
<1>2. Unprobed \in UNION { [ C -> DiamondStatus ] : C \in SUBSET Chains }
  BY <1>1
<1>3. 0 \in 0 .. LIFE /\ 0 # LIFE
  BY SessionAssumption
<1> QED  BY <1>2, <1>3 DEF NewJob, Job

(* A step of one request, which the chains do not see yet.                 *)
LEMMA RequestStep ==
  ASSUME SessionInv, NEW r \in Requests, NEW j \in Job, NEW label \in Label,
         job' = [ job EXCEPT ![r] = j ], pc' = [ pc EXCEPT ![r] = label ],
         chain' = chain, delegate' \in BOOLEAN, delegate => delegate',
         mempool \subseteq mempool', mempool' \subseteq Tx,
         \A tx \in mempool' : tx.kind = "registerSession" => tx.left > 0,
         cache' \subseteq CachedEntry, OneEntry',
         label = "put" => DOMAIN j.status = Chains,
         label \in { "ensure_arc", "ensure_arb" } => j.left > 0,
         r \in Callers =>
           /\ label \in AfterArc => /\ chain["arc"].deployed
                                    /\ j.left = LIFE => Held("arc")'
           /\ label \in AfterArb => /\ chain["arb"].deployed
                                    /\ j.left = LIFE => Held("arb")'
           /\ label \in AfterReceipt /\ r \in Setups => delegate'
  PROVE  SessionInv'
<1>1. Types'
  BY DEF SessionInv, Types
<1>2. \A s \in Requests : /\ pc'[s]  = IF s = r THEN label ELSE pc[s]
                          /\ job'[s] = IF s = r THEN j ELSE job[s]
  BY DEF SessionInv, Types
<1>3. BothProbed' /\ Lives'
  BY <1>2 DEF SessionInv, BothProbed, Lives
<1>4. ASSUME NEW s \in Callers  PROVE  Known(s)'
  <2>1. s \in Requests
    BY DEF Callers, Requests
  <2>2. CASE s = r
    BY <1>2, <2>1, <2>2 DEF Known, Sure
  <2>3. CASE s # r
    <3>1. pc'[s] = pc[s] /\ job'[s] = job[s] /\ Known(s)
      BY <1>2, <2>1, <2>3 DEF SessionInv
    <3>2. "arc" \in Chains /\ "arb" \in Chains
      BY DEF Chains
    <3> QED  BY <3>1, <3>2, HeldStays DEF Known, Sure
  <2> QED  BY <2>2, <2>3
<1> QED  BY <1>1, <1>3, <1>4 DEF SessionInv

(* The same for a step that only goes to a label.                          *)
LEMMA MoveOn ==
  ASSUME SessionInv, NEW r \in Requests, NEW label \in Label \ { "put" },
         UNCHANGED << chain, job >>, pc' = [ pc EXCEPT ![r] = label ],
         delegate' \in BOOLEAN, delegate => delegate',
         mempool \subseteq mempool', mempool' \subseteq Tx,
         \A tx \in mempool' : tx.kind = "registerSession" => tx.left > 0,
         cache' \subseteq CachedEntry, OneEntry',
         label \in { "ensure_arc", "ensure_arb" } => job[r].left > 0,
         r \in Callers =>
           /\ label \in AfterArc => /\ chain["arc"].deployed
                                    /\ job[r].left = LIFE => Held("arc")'
           /\ label \in AfterArb => /\ chain["arb"].deployed
                                    /\ job[r].left = LIFE => Held("arb")'
           /\ label \in AfterReceipt /\ r \in Setups => delegate'
  PROVE  SessionInv'
<1>1. job' = [ job EXCEPT ![r] = job[r] ]
  BY DEF SessionInv, Types
<1> QED  BY <1>1, RequestFacts, RequestStep

-----------------------------------------------------------------------------
(* What a request sends.                                                   *)
LEMMA SendFacts ==
  ASSUME SessionInv, NEW r \in Requests, NEW c \in Chains,
         NEW kind \in { "createAccount", "registerSession" }, Send(r, kind, c),
         kind = "registerSession" => job[r].left > 0
  PROVE  /\ mempool \subseteq mempool' /\ mempool' \subseteq Tx
         /\ \A tx \in mempool' : tx.kind = "registerSession" => tx.left > 0
         /\ kind = "registerSession" =>
              \E tx \in mempool' : tx.kind = "registerSession" /\ tx.on = c
<1> DEFINE x == [ kind |-> kind, on |-> c,
                  left |-> IF kind = "registerSession" THEN job[r].left ELSE 0 ]
<1>1. job[r].left \in 0 .. LIFE /\ 0 \in 0 .. LIFE
  BY RequestFacts, SessionAssumption DEF Job
<1>2. /\ x \in Tx /\ x.kind = kind /\ x.on = c
      /\ x.kind = "registerSession" => x.left > 0
  BY <1>1 DEF Tx
<1>3. mempool' = mempool \cup {x}
  BY DEF Send
<1> HIDE DEF x
<1> QED  BY <1>2, <1>3 DEF SessionInv, Types, Lives

LEMMA SentNothing ==
  ASSUME SessionInv, UNCHANGED mempool
  PROVE  /\ mempool \subseteq mempool' /\ mempool' \subseteq Tx
         /\ \A tx \in mempool' : tx.kind = "registerSession" => tx.left > 0
BY DEF SessionInv, Types, Lives

LEMMA SameCache ==
  ASSUME SessionInv, UNCHANGED cache  PROVE  cache' \subseteq CachedEntry /\ OneEntry'
BY DEF SessionInv, Types, OneEntry

LEMMA DeployFacts ==
  ASSUME SessionInv, NEW r \in Requests, NEW c \in Chains, Deploy(r, c)
  PROVE  /\ mempool \subseteq mempool' /\ mempool' \subseteq Tx
         /\ \A tx \in mempool' : tx.kind = "registerSession" => tx.left > 0
BY SendFacts, SentNothing DEF Deploy

-----------------------------------------------------------------------------
(* The steps of a request.                                                 *)
LEMMA FailsInv ==
  ASSUME SessionInv, NEW r \in Requests, SetupFails(r)  PROVE  SessionInv'
<1>1. /\ job' = [ job EXCEPT ![r] = NewJob ] /\ pc' = [ pc EXCEPT ![r] = "failed" ]
      /\ UNCHANGED << chain, delegate, cache >>
  BY DEF SetupFails, Fails, Goto
<1>2. /\ mempool \subseteq mempool' /\ mempool' \subseteq Tx
      /\ \A tx \in mempool' : tx.kind = "registerSession" => tx.left > 0
  <2>1. ASSUME NEW c \in Chains, pc[r] = EnsureOn(c), Send(r, "registerSession", c)
        PROVE  job[r].left > 0
    BY <2>1 DEF EnsureOn, SessionInv, Lives
  <2> QED  BY <2>1, SentNothing, DeployFacts, SendFacts DEF SetupFails
<1>3. "failed" \in Label /\ "failed" \notin AfterArc /\ delegate \in BOOLEAN
  BY DEF Label, AfterArc, SessionInv, Types
<1> QED  BY <1>1, <1>2, <1>3, SameCache, NewJobType, RequestStep
         DEF AfterArb, AfterReceipt

LEMMA StartInv ==
  ASSUME SessionInv, NEW r \in Requests, Start(r)  PROVE  SessionInv'
<1>1. "deploy_arc" \in Label /\ "deploy_arc" \notin AfterArc /\ delegate \in BOOLEAN
  BY DEF Label, AfterArc, SessionInv, Types
<1> QED  BY <1>1, SentNothing, SameCache, NewJobType, RequestStep
         DEF Start, Goto, AfterArb, AfterReceipt

LEMMA DeploysInv ==
  ASSUME SessionInv, NEW r \in Requests, DeployArc(r) \/ DeployArb(r)
  PROVE  SessionInv'
<1>1. "arc" \in Chains /\ "arb" \in Chains /\ delegate \in BOOLEAN
  BY DEF Chains, SessionInv, Types
<1>2. CASE DeployArc(r)
  <2>1. "deploy_arb" \in Label /\ "deploy_arb" \notin AfterArc
    BY DEF Label, AfterArc
  <2> QED  BY <1>1, <1>2, <2>1, DeployFacts, SameCache, MoveOn
           DEF DeployArc, Goto, AfterArb, AfterReceipt
<1>3. CASE DeployArb(r)
  <2> DEFINE j == [ job[r] EXCEPT !.left = LIFE ]
  <2>1. "ensure_arc" \in Label /\ "ensure_arc" \notin AfterArc
    BY DEF Label, AfterArc
  <2>2. job' = [ job EXCEPT ![r] = j ] /\ pc' = [ pc EXCEPT ![r] = "ensure_arc" ]
    BY <1>3 DEF DeployArb, Goto, SessionInv, Types
  <2>3. j \in Job /\ j.left > 0
    BY RequestFacts, SessionAssumption DEF Job
  <2> HIDE DEF j
  <2> QED  BY <1>1, <1>3, <2>1, <2>2, <2>3, DeployFacts, SameCache, RequestStep
           DEF DeployArb, AfterArb, AfterReceipt
<1> QED  BY <1>2, <1>3

(* What an ensured session is.                                             *)
LEMMA EnsureFacts ==
  ASSUME SessionInv, NEW r \in Requests, NEW c \in Chains, NEW next,
         Ensure(r, c, next), chain' = chain, job[r].left > 0
  PROVE  /\ mempool \subseteq mempool' /\ mempool' \subseteq Tx
         /\ \A tx \in mempool' : tx.kind = "registerSession" => tx.left > 0
         /\ \/ pc' = [ pc EXCEPT ![r] = "failed" ]
            \/ pc' = [ pc EXCEPT ![r] = next ] /\ chain[c].deployed /\ Held(c)'
<1>1. CASE ~chain[c].deployed
  BY <1>1, SentNothing DEF Ensure, Goto
<1>2. CASE chain[c].deployed /\ chain[c].left > 0
  BY <1>2, SentNothing DEF Ensure, Goto, Held
<1>3. CASE chain[c].deployed /\ ~(chain[c].left > 0)
  BY <1>3, SendFacts DEF Ensure, Goto, Held
<1> QED  BY <1>1, <1>2, <1>3

LEMMA EnsuresInv ==
  ASSUME SessionInv, NEW r \in Requests, EnsureArc(r) \/ EnsureArb(r)
  PROVE  SessionInv'
<1>1. /\ "arc" \in Chains /\ "arb" \in Chains /\ delegate \in BOOLEAN
      /\ "failed" \in Label /\ "failed" \notin AfterArc
  BY DEF Chains, SessionInv, Types, Label, AfterArc
<1>2. job[r].left > 0 /\ UNCHANGED << chain, delegate, cache, job >>
  BY DEF EnsureArc, EnsureArb, SessionInv, Lives
<1>3. CASE EnsureArc(r)
  <2>1. "ensure_arb" \in Label /\ "ensure_arb" \notin AfterArb
    BY DEF Label, AfterArb
  <2>2. Ensure(r, "arc", "ensure_arb")
    BY <1>3 DEF EnsureArc
  <2> QED  BY <1>1, <1>2, <2>1, <2>2, EnsureFacts, SameCache, MoveOn
           DEF AfterArb, AfterReceipt
<1>4. CASE EnsureArb(r)
  <2> DEFINE next == IF r \in Tools THEN "done" ELSE "authorize"
  <2>1. next \in Label /\ next # "put" /\ next \notin { "ensure_arc", "ensure_arb" }
    BY DEF Label
  <2>2. Ensure(r, "arb", next) /\ pc[r] = "ensure_arb"
    BY <1>4 DEF EnsureArb
  <2>3. r \in Callers => chain["arc"].deployed /\ (job[r].left = LIFE => Held("arc"))
    BY <2>2 DEF SessionInv, Known, Sure, AfterArc
  <2>4. next \in AfterReceipt => r \notin Setups
    BY SessionAssumption DEF AfterReceipt, AfterArb, AfterArc
  <2> HIDE DEF next
  <2> QED  BY <1>1, <1>2, <2>1, <2>2, <2>3, <2>4, EnsureFacts, HeldStays,
              SameCache, MoveOn DEF AfterArb, AfterReceipt
<1> QED  BY <1>3, <1>4

LEMMA AuthorizeInv ==
  ASSUME SessionInv, NEW r \in Requests, Authorize(r)  PROVE  SessionInv'
<1>1. /\ "arc" \in Chains /\ "arb" \in Chains
      /\ "failed" \in Label /\ "failed" \notin AfterArc /\ "invalidate" \in Label
  BY DEF Chains, Label, AfterArc
<1>2. r \in Callers => Sure(r, "arc") /\ Sure(r, "arb")
  BY DEF Authorize, SessionInv, Known, AfterArc, AfterArb
<1>3. UNCHANGED << chain, mempool, cache, job >> /\ delegate' = TRUE
  BY DEF Authorize
<1>4. \/ pc' = [ pc EXCEPT ![r] = "invalidate" ]
      \/ pc' = [ pc EXCEPT ![r] = "failed" ]
  BY DEF Authorize, Goto
<1> QED  BY <1>1, <1>2, <1>3, <1>4, HeldStays, SentNothing, SameCache, MoveOn
         DEF Sure, AfterArb, AfterReceipt

(* From the receipt on a request only looks.                               *)
LEMMA LooksOn ==
  ASSUME SessionInv, NEW r \in Requests, pc[r] \in AfterReceipt,
         NEW label \in AfterReceipt, NEW j \in Job, j.left = job[r].left,
         job' = [ job EXCEPT ![r] = j ], pc' = [ pc EXCEPT ![r] = label ],
         UNCHANGED << chain, mempool, delegate >>,
         cache' \subseteq CachedEntry, OneEntry',
         label = "put" => DOMAIN j.status = Chains
  PROVE  SessionInv'
<1>1. /\ "arc" \in Chains /\ "arb" \in Chains /\ delegate \in BOOLEAN
      /\ label \in Label /\ label \notin { "ensure_arc", "ensure_arb" }
  BY DEF Chains, SessionInv, Types, Label, AfterReceipt, AfterArb, AfterArc
<1>2. r \in Callers => Sure(r, "arc") /\ Sure(r, "arb") /\ (r \in Setups => delegate)
  BY DEF SessionInv, Known, AfterReceipt, AfterArb
<1> QED  BY <1>1, <1>2, HeldStays, SentNothing, RequestStep DEF Sure

LEMMA InvalidateInv ==
  ASSUME SessionInv, NEW r \in Requests, Invalidate(r)  PROVE  SessionInv'
<1>1. cache' \subseteq CachedEntry /\ OneEntry'
  BY SameCache DEF Invalidate, OneEntry
<1>2. /\ pc' = [ pc EXCEPT ![r] = "probe" ] /\ pc[r] = "invalidate"
      /\ UNCHANGED << chain, mempool, delegate >>
      /\ job' = [ job EXCEPT ![r] = job[r] ]
  BY DEF Invalidate, Goto, SessionInv, Types
<1>3. {"invalidate", "probe"} \subseteq AfterReceipt
  BY DEF AfterReceipt, AfterArb, AfterArc
<1> QED  BY <1>1, <1>2, <1>3, RequestFacts, LooksOn

LEMMA ProbeInv ==
  ASSUME SessionInv, NEW r \in Requests, NEW c \in Chains, Probe(r, c)
  PROVE  SessionInv'
<1>1. PICK v \in BOOLEAN : Probed(r, c, v)
  BY DEF Probe
<1> DEFINE entry  == [ deployed |-> chain[c].deployed, valid |-> v ]
           status == [ d \in DOMAIN job[r].status \cup {c} |->
                         IF d = c THEN entry ELSE job[r].status[d] ]
           j      == [ job[r] EXCEPT !.status = status ]
           label  == IF DOMAIN job[r].status = Chains \ {c} THEN "put" ELSE "probe"
<1>2. entry \in DiamondStatus
  BY DEF DiamondStatus, SessionInv, Types, Diamond
<1>3. PICK C \in SUBSET Chains : job[r].status \in [ C -> DiamondStatus ]
  BY RequestFacts DEF Job
<1> HIDE DEF entry
<1>4. status \in [ C \cup {c} -> DiamondStatus ]
  BY <1>2, <1>3
<1>5. /\ C \cup {c} \in SUBSET Chains /\ DOMAIN status = C \cup {c}
      /\ DOMAIN job[r].status = C
  BY <1>3, <1>4
<1> HIDE DEF status
<1>6. j \in Job /\ j.left = job[r].left /\ j.status = status
  BY <1>4, <1>5, RequestFacts DEF Job
<1>7. job' = [ job EXCEPT ![r] = j ]
  BY <1>1 DEF Probed, status, entry, SessionInv, Types
<1>8. pc' = [ pc EXCEPT ![r] = label ] /\ pc[r] = "probe"
  BY DEF Probe, Goto, SessionInv, Types
<1>9. label = "put" => DOMAIN j.status = Chains
  BY <1>5, <1>6
<1>10. /\ "probe" \in AfterReceipt /\ label \in AfterReceipt
       /\ UNCHANGED << chain, mempool, delegate, cache >>
  BY DEF AfterReceipt, AfterArb, AfterArc, Probe
<1> HIDE DEF j, label
<1> QED  BY <1>6, <1>7, <1>8, <1>9, <1>10, SameCache, LooksOn

LEMMA PutInv ==
  ASSUME SessionInv, NEW r \in Requests, Put(r)  PROVE  SessionInv'
<1>1. cache' \subseteq CachedEntry /\ OneEntry'
  <2>1. CASE UNCHANGED cache
    BY <2>1, SameCache
  <2>2. CASE cache' = { [ payload |-> job[r].status, age |-> 0 ] }
    <3>1. DOMAIN job[r].status = Chains
      BY DEF Put, SessionInv, BothProbed
    <3>2. job[r].status \in Status
      BY <3>1, RequestFacts DEF Job, Status
    <3>3. 0 \in 0 .. CACHE_TTL + 1
      BY SessionAssumption
    <3> QED  BY <2>2, <3>2, <3>3 DEF CachedEntry, OneEntry
  <2> QED  BY <2>1, <2>2 DEF Put
<1>2. /\ pc' = [ pc EXCEPT ![r] = "done" ] /\ pc[r] = "put"
      /\ UNCHANGED << chain, mempool, delegate >>
      /\ job' = [ job EXCEPT ![r] = job[r] ]
  BY DEF Put, Goto, SessionInv, Types
<1>3. {"put", "done"} \subseteq AfterReceipt
  BY DEF AfterReceipt, AfterArb, AfterArc
<1> QED  BY <1>1, <1>2, <1>3, RequestFacts, LooksOn

(* A status request is not one that sets up.                               *)
LEMMA GetStatusInv ==
  ASSUME SessionInv, NEW r \in Requests, GetStatus(r)  PROVE  SessionInv'
<1> DEFINE AnyStatus == UNION { [ C -> DiamondStatus ] : C \in SUBSET Chains }
<1>1. PICK status \in AnyStatus, label \in { "probe", "done" } :
        /\ job' = [ job EXCEPT ![r] = [ job[r] EXCEPT !.status = status ] ]
        /\ pc' = [ pc EXCEPT ![r] = label ]
  <2>1. CASE \E e \in Fresh : /\ job' = [ job EXCEPT ![r].status = e.payload ]
                              /\ Goto(r, "done")
    <3>1. PICK e \in cache : /\ job' = [ job EXCEPT ![r].status = e.payload ]
                             /\ Goto(r, "done")
      BY <2>1 DEF Fresh
    <3>2. e.payload \in [ Chains -> DiamondStatus ]
      BY DEF SessionInv, Types, CachedEntry, Status
    <3>3. e.payload \in AnyStatus
      BY <3>2
    <3>4. /\ job' = [ job EXCEPT ![r] = [ job[r] EXCEPT !.status = e.payload ] ]
          /\ pc' = [ pc EXCEPT ![r] = "done" ]
      BY <3>1 DEF Goto, SessionInv, Types
    <3> HIDE DEF AnyStatus
    <3> QED  BY <3>3, <3>4
  <2>2. CASE job' = [ job EXCEPT ![r].status = Unprobed ] /\ Goto(r, "probe")
    <3>1. Unprobed \in [ {} -> DiamondStatus ]
      BY DEF Unprobed
    <3>2. Unprobed \in AnyStatus
      BY <3>1
    <3>3. /\ job' = [ job EXCEPT ![r] = [ job[r] EXCEPT !.status = Unprobed ] ]
          /\ pc' = [ pc EXCEPT ![r] = "probe" ]
      BY <2>2 DEF Goto, SessionInv, Types
    <3> HIDE DEF AnyStatus
    <3> QED  BY <3>2, <3>3
  <2> QED  BY <2>1, <2>2 DEF GetStatus
<1> DEFINE j == [ job[r] EXCEPT !.status = status ]
<1>2. j \in Job /\ job' = [ job EXCEPT ![r] = j ]
  BY <1>1, RequestFacts DEF Job
<1> HIDE DEF j
<1>3. r \notin Callers /\ UNCHANGED << chain, mempool, delegate, cache >>
  BY SessionAssumption DEF GetStatus, Callers
<1>4. label \in Label \ { "put", "ensure_arc", "ensure_arb" } /\ delegate \in BOOLEAN
  BY DEF Label, SessionInv, Types
<1> QED  BY <1>1, <1>2, <1>3, <1>4, SentNothing, SameCache, RequestStep

LEMMA StepInv ==
  ASSUME SessionInv, NEW r \in Requests, Step(r)  PROVE  SessionInv'
BY StartInv, DeploysInv, EnsuresInv, AuthorizeInv, InvalidateInv, GetStatusInv,
   ProbeInv, PutInv DEF Step

-----------------------------------------------------------------------------
(* The chains, and time.                                                   *)
LEMMA LandInv ==
  ASSUME SessionInv, NEW tx \in mempool, Land(tx)  PROVE  SessionInv'
<1>1. /\ mempool' = mempool \ {tx} /\ UNCHANGED << delegate, cache, pc, job >>
      /\ chain \in [ Chains -> Diamond ] /\ tx \in Tx
  BY DEF Land, SessionInv, Types
<1>2. /\ chain' \in [ Chains -> Diamond ]
      /\ \A c \in Chains : chain[c].deployed => chain'[c].deployed
      /\ \A c \in Chains :
            \/ chain'[c].left = chain[c].left
            \/ c = tx.on /\ tx.kind = "registerSession" /\ chain'[c].left = tx.left
  <2>1. CASE tx.kind = "createAccount"
    BY <1>1, <2>1 DEF Land, Diamond, Tx
  <2>2. CASE tx.kind = "registerSession"
    BY <1>1, <2>2 DEF Land, Diamond, Tx
  <2> QED  BY <1>1, <2>1, <2>2 DEF Tx
<1>3. ASSUME NEW c \in Chains, Held(c)  PROVE  Held(c)'
  <2>1. CASE tx.kind = "registerSession" /\ tx.on = c
    <3>1. chain'[c].left = tx.left
      BY <1>1, <2>1 DEF Land, Diamond
    <3> QED  BY <2>1, <3>1 DEF Held, SessionInv, Lives
  <2>2. CASE ~(tx.kind = "registerSession" /\ tx.on = c)
    <3>1. chain'[c].left = chain[c].left
      BY <1>2, <2>2
    <3> QED  BY <1>1, <1>3, <2>2, <3>1 DEF Held
  <2> QED  BY <2>1, <2>2
<1>4. Types' /\ OneEntry' /\ BothProbed' /\ Lives'
  BY <1>1, <1>2 DEF SessionInv, Types, OneEntry, BothProbed, Lives
<1>5. "arc" \in Chains /\ "arb" \in Chains
  BY DEF Chains
<1>6. ASSUME NEW r \in Callers  PROVE  Known(r)'
  BY <1>1, <1>2, <1>3, <1>5 DEF SessionInv, Known, Sure
<1> QED  BY <1>4, <1>6 DEF SessionInv

LEMMA TickInv ==
  ASSUME SessionInv, Tick  PROVE  SessionInv'
<1>1. cache' \subseteq CachedEntry /\ OneEntry'
  <2>1. \A e \in cache : Older(e) \in CachedEntry
    BY SessionAssumption DEF SessionInv, Types, CachedEntry, Older
  <2> QED  BY <2>1 DEF Tick, SessionInv, OneEntry
<1>2. CASE ~Expires
  BY <1>1, <1>2 DEF Tick, SessionInv, Types, BothProbed, Lives, Known, Sure, Held
<1>3. CASE Expires
  <2>1. /\ chain' = [ c \in Chains |-> [ chain[c] EXCEPT !.left = Less(@) ] ]
        /\ mempool' = { [ tx EXCEPT !.left = Less(@) ] : tx \in mempool }
        /\ job' = [ r \in Requests |-> [ job[r] EXCEPT !.left = Less(@) ] ]
        /\ UNCHANGED << delegate, pc >> /\ Timely
    BY <1>3 DEF Tick
  <2>2. \A n \in 0 .. LIFE : /\ Less(n) \in 0 .. LIFE /\ Less(n) # LIFE
                             /\ n > 1 => Less(n) > 0
    BY SessionAssumption DEF Less
  <2>3. /\ chain \in [ Chains -> Diamond ] /\ mempool \subseteq Tx
        /\ job \in [ Requests -> Job ]
    BY DEF SessionInv, Types
  <2>4. /\ chain' \in [ Chains -> Diamond ]
        /\ \A c \in Chains : chain'[c].deployed = chain[c].deployed
    BY <2>1, <2>2, <2>3 DEF Diamond
  <2>5. /\ mempool' \subseteq Tx
        /\ \A tx \in mempool' : tx.kind = "registerSession" => tx.left > 0
    <3> SUFFICES ASSUME NEW tx \in mempool
                 PROVE  LET x == [ tx EXCEPT !.left = Less(@) ]
                        IN  x \in Tx /\ (x.kind = "registerSession" => x.left > 0)
      BY <2>1
    <3>1. tx \in Tx /\ (tx.kind = "registerSession" => tx.left > 1)
      BY <2>1, <2>3 DEF Timely
    <3> QED  BY <2>2, <3>1 DEF Tx
  <2>6. \A r \in Requests :
           /\ job'[r] \in Job /\ job'[r].left # LIFE
           /\ job'[r].left = Less(job[r].left) /\ job'[r].status = job[r].status
    BY <2>1, <2>2, <2>3 DEF Job
  <2>7. Types'
    <3>1. job' \in [ Requests -> Job ]
      BY <2>1, <2>6
    <3> QED  BY <1>1, <2>1, <2>4, <2>5, <3>1 DEF SessionInv, Types
  <2>8. BothProbed' /\ Lives'
    <3>1. \A r \in Requests : pc[r] \in { "ensure_arc", "ensure_arb" } => job[r].left > 1
      BY <2>1 DEF Timely
    <3> QED  BY <2>1, <2>2, <2>3, <2>5, <2>6, <3>1
             DEF SessionInv, BothProbed, Lives, Job
  <2>9. "arc" \in Chains /\ "arb" \in Chains
    BY DEF Chains
  <2>10. ASSUME NEW r \in Callers  PROVE  Known(r)'
    <3>1. r \in Requests /\ Known(r)
      BY DEF SessionInv, Callers, Requests
    <3> QED  BY <2>1, <2>4, <2>6, <2>9, <3>1 DEF Known, Sure
  <2> QED  BY <1>1, <2>7, <2>8, <2>10 DEF SessionInv
<1> QED  BY <1>2, <1>3

-----------------------------------------------------------------------------
LEMMA InitSession == Init => SessionInv
<1> SUFFICES ASSUME Init PROVE SessionInv
  OBVIOUS
<1>1. 0 \in 0 .. LIFE /\ FALSE \in BOOLEAN
  BY SessionAssumption
<1>2. Types
  BY <1>1, NewJobType DEF Init, Types, Diamond, Label
<1>3. \A r \in Requests : pc[r] = "idle"
  BY DEF Init
<1>4. OneEntry /\ BothProbed /\ Lives
  BY <1>3 DEF Init, OneEntry, BothProbed, Lives
<1>5. \A r \in Callers : Known(r)
  BY <1>3 DEF Callers, Requests, Known, AfterReceipt, AfterArb, AfterArc
<1> QED  BY <1>2, <1>4, <1>5 DEF SessionInv

LEMMA NextSession == SessionInv /\ [Next]_vars => SessionInv'
<1> SUFFICES ASSUME SessionInv, [Next]_vars PROVE SessionInv'
  OBVIOUS
<1>1. CASE UNCHANGED vars
  BY <1>1 DEF vars, SessionInv, Types, OneEntry, BothProbed, Lives, Known, Sure, Held
<1>2. CASE Next
  BY <1>2, LandInv, TickInv, StepInv, FailsInv DEF Next, LandAny
<1> QED  BY <1>1, <1>2

THEOREM SessionInvariant == Spec => []SessionInv
BY InitSession, NextSession, PTL DEF Spec

(* Every variable keeps its type, and the owner has one cached status at   *)
(* most, whatever requests put beside each other.                          *)
THEOREM SessionTypeOK == Spec => []TypeOK
<1>1. SessionInv => TypeOK
  <2> SUFFICES ASSUME SessionInv PROVE TypeOK
    OBVIOUS
  <2>1. Cardinality(cache) <= 1
    <3>1. CASE cache = {}
      BY <3>1, FS_EmptySet
    <3>2. ASSUME NEW e \in cache  PROVE  Cardinality(cache) <= 1
      <4>1. cache = {e}
        BY DEF SessionInv, OneEntry
      <4>2. Cardinality({e}) = 1
        BY FS_Singleton
      <4> QED  BY <4>1, <4>2
    <3> QED  BY <3>1, <3>2
  <2> QED  BY <2>1 DEF SessionInv, Types, TypeOK
<1> QED  BY SessionInvariant, <1>1, PTL

(* A setup that has answered has left two accounts the agent may use,      *)
(* whatever ran beside it and failed, for as long as its sessions run.     *)
THEOREM SessionSetupsTakeHold == Spec => []SetupTakesHold
<1>1. SessionInv => SetupTakesHold
  <2>1. "done" \in AfterReceipt /\ "done" \in AfterArb /\ "done" \in AfterArc
    BY DEF AfterReceipt, AfterArb, AfterArc
  <2> QED  BY <2>1 DEF SessionInv, Known, Sure, SetupTakesHold, Callers, Chains
<1> QED  BY SessionInvariant, <1>1, PTL
=============================================================================
