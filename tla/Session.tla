------------------------------- MODULE Session -------------------------------
(***************************************************************************)
(* One owner's smart accounts and the agent's session on them: POST        *)
(* /session/{user}/setup and GET /session/{user} of src/api/session.rs,    *)
(* the ensure_account tool (src/core/llm/tools/account_tools.rs), deploy   *)
(* and ensure_session of src/account.rs, the status cache of               *)
(* src/automation/session_cache.rs.                                        *)
(*                                                                         *)
(* A deployment or a registration is sent and not awaited: it lands when   *)
(* the chain takes it; that one is dropped from the mempool or reverts is  *)
(* left out.  Time is kept as what is left of a session and as the age of  *)
(* the cached status; a Tick moves all of them.  The revocation of a       *)
(* session is up to the owner's wallet and not in this code.               *)
(***************************************************************************)
EXTENDS Integers, FiniteSets

CONSTANTS
  Setups, Tools, Gets,   \* requests: the route, the agent's tool, the status
  LIFE,                  \* of a session, in ticks
  CACHE_TTL,
  Expires,               \* do sessions run out?
  Faults                 \* may calls to chains and the cache fail?

Chains == { "arc", "arb" }

Requests == Setups \cup Tools \cup Gets

ASSUME SessionAssumption ==
  /\ Setups \cap Tools = {} /\ (Setups \cup Tools) \cap Gets = {}
  /\ LIFE \in Nat \ {0} /\ CACHE_TTL \in Nat
  /\ Expires \in BOOLEAN /\ Faults \in BOOLEAN

VARIABLES
  chain,     \* the account on each chain
  mempool,   \* transactions that are sent and in no block
  delegate,  \* may the agent sign for the account in the Gateway on Arc?
  cache,     \* the entries of session_cache for this owner, one at most
  pc, job    \* each request: where it is, what it carries

vars == << chain, mempool, delegate, cache, pc, job >>

Diamond == [ deployed : BOOLEAN, left : 0 .. LIFE ]

Tx == [ kind : { "createAccount", "registerSession" }, on : Chains,
        left : 0 .. LIFE ]

DiamondStatus == [ deployed : BOOLEAN, valid : BOOLEAN ]
Status        == [ Chains -> DiamondStatus ]

Unprobed == [ c \in {} |-> "nothing" ]

CachedEntry == [ payload : Status, age : 0 .. CACHE_TTL + 1 ]

Job == [ left : 0 .. LIFE,      \* until expires_at
         status : UNION { [ C -> DiamondStatus ] : C \in SUBSET Chains } ]

NewJob == [ left |-> 0, status |-> Unprobed ]

Label == { "idle", "deploy_arc", "deploy_arb", "ensure_arc", "ensure_arb",
           "authorize", "invalidate", "probe", "put", "done", "failed" }

Ready(status) == \A c \in Chains : status[c].deployed /\ status[c].valid

Init ==
  /\ chain    = [ c \in Chains |-> [ deployed |-> FALSE, left |-> 0 ] ]
  /\ mempool  = {}
  /\ delegate = FALSE
  /\ cache    = {}
  /\ pc  = [ r \in Requests |-> "idle" ]
  /\ job = [ r \in Requests |-> NewJob ]

-----------------------------------------------------------------------------
Goto(r, label) == pc' = [ pc EXCEPT ![r] = label ]

(* Any await of a request may fail, and what it sent be on its way.        *)
Fails(r) ==
  /\ Faults /\ pc[r] \notin { "idle", "done", "failed" }
  /\ Goto(r, "failed")
  /\ job' = [ job EXCEPT ![r] = NewJob ]
  /\ UNCHANGED << chain, delegate, cache >>

Send(r, kind, c) ==
  mempool' = mempool \cup
    { [ kind |-> kind, on |-> c,
        left |-> IF kind = "registerSession" THEN job[r].left ELSE 0 ] }

-----------------------------------------------------------------------------
(* A setup is called, and called again.                                    *)
Start(r) ==
  /\ r \in Setups \cup Tools
  /\ pc[r] \in { "idle", "done", "failed" }
  /\ Goto(r, "deploy_arc")
  /\ job' = [ job EXCEPT ![r] = NewJob ]
  /\ UNCHANGED << chain, mempool, delegate, cache >>

(* deploy: createAccount unless there is code at the address.              *)
Deploy(r, c) ==
  IF chain[c].deployed THEN UNCHANGED mempool ELSE Send(r, "createAccount", c)

DeployArc(r) ==
  /\ pc[r] = "deploy_arc"
  /\ Deploy(r, "arc")
  /\ Goto(r, "deploy_arb")
  /\ UNCHANGED << chain, delegate, cache, job >>

(* expires_at is fixed between the deployments and the sessions.           *)
DeployArb(r) ==
  /\ pc[r] = "deploy_arb"
  /\ Deploy(r, "arb")
  /\ job' = [ job EXCEPT ![r].left = LIFE ]
  /\ Goto(r, "ensure_arc")
  /\ UNCHANGED << chain, delegate, cache >>

(* ensure_session: isSessionValid answers where there is an account; a     *)
(* session that still runs is left alone.                                  *)
(* Mutant: an account without code counts as one with a session.           *)
EnsureUndeployed(r, c, next) ==
  /\ IF chain[c].deployed /\ chain[c].left = 0
       THEN Send(r, "registerSession", c) ELSE UNCHANGED mempool
  /\ Goto(r, next)

Ensure(r, c, next) ==
  \/ /\ chain[c].deployed
     /\ IF chain[c].left > 0 THEN UNCHANGED mempool
                             ELSE Send(r, "registerSession", c)
     /\ Goto(r, next)
  \/ /\ ~chain[c].deployed
     /\ Goto(r, "failed") /\ UNCHANGED mempool

EnsureArc(r) ==
  /\ pc[r] = "ensure_arc"
  /\ Ensure(r, "arc", "ensure_arb")
  /\ UNCHANGED << chain, delegate, cache, job >>

EnsureArb(r) ==
  /\ pc[r] = "ensure_arb"
  /\ Ensure(r, "arb", IF r \in Tools THEN "done" ELSE "authorize")
  /\ UNCHANGED << chain, delegate, cache, job >>

DeployOn(c) == IF c = "arc" THEN "deploy_arc" ELSE "deploy_arb"
EnsureOn(c) == IF c = "arc" THEN "ensure_arc" ELSE "ensure_arb"

(* What an await of a setup may have sent when it fails.                   *)
SetupFails(r) ==
  /\ Fails(r)
  /\ \/ UNCHANGED mempool
     \/ \E c \in Chains :
          \/ /\ pc[r] = DeployOn(c)
             /\ Deploy(r, c)
          \/ /\ pc[r] = EnsureOn(c) /\ chain[c].deployed /\ chain[c].left = 0
             /\ Send(r, "registerSession", c)

(* authorize_arc_gateway_delegate waits for the receipt and does not look  *)
(* at its status (session.rs:270).  A call the account refuses is refused  *)
(* when its gas is estimated; one that is mined is taken to succeed.       *)
Authorize(r) ==
  /\ pc[r] = "authorize"
  /\ delegate' = TRUE
  /\ \/ Goto(r, "invalidate")
     \/ Faults /\ Goto(r, "failed")
  /\ UNCHANGED << chain, mempool, cache, job >>

(* What the cache answers to invalidate is ignored.                        *)
Invalidate(r) ==
  /\ pc[r] = "invalidate"
  /\ \/ cache' = {}
     \/ Faults /\ UNCHANGED cache
  /\ Goto(r, "probe")
  /\ UNCHANGED << chain, mempool, delegate, job >>

-----------------------------------------------------------------------------
(* get_status: a cached status of CACHE_TTL at most, or a new one.         *)
(* Mutant: an entry is served at any age.                                  *)
FreshAlways == cache

Fresh == { e \in cache : e.age <= CACHE_TTL }

GetStatus(r) ==
  /\ r \in Gets /\ pc[r] \in { "idle", "done", "failed" }
  /\ \/ \E e \in Fresh :
          /\ job' = [ job EXCEPT ![r].status = e.payload ]
          /\ Goto(r, "done")
     \/ /\ Fresh = {}
        /\ job' = [ job EXCEPT ![r].status = Unprobed ]
        /\ Goto(r, "probe")
  /\ UNCHANGED << chain, mempool, delegate, cache >>

(* compute_status: both chains are probed side by side.  A session that    *)
(* cannot be read counts as none.                                          *)
Probed(r, c, valid) ==
  job' = [ job EXCEPT ![r].status =
             [ d \in DOMAIN @ \cup {c} |->
                 IF d = c THEN [ deployed |-> chain[c].deployed, valid |-> valid ]
                          ELSE @[d] ] ]

Probe(r, c) ==
  /\ pc[r] = "probe" /\ c \notin DOMAIN job[r].status
  /\ \/ Probed(r, c, chain[c].deployed /\ chain[c].left > 0)
     \/ Faults /\ Probed(r, c, FALSE)
  /\ IF DOMAIN job[r].status = Chains \ {c} THEN Goto(r, "put") ELSE UNCHANGED pc
  /\ UNCHANGED << chain, mempool, delegate, cache >>

(* The status is answered whether or not the cache takes it.               *)
(* Mutant: the entry is inserted beside the one that is there.             *)
PutBeside(r) ==
  /\ pc[r] = "put"
  /\ cache' = cache \cup { [ payload |-> job[r].status, age |-> 0 ] }
  /\ Goto(r, "done")
  /\ UNCHANGED << chain, mempool, delegate, job >>

Put(r) ==
  /\ pc[r] = "put"
  /\ \/ cache' = { [ payload |-> job[r].status, age |-> 0 ] }
     \/ Faults /\ UNCHANGED cache
  /\ Goto(r, "done")
  /\ UNCHANGED << chain, mempool, delegate, job >>

-----------------------------------------------------------------------------
(* The chains: createAccount twice reverts the second time.                *)
Land(tx) ==
  /\ tx \in mempool
  /\ mempool' = mempool \ {tx}
  /\ chain' = [ chain EXCEPT ![tx.on] =
                  IF tx.kind = "createAccount" THEN [ @ EXCEPT !.deployed = TRUE ]
                                               ELSE [ @ EXCEPT !.left = tx.left ] ]
  /\ UNCHANGED << delegate, cache, pc, job >>

Less(n) == IF n = 0 THEN 0 ELSE n - 1

(* Bound: an entry older than CACHE_TTL does not get older.                *)
Older(e) == IF e.age > CACHE_TTL THEN e ELSE [ e EXCEPT !.age = @ + 1 ]

(* Bound: a registration is sent and lands well within the day it is for.  *)
Timely ==
  /\ \A tx \in mempool : tx.kind = "registerSession" => tx.left > 1
  /\ \A r \in Requests : pc[r] \in { "ensure_arc", "ensure_arb" } => job[r].left > 1

Tick ==
  /\ Expires => Timely
  /\ cache' = { Older(e) : e \in cache }
  /\ IF Expires
       THEN /\ chain' = [ c \in Chains |-> [ chain[c] EXCEPT !.left = Less(@) ] ]
            /\ mempool' = { [ tx EXCEPT !.left = Less(@) ] : tx \in mempool }
            /\ job' = [ r \in Requests |-> [ job[r] EXCEPT !.left = Less(@) ] ]
       ELSE UNCHANGED << chain, mempool, job >>
  /\ UNCHANGED << delegate, pc >>

Step(r) ==
  \/ Start(r) \/ DeployArc(r) \/ DeployArb(r) \/ EnsureArc(r) \/ EnsureArb(r)
  \/ Authorize(r) \/ Invalidate(r) \/ GetStatus(r)
  \/ (\E c \in Chains : Probe(r, c)) \/ Put(r)

LandAny == \E tx \in mempool : Land(tx)

Next == LandAny \/ Tick \/ \E r \in Requests : Step(r) \/ SetupFails(r)

Spec == Init /\ [][Next]_vars

(* A setup that fails is called again until one answers, the page keeps    *)
(* polling; the chains take what is sent and time goes on.                 *)
FairSpec ==
  /\ Spec /\ WF_vars(LandAny) /\ WF_vars(Tick)
  /\ \A r \in Setups \cup Tools : WF_vars(pc[r] # "done" /\ Step(r))
  /\ \A r \in Gets : WF_vars(Step(r))

-----------------------------------------------------------------------------
(* Every variable keeps its type.                                          *)
TypeOK ==
  /\ chain    \in [ Chains -> Diamond ]
  /\ mempool  \subseteq Tx
  /\ delegate \in BOOLEAN
  /\ cache    \subseteq CachedEntry /\ Cardinality(cache) <= 1
  /\ pc       \in [ Requests -> Label ]
  /\ job      \in [ Requests -> Job ]

Held(c) == \/ chain[c].left > 0
              \/ \E tx \in mempool : tx.kind = "registerSession" /\ tx.on = c

(* A setup that has answered, whatever ran beside it, leaves two accounts  *)
(* behind that the agent may use: there is code on both chains, the        *)
(* Gateway knows the delegate, and until time passes a session runs or is  *)
(* on its way.                                                             *)
SetupTakesHold ==
  \A r \in Setups \cup Tools :
     pc[r] = "done" =>
       /\ \A c \in Chains : chain[c].deployed
       /\ r \in Setups => delegate
       /\ job[r].left = LIFE => \A c \in Chains : Held(c)

(* A status from before the setup may be cached after it; the age limit    *)
(* puts that right: from some time on each status served says ready.       *)
StaleHeals ==
  \A r \in Gets :
     /\ []<>(pc[r] = "done")
     /\ <>[](pc[r] = "done" => Ready(job[r].status))
=============================================================================
