----------------------------- MODULE AgentProofs -----------------------------
(* The two agents, for every value of their constants: what a chat saves   *)
(* and sends, for any number of chats of one owner at once, any answers of *)
(* the model, any chain of providers and any past; and where the strategy  *)
(* agent's reports say the money went, for any number of requests at once. *)
EXTENDS MCAgents, OperatorProofs

(* Messages, of whatever is said in them.                                  *)
LEMMA Element ==
  ASSUME NEW T, NEW s \in Seq(T), NEW i \in DOMAIN s  PROVE  s[i] \in T
OBVIOUS

LEMMA ResultsType ==
  ASSUME NEW T, NEW ids \in Seq(Nat)  PROVE  ResultsMessage(ids) \in Message(T)
<1> DEFINE B == [ type : { "text" }, text : T ] \cup [ type : { "thinking" } ]
                  \cup [ type : { "tool_use", "tool_result" }, id : Nat ]
           f == [ i \in DOMAIN ids |-> ToolResult(ids[i]) ]
<1>1. \A n \in Nat : ToolResult(n) \in B
  BY DEF ToolResult
<1>2. \A i \in DOMAIN ids : ids[i] \in Nat
  OBVIOUS
<1> HIDE DEF B
<1>3. f \in [ DOMAIN ids -> B ]
  BY <1>1, <1>2
<1>4. f \in Seq(B)
  BY <1>3, MapSeq
<1> QED  BY <1>4 DEF ResultsMessage, UserMessage, Message, B

LEMMA ToolTurnType ==
  ASSUME NEW T, NEW text \in T, NEW thinks \in BOOLEAN, NEW ids \in Seq(Nat)
  PROVE  ToolTurnMessage(text, thinks, ids) \in Message(T)
<1> DEFINE B == [ type : { "text" }, text : T ] \cup [ type : { "thinking" } ]
                  \cup [ type : { "tool_use", "tool_result" }, id : Nat ]
           f == [ i \in DOMAIN ids |-> ToolUse(ids[i]) ]
<1>1. Thinking \in B /\ Text(text) \in B /\ \A n \in Nat : ToolUse(n) \in B
  BY DEF Thinking, Text, ToolUse
<1>2. \A i \in DOMAIN ids : ids[i] \in Nat
  OBVIOUS
<1> HIDE DEF B
<1>3. f \in [ DOMAIN ids -> B ]
  BY <1>1, <1>2
<1>4. f \in Seq(B)
  BY <1>3, MapSeq
<1>5. If(thinks, Thinking) \in Seq(B) /\ If(text # NoText, Text(text)) \in Seq(B)
  BY <1>1 DEF If
<1> HIDE DEF f
<1>6. If(thinks, Thinking) \o If(text # NoText, Text(text)) \o f \in Seq(B)
  BY <1>4, <1>5
<1> QED  BY <1>6 DEF ToolTurnMessage, AssistantMessage, Message, B, f

LEMMA CallIdsType ==
  ASSUME NEW T, NEW trace \in Seq(T), NEW U, NEW calls \in Seq(U)
  PROVE  CallIds(trace, calls) \in Seq(Nat) /\ Len(CallIds(trace, calls)) = Len(calls)
<1>1. CallIds(trace, calls) \in [ DOMAIN calls -> Nat ]
  BY DEF CallIds
<1> QED  BY <1>1, MapSeq

LEMMA Replaced ==
  ASSUME NEW T, NEW s \in Seq(T), NEW i \in DOMAIN s, NEW e \in T
  PROVE  /\ [ s EXCEPT ![i] = e ] \in Seq(T)
         /\ DOMAIN [ s EXCEPT ![i] = e ] = DOMAIN s
         /\ \A k \in DOMAIN s \ {i} : [ s EXCEPT ![i] = e ][k] = s[k]
         /\ [ s EXCEPT ![i] = e ][i] = e
<1>1. \A k \in DOMAIN s : s[k] \in T
  OBVIOUS
<1>2. [ s EXCEPT ![i] = e ] \in [ DOMAIN s -> T ]
  BY <1>1
<1> QED  BY <1>2, MapSeq

-----------------------------------------------------------------------------
(***************************************************************************)
(* The inductive invariant of the chat.  The guard looks at one turn; what *)
(* it has seen must still be true of the reply when that is saved.  A turn *)
(* it does not look at calls a tool, so that the trace, with the calls     *)
(* still to be made, is never shorter than the text.  And the trace must   *)
(* be true of the effects at every moment, as a chat may be dropped at any.*)
(***************************************************************************)
LoopInv(c) ==
  /\ pc[c] \in { "idle", "list", "turn", "stream", "tools" }
       => /\ job[c].turn < MAX_TURNS /\ job[c].text # Retraction
          /\ Len(job[c].text) <= Len(job[c].trace) + Len(job[c].calls)
  /\ pc[c] = "tools" <=> job[c].calls # <<>>
  /\ pc[c] = "persist" => job[c].stop # "none" /\ GuardHolds(job[c])
  /\ TraceTrue(job[c])

ChatInv ==
  /\ TypeOK
  /\ \A c \in Chats : LoopInv(c)
  /\ GuardKeepsItsWord /\ TraceIsTrue

-----------------------------------------------------------------------------
(* The types of the parts.                                                 *)

LEMMA NewJobFacts ==
  /\ NewJob \in Job
  /\ NewJob.turn < MAX_TURNS /\ NewJob.text # Retraction /\ TraceTrue(NewJob)
  /\ Len(NewJob.text) <= Len(NewJob.trace) + Len(NewJob.calls) /\ NewJob.calls = <<>>
<1>1. 0 \in 0 .. MAX_TURNS /\ 0 < MAX_TURNS
  BY ChatAssumption
<1>2. 1 \in DOMAIN Providers
  <2>1. Providers \in Seq(ToSet(Providers)) /\ Providers # <<>>
    BY ChatAssumption
  <2> QED  BY <2>1
<1>3. <<>> # Retraction
  <2>1. <<>> \in Seq(TurnText)
    OBVIOUS
  <2> QED  BY <2>1, ChatAssumption
<1>4. NewJob \in Job
  BY <1>1, <1>2 DEF NewJob, Job
<1>5. TraceTrue(NewJob)
  BY DEF NewJob, TraceTrue, WritesIn
<1> QED  BY <1>1, <1>3, <1>4, <1>5 DEF NewJob

LEMMA TextTypes ==
  /\ \A t \in Spoken : /\ UserMessage(<< Text(t) >>) \in Message(Spoken)
                       /\ AssistantMessage(<< Text(t) >>) \in Message(Spoken)
  /\ TurnText \subseteq Spoken /\ Speakers \subseteq Spoken
  /\ "reply" \in Spoken /\ "corrective" \in Spoken
BY DEF UserMessage, AssistantMessage, Text, Message, Spoken

LEMMA SaidType ==
  ASSUME NEW r \in Row  PROVE  Said(r) \in Message(Spoken)
<1>1. r.by \in Speakers
  BY DEF Row
<1>2. NoText \in Spoken
  BY TextTypes DEF TurnText
<1> QED  BY <1>1, <1>2, TextTypes DEF Said

-----------------------------------------------------------------------------
(* A row is added, or all are gone.                                        *)
LEMMA AppendRow ==
  ASSUME ChatInv, NEW r \in Row, history' = Append(history, r),
         r.role = "assistant" => GuardHolds(r) /\ TraceTrue(r)
  PROVE  history' \in Seq(Row) /\ GuardKeepsItsWord' /\ TraceIsTrue'
<1>1. history \in Seq(Row)
  BY DEF ChatInv, TypeOK
<1>2. history' \in Seq(Row) /\ ToSet(history') = ToSet(history) \cup {r}
  BY <1>1 DEF ToSet
<1>3. \A q \in Replies' : q \in Replies \/ (q = r /\ r.role = "assistant")
  BY <1>2 DEF Replies
<1> QED  BY <1>2, <1>3 DEF ChatInv, GuardKeepsItsWord, TraceIsTrue

LEMMA SameRows ==
  ASSUME ChatInv, UNCHANGED history
  PROVE  history' \in Seq(Row) /\ GuardKeepsItsWord' /\ TraceIsTrue'
BY DEF ChatInv, TypeOK, GuardKeepsItsWord, TraceIsTrue, Replies

(* A step of one chat leaves the others as they were.                      *)
LEMMA ChatStep ==
  ASSUME ChatInv, NEW c \in Chats, NEW j \in Job,
         NEW label \in { "idle", "list", "turn", "stream", "tools",
                         "persist", "done", "gone", "refused" },
         job' = [ job EXCEPT ![c] = j ], pc' = [ pc EXCEPT ![c] = label ],
         history' \in Seq(Row), GuardKeepsItsWord', TraceIsTrue',
         label \in { "idle", "list", "turn", "stream", "tools" }
           => /\ j.turn < MAX_TURNS /\ j.text # Retraction
              /\ Len(j.text) <= Len(j.trace) + Len(j.calls),
         label = "tools" <=> j.calls # <<>>,
         label = "persist" => j.stop # "none" /\ GuardHolds(j),
         TraceTrue(j)
  PROVE  ChatInv'
<1>1. TypeOK'
  BY DEF ChatInv, TypeOK
<1>2. \A d \in Chats : /\ pc'[d]  = IF d = c THEN label ELSE pc[d]
                       /\ job'[d] = IF d = c THEN j ELSE job[d]
  BY DEF ChatInv, TypeOK
<1>3. ASSUME NEW d \in Chats  PROVE  LoopInv(d)'
  BY <1>2 DEF ChatInv, LoopInv
<1> QED  BY <1>1, <1>3 DEF ChatInv

-----------------------------------------------------------------------------
(* The steps of a chat.                                                    *)

LEMMA EndInv ==
  ASSUME ChatInv, NEW c \in Chats, NEW label \in { "done", "gone", "refused" },
         End(c, label), history' \in Seq(Row), GuardKeepsItsWord', TraceIsTrue'
  PROVE  ChatInv'
BY ChatStep, NewJobFacts DEF End, Goto

LEMMA JobFields ==
  ASSUME ChatInv, NEW c \in Chats  PROVE  job[c] \in Job /\ LoopInv(c)
BY DEF ChatInv, TypeOK

LEMMA SaveUserTurnInv ==
  ASSUME ChatInv, NEW c \in Chats, SaveUserTurn(c)  PROVE  ChatInv'
<1>1. UserTurn(c) \in Row /\ UserTurn(c).role # "assistant"
  BY DEF UserTurn, Row, Speakers
<1>2. history' \in Seq(Row) /\ GuardKeepsItsWord' /\ TraceIsTrue'
  BY <1>1, AppendRow, SameRows DEF SaveUserTurn
<1>3. /\ job' = [ job EXCEPT ![c] = job[c] ]
      /\ pc' = [ pc EXCEPT ![c] = "list" ] /\ pc[c] = "idle"
  BY DEF SaveUserTurn, Goto, ChatInv, TypeOK
<1> QED  BY <1>2, <1>3, JobFields, ChatStep DEF LoopInv

LEMMA ListHistoryInv ==
  ASSUME ChatInv, NEW c \in Chats, ListHistory(c)  PROVE  ChatInv'
<1>1. history' \in Seq(Row) /\ GuardKeepsItsWord' /\ TraceIsTrue'
  BY SameRows DEF ListHistory
<1>2. CASE End(c, "gone")
  BY <1>1, <1>2, EndInv
<1>3. CASE ~End(c, "gone")
  <2> DEFINE rows == Before(ListForUser(history, DEFAULT_HISTORY_LIMIT), c)
             said == [ i \in DOMAIN rows |-> Said(rows[i]) ]
             all  == Append(said, UserMessage(<< Text(c) >>))
             j    == [ job[c] EXCEPT !.messages = all ]
  <2>1. ListForUser(history, DEFAULT_HISTORY_LIMIT) \in Seq(Row)
    BY ChatAssumption DEF ListForUser, ChatInv, TypeOK
  <2>2. rows \in Seq(Row)
    BY <2>1 DEF Before, Front
  <2>3. all \in Seq(Message(Spoken))
    <3> HIDE DEF rows
    <3>1. said \in [ DOMAIN rows -> Message(Spoken) ]
      BY <2>2, SaidType
    <3>2. said \in Seq(Message(Spoken))
      BY <2>2, <3>1, MapSeq
    <3>3. UserMessage(<< Text(c) >>) \in Message(Spoken)
      BY TextTypes DEF Speakers
    <3> QED  BY <3>2, <3>3
  <2>4. /\ job' = [ job EXCEPT ![c] = j ] /\ pc' = [ pc EXCEPT ![c] = "turn" ]
        /\ pc[c] = "list"
    BY <1>3 DEF ListHistory, Goto
  <2> HIDE DEF all
  <2>5. j \in Job /\ j.turn = job[c].turn /\ j.text = job[c].text /\ j.calls = job[c].calls
        /\ j.trace = job[c].trace /\ j.effects = job[c].effects
    BY <2>3, JobFields DEF Job
  <2> HIDE DEF j
  <2>6. TraceTrue(j)
    BY <2>5, JobFields DEF LoopInv, TraceTrue
  <2> QED  BY <1>1, <2>4, <2>5, <2>6, JobFields, ChatStep DEF LoopInv
<1> QED  BY <1>2, <1>3

LEMMA ProviderInv ==
  ASSUME ChatInv, NEW c \in Chats,
         ProviderAnswers(c) \/ ProviderFails(c) \/ StreamBreaks(c)
  PROVE  ChatInv'
<1>1. history' \in Seq(Row) /\ GuardKeepsItsWord' /\ TraceIsTrue'
  BY SameRows DEF ProviderAnswers, ProviderFails, StreamBreaks
<1>2. CASE \E label \in { "gone", "refused" } : End(c, label)
  BY <1>1, <1>2, EndInv
<1>3. ASSUME NEW n \in DOMAIN Providers,
             NEW label \in { "turn", "stream" }, pc[c] = "turn",
             job' = [ job EXCEPT ![c].provider = n ], pc' = [ pc EXCEPT ![c] = label ]
      PROVE  ChatInv'
  <2> DEFINE j == [ job[c] EXCEPT !.provider = n ]
  <2>1. job' = [ job EXCEPT ![c] = j ]
    BY <1>3 DEF ChatInv, TypeOK
  <2>2. j \in Job /\ j.turn = job[c].turn /\ j.text = job[c].text /\ j.calls = job[c].calls
        /\ j.trace = job[c].trace /\ j.effects = job[c].effects
    BY JobFields DEF Job
  <2> HIDE DEF j
  <2>3. TraceTrue(j)
    BY <2>2, JobFields DEF LoopInv, TraceTrue
  <2> QED  BY <1>1, <1>3, <2>1, <2>2, <2>3, JobFields, ChatStep DEF LoopInv
<1>4. 1 \in DOMAIN Providers
  BY NewJobFacts DEF Job, NewJob
<1>5. CASE ProviderAnswers(c)
  BY <1>3, <1>4, <1>5 DEF ProviderAnswers, Goto
<1>6. CASE ProviderFails(c) /\ job[c].provider < Len(Providers)
  <2>1. job[c].provider + 1 \in DOMAIN Providers
    BY <1>6, JobFields, ChatAssumption DEF Job
  <2>2. pc' = [ pc EXCEPT ![c] = "turn" ] /\ pc[c] = "turn"
    BY <1>6 DEF ProviderFails, ChatInv, TypeOK
  <2>3. job' = [ job EXCEPT ![c].provider = job[c].provider + 1 ]
    BY <1>6 DEF ProviderFails, ChatInv, TypeOK
  <2> QED  BY <1>3, <2>1, <2>2, <2>3
<1> QED  BY <1>2, <1>5, <1>6 DEF ProviderFails, StreamBreaks

(* A text that is put back leaves trace and effects as they are.           *)
LEMMA PutBackInv ==
  ASSUME ChatInv, NEW c \in Chats, NEW said \in Answers, PutBack(c, said)
  PROVE  ChatInv'
<1> DEFINE all == job[c].messages \o << AssistantMessage(<< Text(said.text) >>),
                                        UserMessage(<< Text("corrective") >>) >>
           j   == [ job[c] EXCEPT !.turn = job[c].turn + 1, !.messages = all ]
<1>1. history' \in Seq(Row) /\ GuardKeepsItsWord' /\ TraceIsTrue'
  BY SameRows DEF PutBack
<1>2. /\ job' = [ job EXCEPT ![c] = j ] /\ pc' = [ pc EXCEPT ![c] = "turn" ]
      /\ pc[c] = "stream" /\ job[c].turn + 1 < MAX_TURNS
  BY DEF PutBack, Goto, ChatInv, TypeOK
<1>3. said.text \in TurnText
  BY ChatAssumption DEF Turn
<1>4. all \in Seq(Message(Spoken))
  BY <1>3, JobFields, TextTypes DEF Job
<1> HIDE DEF all
<1>5. job[c].turn + 1 \in 0 .. MAX_TURNS
  BY <1>2, JobFields, ChatAssumption DEF Job
<1>6. j \in Job /\ j.turn = job[c].turn + 1 /\ j.text = job[c].text /\ j.calls = job[c].calls
      /\ j.trace = job[c].trace /\ j.effects = job[c].effects
  BY <1>4, <1>5, JobFields DEF Job
<1> HIDE DEF j
<1>7. TraceTrue(j)
  BY <1>6, JobFields DEF LoopInv, TraceTrue
<1> QED  BY <1>1, <1>2, <1>6, <1>7, JobFields, ChatStep DEF LoopInv

(* What ends the loop is a text the guard lets pass, or the retraction.    *)
LEMMA EndTurnInv ==
  ASSUME ChatInv, NEW c \in Chats, NEW said \in Answers, EndTurn(c, said)
  PROVE  ChatInv'
<1> DEFINE fabricated == Fabricated(said.text = "claim", job[c].trace)
           text == IF fabricated THEN Retraction ELSE Append(job[c].text, said.text)
           j == [ job[c] EXCEPT !.stop = "end_turn", !.text = text, !.messages = <<>> ]
<1>1. history' \in Seq(Row) /\ GuardKeepsItsWord' /\ TraceIsTrue'
  BY SameRows DEF EndTurn
<1>2. /\ job' = [ job EXCEPT ![c] = j ] /\ pc' = [ pc EXCEPT ![c] = "persist" ]
      /\ pc[c] = "stream"
  BY DEF EndTurn, Goto, ChatInv, TypeOK
<1>3. said.text \in TurnText
  BY ChatAssumption DEF Turn
<1>4. job[c].text \in Seq(TurnText)
  BY <1>2, JobFields DEF Job, LoopInv
<1>5. /\ text \in Seq(TurnText) \cup {Retraction}
      /\ IF fabricated THEN text = Retraction
         ELSE text # Retraction /\ Last(text) = said.text
  <2>1. Append(job[c].text, said.text) \in Seq(TurnText)
    BY <1>3, <1>4
  <2>2. Last(Append(job[c].text, said.text)) = said.text
    BY <1>3, <1>4 DEF Last
  <2>3. Append(job[c].text, said.text) # Retraction
    BY <2>1, ChatAssumption
  <2>4. CASE fabricated
    <3>1. text = Retraction
      BY <2>4
    <3> HIDE DEF text, fabricated
    <3> QED  BY <2>4, <3>1
  <2>5. CASE ~fabricated
    <3>1. text = Append(job[c].text, said.text)
      BY <2>5
    <3> HIDE DEF text, fabricated
    <3> QED  BY <2>1, <2>2, <2>3, <2>5, <3>1
  <2> QED  BY <2>4, <2>5
<1> HIDE DEF text
<1>6. /\ j.stop = "end_turn" /\ j.text = text /\ j.calls = job[c].calls
      /\ j.trace = job[c].trace /\ j.effects = job[c].effects
      /\ j \in Job
  <2>1. << >> \in Seq(Message(Spoken))
    OBVIOUS
  <2>2. text \in Seq(TurnText) \cup {Retraction}
    BY <1>5
  <2> HIDE DEF fabricated
  <2> QED  BY <2>1, <2>2, JobFields DEF Job
<1> HIDE DEF j
<1>7. TraceTrue(j)
  BY <1>6, JobFields DEF LoopInv, TraceTrue
<1>8. GuardHolds(j)
  <2>1. CASE fabricated
    <3>1. ~WriteCalled(j.trace)
      BY <1>6, <2>1 DEF Fabricated
    <3>2. j.effects = {}
      BY <1>7, <3>1 DEF TraceTrue, WritesIn, WriteCalled
    <3> QED  BY <1>5, <1>6, <2>1, <3>2 DEF GuardHolds
  <2>2. CASE ~fabricated
    BY <1>5, <1>6, <2>2 DEF GuardHolds, Fabricated
  <2> QED  BY <2>1, <2>2
<1>9. j.calls = <<>>
  BY <1>2, <1>6, JobFields DEF LoopInv
<1> QED  BY <1>1, <1>2, <1>6, <1>7, <1>8, <1>9, ChatStep

LEMMA ToolTurnInv ==
  ASSUME ChatInv, NEW c \in Chats, NEW said \in Answers, ToolTurn(c, said)
  PROVE  ChatInv'
<1> DEFINE ids  == CallIds(job[c].trace, said.calls)
           text == Append(job[c].text, said.text)
           all  == Append(job[c].messages,
                          ToolTurnMessage(said.text, said.thinks, ids))
           j == [ job[c] EXCEPT !.text = text, !.calls = said.calls, !.messages = all ]
<1>1. history' \in Seq(Row) /\ GuardKeepsItsWord' /\ TraceIsTrue'
  BY SameRows DEF ToolTurn
<1>2. /\ job' = [ job EXCEPT ![c] = j ] /\ pc' = [ pc EXCEPT ![c] = "tools" ]
      /\ pc[c] = "stream" /\ said.calls # <<>>
  BY DEF ToolTurn, Goto, ChatInv, TypeOK
<1>3. said.text \in TurnText /\ said.thinks \in BOOLEAN /\ said.calls \in Seq(Tools)
  BY ChatAssumption DEF Turn
<1>4. /\ text \in Seq(TurnText) /\ text # Retraction
      /\ Len(text) <= Len(job[c].trace) + Len(said.calls)
  <2>1. job[c].text \in Seq(TurnText)
    BY <1>2, JobFields DEF Job, LoopInv
  <2>2. text \in Seq(TurnText) /\ Len(text) = Len(job[c].text) + 1
    BY <1>3, <2>1
  <2>3. Len(text) <= Len(job[c].trace) + Len(said.calls)
    <3>1. Len(job[c].text) <= Len(job[c].trace) + Len(job[c].calls) /\ job[c].calls = <<>>
      BY <1>2, JobFields DEF LoopInv
    <3>2. job[c].trace \in Seq(ToolTrace)
      BY JobFields DEF Job
    <3>3. Len(said.calls) \in Nat /\ Len(said.calls) # 0 /\ Len(job[c].calls) = 0
      BY <1>2, <1>3, <3>1
    <3>4. Len(job[c].text) \in Nat /\ Len(job[c].trace) \in Nat
      BY <2>1, <3>2
    <3>5. PICK x \in Nat, y \in Nat, z \in Nat \ {0} :
             x = Len(job[c].text) /\ y = Len(job[c].trace) /\ z = Len(said.calls)
      BY <3>3, <3>4
    <3>6. x <= y + 0
      BY <3>1, <3>3, <3>5
    <3>7. x + 1 <= y + z
      BY <3>6
    <3> HIDE DEF text
    <3> QED  BY <2>2, <3>5, <3>7
  <2> HIDE DEF text
  <2> QED  BY <2>2, <2>3, ChatAssumption
<1>5. all \in Seq(Message(Spoken))
  <2>1. job[c].trace \in Seq(ToolTrace) /\ job[c].messages \in Seq(Message(Spoken))
    BY JobFields DEF Job
  <2>2. ids \in [ DOMAIN said.calls -> Nat ]
    BY <1>3, <2>1 DEF CallIds
  <2>3. ids \in Seq(Nat)
    BY <1>3, <2>2, MapSeq
  <2> HIDE DEF ids
  <2>4. said.text \in Spoken /\ said.thinks \in BOOLEAN
    BY <1>3, TextTypes
  <2>5. ToolTurnMessage(said.text, said.thinks, ids) \in Message(Spoken)
    BY <2>3, <2>4, ToolTurnType
  <2> QED  BY <2>1, <2>5
<1> HIDE DEF text, all
<1>6. j \in Job /\ j.turn = job[c].turn /\ j.text = text /\ j.calls = said.calls
      /\ j.trace = job[c].trace /\ j.effects = job[c].effects
  BY <1>3, <1>4, <1>5, JobFields DEF Job
<1> HIDE DEF j
<1>7. TraceTrue(j)
  BY <1>6, JobFields DEF LoopInv, TraceTrue
<1> QED  BY <1>1, <1>2, <1>4, <1>6, <1>7, JobFields, ChatStep DEF LoopInv

(* What a write is said to have done it has done.                          *)
LEMMA OutcomeFacts ==
  ASSUME NEW name \in Tools, NEW o \in Outcomes(name)
  PROVE  /\ o.ok \in BOOLEAN /\ o.done \in BOOLEAN
         /\ o.done => name \in WRITE_TOOLS
         /\ o.ok /\ name \in WRITE_TOOLS => o.done
<1>1. CASE name \in WRITE_TOOLS
  <2>1. \/ o.ok = TRUE  /\ o.done = TRUE
        \/ o.ok = FALSE /\ o.done = FALSE
        \/ o.ok = FALSE /\ o.done = TRUE
    BY <1>1 DEF Outcomes
  <2> QED  BY Zenon, <1>1, <2>1
<1>2. CASE name \notin WRITE_TOOLS
  <2>1. PICK ok \in { TRUE, ~Faults } : o = [ ok |-> ok, done |-> FALSE ]
    BY <1>2 DEF Outcomes
  <2>2. ok = TRUE \/ ok = FALSE
    BY <2>1, ChatAssumption
  <2>3. (o.ok = TRUE \/ o.ok = FALSE) /\ o.done = FALSE
    BY <2>1, <2>2
  <2> QED  BY Zenon, <1>2, <2>3
<1> QED  BY <1>1, <1>2

(* A call enters the trace and the effects together.                       *)
LEMMA TracedTrue ==
  ASSUME NEW trace \in Seq(ToolTrace), NEW effects \in SUBSET Effect,
         TraceTrue([ trace |-> trace, effects |-> effects ]),
         NEW name \in Tools, NEW o \in Outcomes(name)
  PROVE  LET tr == Traced(trace, name, o.ok)
             ef == IF o.done THEN effects \cup { [ at |-> Len(tr), name |-> name ] }
                             ELSE effects
         IN  /\ tr \in Seq(ToolTrace) /\ ef \in SUBSET Effect
             /\ Len(tr) \in Nat
             /\ TraceTrue([ trace |-> tr, effects |-> ef ])
<1> DEFINE x  == [ name |-> name, ok |-> o.ok ]
           tr == Append(trace, x)
           e  == [ at |-> Len(tr), name |-> name ]
           ef == IF o.done THEN effects \cup {e} ELSE effects
<1>1. /\ o.ok \in BOOLEAN /\ o.done \in BOOLEAN
      /\ o.done => name \in WRITE_TOOLS
      /\ o.ok /\ name \in WRITE_TOOLS => o.done
  BY OutcomeFacts
<1>2. x \in ToolTrace
  BY <1>1 DEF ToolTrace
<1>3. /\ tr \in Seq(ToolTrace) /\ Len(tr) = Len(trace) + 1 /\ Len(trace) \in Nat
      /\ \A i \in 1 .. Len(trace) : tr[i] = trace[i]
      /\ tr[Len(tr)] = x
  BY <1>2, AppendProperties
<1>4. ef \in SUBSET Effect
  BY <1>1, <1>3 DEF Effect
<1>5. /\ WritesIn(trace, {TRUE}) \subseteq effects
      /\ effects \subseteq WritesIn(trace, BOOLEAN)
  BY DEF TraceTrue
<1> HIDE DEF tr
<1>6. ASSUME NEW oks
      PROVE  WritesIn(tr, oks)
               = WritesIn(trace, oks)
                   \cup (IF name \in WRITE_TOOLS /\ o.ok \in oks THEN {e} ELSE {})
  <2>1. /\ DOMAIN tr = (DOMAIN trace) \cup {Len(tr)} /\ Len(tr) \notin DOMAIN trace
        /\ \A i \in DOMAIN trace : tr[i] = trace[i]
    BY <1>3
  <2>2. x.name = name /\ x.ok = o.ok
    OBVIOUS
  <2> HIDE DEF x
  <2> QED  BY <1>3, <2>1, <2>2 DEF WritesIn
<1>7. TraceTrue([ trace |-> tr, effects |-> ef ])
  BY <1>1, <1>5, <1>6 DEF TraceTrue
<1> QED  BY <1>3, <1>4, <1>7 DEF tr, Traced

LEMMA CallToolsInv ==
  ASSUME ChatInv, NEW c \in Chats, CallTools(c)  PROVE  ChatInv'
<1>1. history' \in Seq(Row) /\ GuardKeepsItsWord' /\ TraceIsTrue'
  BY SameRows DEF CallTools, CallTool
<1> DEFINE name  == Head(job[c].calls)
           calls == Tail(job[c].calls)
           turn  == job[c].turn + (IF calls = <<>> THEN 1 ELSE 0)
           label == NextLabel(calls, turn)
<1>2. PICK o \in Outcomes(name) : CallTool(c, o)
  BY DEF CallTools
<1> DEFINE trace   == Traced(job[c].trace, name, o.ok)
           results == Append(job[c].results, Len(trace))
           kept    == IF calls = <<>> THEN <<>> ELSE results
           all     == IF label = "persist" THEN <<>>
                      ELSE Answered(job[c].messages, results, calls)
           effects == IF o.done
                        THEN job[c].effects \cup { [ at |-> Len(trace), name |-> name ] }
                        ELSE job[c].effects
           stop    == IF label = "persist" THEN "max_turns" ELSE job[c].stop
           j == [ job[c] EXCEPT !.calls = calls, !.turn = turn, !.trace = trace,
                                !.results = kept, !.messages = all,
                                !.effects = effects, !.stop = stop ]
<1>3. pc[c] = "tools" /\ job[c].turn < MAX_TURNS /\ job[c].text # Retraction
      /\ job[c].calls # <<>> /\ TraceTrue(job[c])
      /\ Len(job[c].text) <= Len(job[c].trace) + Len(job[c].calls)
  BY JobFields DEF CallTools, LoopInv
<1>4. job' = [ job EXCEPT ![c] = j ] /\ pc' = [ pc EXCEPT ![c] = label ]
  <2>1. /\ job' = [ job EXCEPT
                      ![c].calls = calls,
                      ![c].turn  = turn,
                      ![c].trace = trace,
                      ![c].results = kept,
                      ![c].messages = all,
                      ![c].effects = effects,
                      ![c].stop  = stop ]
        /\ pc' = [ pc EXCEPT ![c] = label ]
    BY <1>2 DEF CallTool, Goto
  <2>2. job \in [ Chats -> Job ]
    BY DEF ChatInv, TypeOK
  <2> HIDE DEF calls, turn, trace, kept, all, effects, stop, label
  <2> QED  BY <2>1, <2>2
<1>5. name \in Tools /\ calls \in Seq(Tools) /\ Len(job[c].calls) = Len(calls) + 1
  BY <1>3, JobFields DEF Job
<1>6. turn \in 0 .. MAX_TURNS
  <2>1. job[c] \in Job
    BY JobFields
  <2>2. job[c].turn \in 0 .. MAX_TURNS
    BY <2>1 DEF Job
  <2> DEFINE more == IF calls = <<>> THEN 1 ELSE 0
  <2>3. more \in { 0, 1 }
    OBVIOUS
  <2> HIDE DEF more
  <2>4. job[c].turn + more \in 0 .. MAX_TURNS
    BY <1>3, <2>2, <2>3, ChatAssumption
  <2> QED  BY <2>4 DEF more
<1>7. /\ label \in { "tools", "turn", "persist" }
      /\ label = "tools" <=> calls # <<>>
      /\ label # "persist" => turn < MAX_TURNS
  <2>1. job[c].turn \in Nat /\ MAX_TURNS \in Nat
    BY JobFields, ChatAssumption DEF Job
  <2>2. calls # <<>> => turn = job[c].turn
    <3> HIDE DEF calls
    <3> QED  BY <2>1
  <2> HIDE DEF calls, turn
  <2>6. turn \in Nat /\ turn <= MAX_TURNS
    BY <1>6, <2>1
  <2>3. CASE calls # <<>>
    <3>1. turn < MAX_TURNS
      BY <1>3, <2>2, <2>3
    <3>2. label = "tools"
      BY <2>1, <2>3, <2>6, <3>1 DEF NextLabel
    <3> QED  BY <2>3, <3>1, <3>2
  <2>4. CASE calls = <<>> /\ turn = MAX_TURNS
    <3>1. label = "persist"
      BY <2>4 DEF NextLabel
    <3> QED  BY <2>4, <3>1
  <2>5. CASE calls = <<>> /\ turn # MAX_TURNS
    <3>1. label = "turn"
      BY <2>5 DEF NextLabel
    <3> QED  BY <2>1, <2>5, <2>6, <3>1
  <2> QED  BY <2>3, <2>4, <2>5
<1>8. /\ trace \in Seq(ToolTrace) /\ effects \in SUBSET Effect /\ Len(trace) \in Nat
      /\ TraceTrue([ trace |-> trace, effects |-> effects ])
  <2>1. job[c].trace \in Seq(ToolTrace) /\ job[c].effects \in SUBSET Effect
    BY JobFields DEF Job
  <2>2. TraceTrue([ trace |-> job[c].trace, effects |-> job[c].effects ])
    BY <1>3 DEF TraceTrue
  <2> QED  BY <1>5, <2>1, <2>2, TracedTrue
<1>16. Len(trace) = Len(job[c].trace) + 1
  <2>1. job[c].trace \in Seq(ToolTrace) /\ [ name |-> name, ok |-> o.ok ] \in ToolTrace
    BY <1>5, OutcomeFacts, JobFields DEF Job, ToolTrace
  <2> QED  BY <2>1, AppendProperties DEF Traced
<1> HIDE DEF trace, effects, label, turn, calls, name
<1>9. results \in Seq(Nat) /\ kept \in Seq(Nat)
  BY <1>8, JobFields DEF Job
<1> HIDE DEF results
<1>10. all \in Seq(Message(Spoken))
  BY <1>9, ResultsType, JobFields DEF Answered, Job
<1>11. stop \in { "none", "end_turn", "max_turns" } /\ (label = "persist" => stop = "max_turns")
  BY JobFields DEF Job
<1> HIDE DEF kept, all, stop
<1>12. /\ j \in Job /\ j.turn = turn /\ j.text = job[c].text /\ j.calls = calls
       /\ j.trace = trace /\ j.effects = effects /\ j.stop = stop
  BY <1>5, <1>6, <1>8, <1>9, <1>10, <1>11, JobFields DEF Job
<1> HIDE DEF j
<1>13. TraceTrue(j)
  BY <1>8, <1>12 DEF TraceTrue
<1>14. Len(j.text) <= Len(j.trace) + Len(j.calls)
  <2>1. Len(job[c].trace) \in Nat /\ Len(calls) \in Nat /\ Len(job[c].text) \in Nat
    <3>1. job[c].text \in Seq(TurnText) /\ job[c].trace \in Seq(ToolTrace)
      BY <1>3, JobFields DEF Job
    <3> QED  BY <1>5, <3>1
  <2>2. Len(job[c].text) <= Len(trace) + Len(calls)
    <3>1. PICK x \in Nat, y \in Nat, z \in Nat :
             x = Len(job[c].text) /\ y = Len(job[c].trace) /\ z = Len(calls)
      BY <2>1
    <3>2. x <= y + (z + 1)
      BY <1>3, <1>5, <3>1
    <3>3. x <= (y + 1) + z
      BY <3>2
    <3> QED  BY <1>16, <3>1, <3>3
  <2> QED  BY <1>12, <2>2
<1>15. label = "persist" => j.stop # "none" /\ GuardHolds(j)
  <2> SUFFICES ASSUME label = "persist"  PROVE  j.stop # "none" /\ GuardHolds(j)
    OBVIOUS
  <2>1. j.stop = "max_turns" /\ calls = <<>> /\ j.text # Retraction
    BY <1>3, <1>7, <1>11, <1>12
  <2>2. Len(j.trace) \in Nat /\ Len(j.text) \in Nat /\ Len(calls) = 0
    BY <1>3, <1>8, <1>12, <2>1, JobFields DEF Job
  <2>3. Len(j.trace) >= Len(j.text)
    BY <1>12, <1>14, <2>2
  <2> QED  BY <2>1, <2>3 DEF GuardHolds
<1> QED  BY <1>1, <1>3, <1>4, <1>7, <1>12, <1>13, <1>14, <1>15, ChatStep

(* The reply that is saved is what the loop ended with.                    *)
LEMMA ReplyFacts ==
  ASSUME ChatInv, NEW c \in Chats, pc[c] = "persist"
  PROVE  /\ AssistantTurn(c) \in Row
         /\ GuardHolds(AssistantTurn(c)) /\ TraceTrue(AssistantTurn(c))
<1>1. job[c] \in Job /\ GuardHolds(job[c]) /\ TraceTrue(job[c]) /\ job[c].stop # "none"
  BY JobFields DEF LoopInv
<1>2. AssistantTurn(c) \in Row
  BY <1>1 DEF AssistantTurn, Row, Speakers, Job
<1> QED  BY <1>1, <1>2 DEF AssistantTurn, GuardHolds, TraceTrue

LEMMA PersistInv ==
  ASSUME ChatInv, NEW c \in Chats, Persist(c) \/ Leave(c)  PROVE  ChatInv'
<1>1. history' \in Seq(Row) /\ GuardKeepsItsWord' /\ TraceIsTrue'
  BY SameRows, AppendRow, ReplyFacts DEF Persist, Leave
<1> QED  BY <1>1, EndInv DEF Persist, Leave

LEMMA ClearHistoryInv ==
  ASSUME ChatInv, ClearHistory  PROVE  ChatInv'
<1>1. history' \in Seq(Row) /\ Replies' = {}
  BY DEF ClearHistory, Replies, ToSet
<1> QED  BY <1>1 DEF ClearHistory, ChatInv, TypeOK, LoopInv, GuardKeepsItsWord,
                     TraceIsTrue

-----------------------------------------------------------------------------
LEMMA InitChat == Init => ChatInv
<1> SUFFICES ASSUME Init PROVE ChatInv
  OBVIOUS
<1>1. TypeOK
  BY ChatAssumption, NewJobFacts DEF Init, TypeOK
<1>2. \A c \in Chats : LoopInv(c)
  BY NewJobFacts DEF Init, LoopInv
<1>3. GuardKeepsItsWord /\ TraceIsTrue
  BY ChatAssumption DEF Init, GuardKeepsItsWord, TraceIsTrue, Replies
<1> QED  BY <1>1, <1>2, <1>3 DEF ChatInv

LEMMA NextChat == ChatInv /\ [Next]_vars => ChatInv'
<1> SUFFICES ASSUME ChatInv, [Next]_vars PROVE ChatInv'
  OBVIOUS
<1>1. CASE UNCHANGED vars
  BY <1>1 DEF vars, ChatInv, TypeOK, LoopInv, GuardKeepsItsWord, TraceIsTrue, Replies
<1>2. CASE ClearHistory
  BY <1>2, ClearHistoryInv
<1>3. ASSUME NEW c \in Chats, SaveUserTurn(c) \/ Step(c) \/ Leave(c)
      PROVE  ChatInv'
  BY <1>3, SaveUserTurnInv, ListHistoryInv, ProviderInv, PutBackInv, EndTurnInv,
     ToolTurnInv, CallToolsInv, PersistInv DEF Step
<1> QED  BY <1>1, <1>2, <1>3 DEF Next

THEOREM ChatInvariant == Spec => []ChatInv
BY InitChat, NextChat, PTL DEF Spec

(* Every variable of the chats keeps its type.                             *)
THEOREM ChatTypeOK == Spec => []TypeOK
<1>1. ChatInv => TypeOK
  BY DEF ChatInv
<1> QED  BY ChatInvariant, <1>1, PTL

(* The reply the guard puts in the place of another denies no write that   *)
(* was done, and a reply that ends in a claim no write backs has run out of*)
(* turns with a tool called for each of its texts, however often the guard *)
(* puts a text back and however many chats run at once                     *)
(* (src/core/llm/chat_agent.rs, stream_chat_agent).                        *)
THEOREM ChatGuardKeepsItsWord == Spec => []GuardKeepsItsWord
<1>1. ChatInv => GuardKeepsItsWord
  BY DEF ChatInv
<1> QED  BY ChatInvariant, <1>1, PTL

(* The trace of a saved reply is true of the writes the chat did.          *)
THEOREM ChatTracesAreTrue == Spec => []TraceIsTrue
<1>1. ChatInv => TraceIsTrue
  BY DEF ChatInv
<1> QED  BY ChatInvariant, <1>1, PTL

-----------------------------------------------------------------------------
(***************************************************************************)
(* The conversation a request carries.  Of the rows it matters what they   *)
(* are between the message and the read: the past or, once cleared,        *)
(* nothing, and then the message if it was saved.                          *)
(***************************************************************************)
EndOf(P, n) == [ i \in 1 .. n |-> P[Len(P) - n + i] ]

Opening(c, n) ==
  [ i \in 1 .. n |-> Said(Past[Len(Past) - n + i]) ] \o << UserMessage(<< Text(c) >>) >>

RowsBefore(c) ==
  /\ pc[c] = "idle" => history \in {Past, <<>>}
  /\ pc[c] = "list" => \E P \in {Past, <<>>} : history \in { P, Append(P, UserTurn(c)) }

Whole(c) ==
  pc[c] \in { "turn", "stream", "tools" } =>
    \E n \in 0 .. Len(Past) : IsPrefix(Opening(c, n), job[c].messages)

WholeInv == \A c \in Chats : RowsBefore(c) /\ Whole(c)

LEMMA PrefixGrows ==
  ASSUME NEW S, NEW s \in Seq(S), NEW t \in Seq(S), NEW u \in Seq(S), IsPrefix(s, t)
  PROVE  IsPrefix(s, t \o u)
<1>1. Len(s) <= Len(t) /\ SubSeq(s, 1, Len(s)) = SubSeq(t, 1, Len(s)) /\ Len(s) \in Nat
  BY DEF IsPrefix
<1>2. Len(t \o u) = Len(t) + Len(u) /\ Len(t) \in Nat /\ Len(u) \in Nat
  BY ConcatProperties
<1>3. SubSeq(t \o u, 1, Len(s)) = SubSeq(t, 1, Len(s))
  <2>1. CASE Len(s) = 0
    BY <2>1, SubSeqEmpty
  <2>2. CASE Len(s) # 0
    BY <1>1, <1>2, <2>2, SubSeqOfConcat1
  <2> QED  BY <2>1, <2>2
<1> QED  BY <1>1, <1>2, <1>3 DEF IsPrefix

LEMMA EndsOfRows ==
  ASSUME NEW P \in Seq(Row), NEW limit \in Nat
  PROVE  \E n \in 0 .. Len(P) :
            /\ ListForUser(P, limit) = EndOf(P, n)
            /\ limit # 0 /\ P # <<>> => n # 0
<1> DEFINE n == IF Len(P) > limit THEN limit ELSE Len(P)
           m == IF Len(P) > limit THEN Len(P) - limit + 1 ELSE 1
<1>1. Len(P) \in Nat /\ n \in 0 .. Len(P) /\ m \in Int /\ m = Len(P) - n + 1 /\ m >= 1
  OBVIOUS
<1>2. ListForUser(P, limit) = SubSeq(P, m, Len(P))
  BY DEF ListForUser
<1>3. \A i \in m .. Len(P) : P[i] \in Row
  BY <1>1
<1>4. limit # 0 /\ P # <<>> => n # 0
  OBVIOUS
<1> HIDE DEF n, m
<1>5. /\ SubSeq(P, m, Len(P)) \in Seq(Row)
      /\ Len(SubSeq(P, m, Len(P))) = n
      /\ \A i \in 1 .. n : SubSeq(P, m, Len(P))[i] = P[Len(P) - n + i]
  BY <1>1, <1>3, SubSeqProperties
<1>6. EndOf(P, n) \in Seq(Row) /\ Len(EndOf(P, n)) = n
      /\ \A i \in 1 .. n : EndOf(P, n)[i] = P[Len(P) - n + i]
  <2>1. \A i \in 1 .. n : P[Len(P) - n + i] \in Row
    BY <1>1
  <2> QED  BY <1>1, <2>1 DEF EndOf
<1>7. SubSeq(P, m, Len(P)) = EndOf(P, n)
  <2> DEFINE s == SubSeq(P, m, Len(P))
             t == EndOf(P, n)
  <2>1. s \in Seq(Row) /\ t \in Seq(Row) /\ Len(s) = Len(t)
        /\ \A i \in 1 .. Len(s) : s[i] = t[i]
    BY <1>5, <1>6
  <2>2. s = t
    <3> HIDE DEF s, t
    <3> QED  BY <2>1, SeqEqual
  <2> QED  BY <2>2
<1> QED  BY <1>1, <1>2, <1>4, <1>7

(* What is left of the rows once the message is taken off.                 *)
Unsaid(P, c) == \A i \in 1 .. Len(P) : P[i] # UserTurn(c)

LEMMA RowsListed ==
  ASSUME NEW c \in Chats, NEW P \in Seq(Row), Unsaid(P, c),
         NEW h \in { P, Append(P, UserTurn(c)) }, NEW limit \in Nat \ {0}
  PROVE  \E n \in 0 .. Len(P) : Before(ListForUser(h, limit), c) = EndOf(P, n)
<1> USE DEF Unsaid
<1>1. CASE h = P
  <2>1. PICK n \in 0 .. Len(P) : ListForUser(P, limit) = EndOf(P, n)
    BY EndsOfRows
  <2>2. CASE n = 0
    <3>1. EndOf(P, n) = <<>>
      BY <2>2 DEF EndOf
    <3> QED  BY <1>1, <2>1, <3>1 DEF Before
  <2>3. CASE n # 0
    <3>1. EndOf(P, n) \in Seq(Row) /\ Len(EndOf(P, n)) = n /\ EndOf(P, n)[n] = P[Len(P)]
      BY <2>3 DEF EndOf
    <3>2. Last(EndOf(P, n)) # UserTurn(c)
      BY <2>3, <3>1 DEF Last
    <3> QED  BY <1>1, <2>1, <3>2 DEF Before
  <2> QED  BY <2>2, <2>3
<1>2. CASE h = Append(P, UserTurn(c))
  <2>1. UserTurn(c) \in Row
    BY DEF UserTurn, Row, Speakers
  <2>2. /\ h \in Seq(Row) /\ h # <<>> /\ Len(h) = Len(P) + 1 /\ Len(P) \in Nat
        /\ h[Len(P) + 1] = UserTurn(c) /\ \A i \in 1 .. Len(P) : h[i] = P[i]
    BY <1>2, <2>1, AppendProperties
  <2>3. PICK n \in 0 .. Len(h) : ListForUser(h, limit) = EndOf(h, n) /\ n # 0
    BY <2>2, EndsOfRows
  <2>4. /\ EndOf(h, n) \in Seq(Row) /\ Len(EndOf(h, n)) = n /\ EndOf(h, n) # <<>>
        /\ \A i \in 1 .. n : EndOf(h, n)[i] = h[Len(h) - n + i]
    BY <2>2, <2>3 DEF EndOf
  <2>5. Last(EndOf(h, n)) = UserTurn(c)
    BY <2>2, <2>3, <2>4 DEF Last
  <2>6. Before(EndOf(h, n), c) = SubSeq(EndOf(h, n), 1, n - 1)
    BY <2>4, <2>5 DEF Before, Front
  <2>7. SubSeq(EndOf(h, n), 1, n - 1) = EndOf(P, n - 1)
    <3>1. /\ SubSeq(EndOf(h, n), 1, n - 1) \in Seq(Row)
          /\ Len(SubSeq(EndOf(h, n), 1, n - 1)) = n - 1
          /\ \A i \in 1 .. n - 1 : SubSeq(EndOf(h, n), 1, n - 1)[i] = EndOf(h, n)[i]
      <4>1. \A i \in 1 .. n - 1 : EndOf(h, n)[i] \in Row
        BY <2>3, <2>4
      <4>2. 1 \in Int /\ n - 1 \in Int /\ (1 <= n - 1 \/ n - 1 = 0)
        BY <2>3
      <4> HIDE DEF EndOf
      <4> QED  BY <4>1, <4>2, SubSeqProperties
    <3>2. \A i \in 1 .. n - 1 : EndOf(h, n)[i] = P[Len(P) - (n - 1) + i]
      <4> HIDE DEF EndOf
      <4> TAKE i \in 1 .. n - 1
      <4>1. i \in 1 .. n /\ Len(h) - n + i = Len(P) - (n - 1) + i
            /\ Len(P) - (n - 1) + i \in 1 .. Len(P)
        BY <2>2, <2>3
      <4>2. EndOf(h, n)[i] = h[Len(P) - (n - 1) + i]
        BY <2>4, <4>1
      <4> QED  BY <2>2, <4>1, <4>2
    <3>3. EndOf(P, n - 1) \in Seq(Row) /\ Len(EndOf(P, n - 1)) = n - 1
          /\ \A i \in 1 .. n - 1 : EndOf(P, n - 1)[i] = P[Len(P) - (n - 1) + i]
      <4>1. \A i \in 1 .. n - 1 : P[Len(P) - (n - 1) + i] \in Row
        BY <2>2, <2>3
      <4>2. n - 1 \in Nat
        BY <2>3
      <4> QED  BY <4>1, <4>2 DEF EndOf
    <3> DEFINE s == SubSeq(EndOf(h, n), 1, n - 1)
               t == EndOf(P, n - 1)
    <3>4. /\ s \in Seq(Row) /\ t \in Seq(Row) /\ Len(s) = Len(t)
          /\ \A i \in 1 .. Len(s) : s[i] = t[i]
      BY <3>1, <3>2, <3>3
    <3> HIDE DEF s, t
    <3>5. s = t
      BY <3>4
    <3> QED  BY <3>5 DEF s, t
  <2>8. n - 1 \in 0 .. Len(P)
    BY <2>2, <2>3
  <2> QED  BY <1>2, <2>3, <2>6, <2>7, <2>8
<1> QED  BY <1>1, <1>2

LEMMA OpeningType ==
  ASSUME NEW c \in Chats, NEW n \in 0 .. Len(Past)
  PROVE  Opening(c, n) \in Seq(Message(Spoken))
<1> DEFINE said == [ i \in 1 .. n |-> Said(Past[Len(Past) - n + i]) ]
<1>1. \A i \in 1 .. n : Past[Len(Past) - n + i] \in Row
  BY ChatAssumption
<1>2. \A i \in 1 .. n : Said(Past[Len(Past) - n + i]) \in Message(Spoken)
  BY <1>1, SaidType
<1>3. said \in Seq(Message(Spoken))
  <2>1. said \in [ 1 .. n -> Message(Spoken) ]
    BY <1>2
  <2>2. n \in Nat
    OBVIOUS
  <2> QED  BY <2>1, <2>2, SeqDef
<1>4. << UserMessage(<< Text(c) >>) >> \in Seq(Message(Spoken))
  BY TextTypes DEF Speakers
<1> HIDE DEF said
<1>5. said \o << UserMessage(<< Text(c) >>) >> \in Seq(Message(Spoken))
  BY <1>3, <1>4
<1> QED  BY <1>5 DEF Opening, said

(* What is listed and the message make an opening.                         *)
LEMMA Opens ==
  ASSUME NEW c \in Chats, NEW P \in {Past, <<>>}, NEW n \in 0 .. Len(P)
  PROVE  LET rows == EndOf(P, n)
         IN  /\ n \in 0 .. Len(Past)
             /\ Append([ i \in DOMAIN rows |-> Said(rows[i]) ],
                       UserMessage(<< Text(c) >>)) = Opening(c, n)
<1> DEFINE said == [ i \in 1 .. n |-> Said(Past[Len(Past) - n + i]) ]
<1>1. Past \in Seq(Row)
  BY ChatAssumption
<1>2. n \in 0 .. Len(Past) /\ n \in Nat
  BY <1>1
<1>3. DOMAIN EndOf(P, n) = 1 .. n
  BY DEF EndOf
<1>4. [ i \in DOMAIN EndOf(P, n) |-> Said(EndOf(P, n)[i]) ] = said
  <2>1. CASE P = Past
    BY <1>3, <2>1 DEF EndOf
  <2>2. CASE P = <<>>
    <3>1. n = 0
      BY <2>2
    <3>2. DOMAIN EndOf(P, n) = {} /\ 1 .. n = {}
      BY <1>3, <3>1
    <3> QED  BY <3>2
  <2> QED  BY <2>1, <2>2
<1>5. said \in Seq(Message(Spoken))
  <2>1. \A i \in 1 .. n : Past[Len(Past) - n + i] \in Row
    BY <1>1, <1>2
  <2>2. said \in [ 1 .. n -> Message(Spoken) ]
    BY <2>1, SaidType
  <2> QED  BY <1>2, <2>2, SeqDef
<1>6. UserMessage(<< Text(c) >>) \in Message(Spoken)
  BY TextTypes DEF Speakers
<1> HIDE DEF said
<1>7. Append(said, UserMessage(<< Text(c) >>)) = said \o << UserMessage(<< Text(c) >>) >>
  BY <1>5, <1>6, AppendIsConcat
<1> QED  BY <1>2, <1>4, <1>7 DEF Opening, said

(* More messages after an opening leave it one.                            *)
LEMMA WholeGrows ==
  ASSUME ChatInv, NEW c \in Chats, Whole(c), pc[c] \in { "turn", "stream", "tools" },
         NEW u \in Seq(Message(Spoken)), job'[c].messages = job[c].messages \o u
  PROVE  Whole(c)'
<1>1. PICK n \in 0 .. Len(Past) : IsPrefix(Opening(c, n), job[c].messages)
  BY DEF Whole
<1>2. job[c].messages \in Seq(Message(Spoken))
  BY JobFields DEF Job
<1>3. Opening(c, n)' = Opening(c, n)
  OBVIOUS
<1>4. IsPrefix(Opening(c, n), job[c].messages \o u)
  BY <1>1, <1>2, OpeningType, PrefixGrows
<1> QED  BY <1>3, <1>4 DEF Whole

LEMMA WholeKept ==
  ASSUME ChatInv, NEW c \in Chats, Whole(c), pc[c] \in { "turn", "stream", "tools" },
         job'[c].messages = job[c].messages
  PROVE  Whole(c)'
BY DEF Whole

LEMMA SaveUserTurnWhole ==
  ASSUME ChatInv, NEW c \in Chats, RowsBefore(c), SaveUserTurn(c)
  PROVE  RowsBefore(c)' /\ Whole(c)'
<1>1. pc'[c] = "list" /\ pc[c] = "idle"
  BY DEF SaveUserTurn, Goto, ChatInv, TypeOK
<1>2. \E P \in {Past, <<>>} : history' \in { P, Append(P, UserTurn(c)) }
  BY <1>1 DEF RowsBefore, SaveUserTurn
<1>3. UserTurn(c)' = UserTurn(c)
  BY DEF UserTurn
<1> QED  BY <1>1, <1>2, <1>3 DEF RowsBefore, Whole

LEMMA ListHistoryWhole ==
  ASSUME ChatInv, NEW c \in Chats, RowsBefore(c), ListHistory(c),
         \A r \in ToSet(Past) : r.by \notin Chats
  PROVE  RowsBefore(c)' /\ Whole(c)'
<1>1. CASE End(c, "gone")
  <2>1. pc'[c] = "gone"
    BY <1>1 DEF End, Goto, ChatInv, TypeOK
  <2> QED  BY <2>1 DEF RowsBefore, Whole
<1>2. CASE ~End(c, "gone")
  <2> DEFINE rows == Before(ListForUser(history, DEFAULT_HISTORY_LIMIT), c)
             all  == Append([ i \in DOMAIN rows |-> Said(rows[i]) ],
                            UserMessage(<< Text(c) >>))
  <2>1. PICK P \in {Past, <<>>} : history \in { P, Append(P, UserTurn(c)) }
    BY DEF RowsBefore, ListHistory
  <2>2. P \in Seq(Row) /\ Unsaid(P, c)
    <3>1. Past \in Seq(Row) /\ \A i \in 1 .. Len(Past) : Past[i] \in ToSet(Past)
      BY ChatAssumption DEF ToSet
    <3>2. UserTurn(c).by = c
      BY DEF UserTurn
    <3>3. CASE P = Past
      BY <3>1, <3>2, <3>3 DEF Unsaid
    <3>4. CASE P = <<>>
      BY <3>4 DEF Unsaid
    <3> QED  BY <3>3, <3>4
  <2>3. PICK n \in 0 .. Len(P) : rows = EndOf(P, n)
    <3>1. DEFAULT_HISTORY_LIMIT \in Nat \ {0}
      BY ChatAssumption
    <3>2. P \in Seq(Row)
      BY <2>2
    <3>3. Unsaid(P, c)
      BY <2>2
    <3>4. \A h \in { P, Append(P, UserTurn(c)) }, limit \in Nat \ {0} :
             \E n \in 0 .. Len(P) : Before(ListForUser(h, limit), c) = EndOf(P, n)
      BY <3>2, <3>3, RowsListed
    <3> QED  BY <2>1, <3>1, <3>4, Zenon
  <2>4. n \in 0 .. Len(Past) /\ all = Opening(c, n)
    BY <2>3, Opens
  <2>5. pc'[c] = "turn" /\ job'[c].messages = all
    <3>1. job' = [ job EXCEPT ![c].messages = all ] /\ Goto(c, "turn")
      BY <1>2 DEF ListHistory
    <3> HIDE DEF all
    <3> QED  BY <3>1 DEF Goto, ChatInv, TypeOK, Job
  <2>6. all \in Seq(Message(Spoken))
    BY <2>4, OpeningType
  <2> HIDE DEF all
  <2>7. IsPrefix(Opening(c, n), all)
    <3>1. Len(all) \in Nat /\ SubSeq(all, 1, Len(all)) = SubSeq(all, 1, Len(all))
      BY <2>6
    <3> QED  BY <2>4, <3>1 DEF IsPrefix
  <2>8. Opening(c, n)' = Opening(c, n)
    OBVIOUS
  <2> QED  BY <2>4, <2>5, <2>7, <2>8 DEF RowsBefore, Whole
<1> QED  BY <1>1, <1>2

(* The turns of the loop only add messages.                                *)
LEMMA TurnsWhole ==
  ASSUME ChatInv, NEW c \in Chats, Whole(c), NEW said \in Answers,
         PutBack(c, said) \/ EndTurn(c, said) \/ ToolTurn(c, said)
  PROVE  RowsBefore(c)' /\ Whole(c)'
<1>1. said.text \in TurnText /\ said.thinks \in BOOLEAN /\ said.calls \in Seq(Tools)
  BY ChatAssumption DEF Turn
<1>2. /\ job[c].trace \in Seq(ToolTrace) /\ job[c].messages \in Seq(Message(Spoken))
      /\ job \in [ Chats -> Job ] /\ pc[c] = "stream"
  BY JobFields DEF ChatInv, TypeOK, Job, PutBack, EndTurn, ToolTurn
<1>3. CASE PutBack(c, said)
  <2> DEFINE u == << AssistantMessage(<< Text(said.text) >>),
                     UserMessage(<< Text("corrective") >>) >>
  <2>1. u \in Seq(Message(Spoken))
    BY <1>1, TextTypes
  <2>2. job'[c].messages = job[c].messages \o u /\ pc'[c] = "turn"
    BY <1>2, <1>3 DEF PutBack, Goto, Job, ChatInv, TypeOK
  <2> HIDE DEF u
  <2> QED  BY <1>2, <2>1, <2>2, WholeGrows DEF RowsBefore
<1>4. CASE EndTurn(c, said)
  <2>1. pc'[c] = "persist"
    BY <1>4 DEF EndTurn, Goto, ChatInv, TypeOK
  <2> QED  BY <2>1 DEF RowsBefore, Whole
<1>5. CASE ToolTurn(c, said)
  <2> DEFINE ids == CallIds(job[c].trace, said.calls)
             m   == ToolTurnMessage(said.text, said.thinks, ids)
  <2>1. ids \in Seq(Nat)
    <3>1. ids \in [ DOMAIN said.calls -> Nat ]
      BY <1>1, <1>2 DEF CallIds
    <3> QED  BY <1>1, <3>1, MapSeq
  <2>2. job'[c].messages = Append(job[c].messages, m) /\ pc'[c] = "tools"
    BY <1>2, <1>5 DEF ToolTurn, Goto, Job, ChatInv, TypeOK
  <2> HIDE DEF ids
  <2>3. m \in Message(Spoken)
    <3>1. said.text \in Spoken /\ said.thinks \in BOOLEAN
      BY <1>1, TextTypes
    <3> QED  BY <2>1, <3>1, ToolTurnType
  <2> HIDE DEF m
  <2>4. << m >> \in Seq(Message(Spoken)) /\ Append(job[c].messages, m) = job[c].messages \o << m >>
    BY <1>2, <2>3, AppendIsConcat
  <2> QED  BY <1>2, <2>2, <2>4, WholeGrows DEF RowsBefore
<1> QED  BY <1>3, <1>4, <1>5

LEMMA CallToolsWhole ==
  ASSUME ChatInv, NEW c \in Chats, Whole(c), CallTools(c)
  PROVE  RowsBefore(c)' /\ Whole(c)'
<1> DEFINE calls == Tail(job[c].calls)
           turn  == job[c].turn + (IF calls = <<>> THEN 1 ELSE 0)
           label == NextLabel(calls, turn)
<1>1. PICK o \in Outcomes(Head(job[c].calls)) : CallTool(c, o)
  BY DEF CallTools
<1> DEFINE trace   == Traced(job[c].trace, Head(job[c].calls), o.ok)
           results == Append(job[c].results, Len(trace))
<1>2. /\ pc[c] = "tools" /\ job[c].calls # <<>> /\ job[c].calls \in Seq(Tools)
      /\ job[c].trace \in Seq(ToolTrace) /\ job[c].results \in Seq(Nat)
      /\ job[c].messages \in Seq(Message(Spoken)) /\ job \in [ Chats -> Job ]
  BY JobFields DEF CallTools, LoopInv, Job, ChatInv, TypeOK
<1>3. results \in Seq(Nat)
  <2>1. Head(job[c].calls) \in Tools /\ o.ok \in BOOLEAN
    <3>1. Head(job[c].calls) \in Tools
      BY <1>2
    <3> QED  BY <3>1, OutcomeFacts
  <2>2. trace \in Seq(ToolTrace)
    BY <1>2, <2>1 DEF Traced, ToolTrace
  <2> HIDE DEF trace
  <2>3. Len(trace) \in Nat
    BY <2>2
  <2> QED  BY <1>2, <2>3
<1>4. pc'[c] = label /\ label \in { "tools", "turn", "persist" }
  BY <1>1 DEF CallTool, Goto, NextLabel, ChatInv, TypeOK
<1>5. label # "persist" =>
        job'[c].messages = Answered(job[c].messages, results, calls)
  <2>1. job'[c].messages = IF label = "persist" THEN <<>>
                           ELSE Answered(job[c].messages, results, calls)
    <3> DEFINE name    == Head(job[c].calls)
               kept    == IF calls = <<>> THEN <<>> ELSE results
               all     == IF label = "persist" THEN <<>>
                          ELSE Answered(job[c].messages, results, calls)
               effects == IF o.done
                            THEN job[c].effects \cup { [ at |-> Len(trace), name |-> name ] }
                            ELSE job[c].effects
               stop    == IF label = "persist" THEN "max_turns" ELSE job[c].stop
    <3>1. job' = [ job EXCEPT
                     ![c].calls = calls,
                     ![c].turn  = turn,
                     ![c].trace = trace,
                     ![c].results = kept,
                     ![c].messages = all,
                     ![c].effects = effects,
                     ![c].stop  = stop ]
      BY <1>1 DEF CallTool
    <3>2. job[c] \in Job
      BY <1>2
    <3> HIDE DEF calls, turn, trace, kept, all, effects, stop, label
    <3>3. job'[c].messages = all
      BY <1>2, <3>1, <3>2 DEF Job
    <3> QED  BY <3>3 DEF all
  <2> QED  BY <2>1
<1> HIDE DEF label, results, calls
<1>6. CASE label = "persist"
  BY <1>4, <1>6 DEF RowsBefore, Whole
<1>7. CASE label # "persist" /\ calls = <<>>
  <2>1. ResultsMessage(results) \in Message(Spoken)
    BY <1>3, ResultsType
  <2> DEFINE m == ResultsMessage(results)
  <2> HIDE DEF m
  <2>2. job'[c].messages = Append(job[c].messages, m)
    BY <1>5, <1>7 DEF Answered, m
  <2>3. << m >> \in Seq(Message(Spoken)) /\ Append(job[c].messages, m) = job[c].messages \o << m >>
    BY <1>2, <2>1, AppendIsConcat DEF m
  <2> QED  BY <1>2, <1>4, <2>2, <2>3, WholeGrows DEF RowsBefore
<1>8. CASE label # "persist" /\ calls # <<>>
  <2>1. job'[c].messages = job[c].messages
    BY <1>5, <1>8 DEF Answered
  <2> QED  BY <1>2, <1>4, <2>1, WholeKept DEF RowsBefore
<1> QED  BY <1>6, <1>7, <1>8

LEMMA ProviderWhole ==
  ASSUME ChatInv, NEW c \in Chats, Whole(c),
         ProviderAnswers(c) \/ ProviderFails(c) \/ StreamBreaks(c)
  PROVE  RowsBefore(c)' /\ Whole(c)'
<1>1. job \in [ Chats -> Job ]
  BY DEF ChatInv, TypeOK
<1>2. CASE \E label \in { "gone", "refused" } : End(c, label)
  <2>1. pc'[c] \in { "gone", "refused" }
    BY <1>2 DEF End, Goto, ChatInv, TypeOK
  <2> QED  BY <2>1 DEF RowsBefore, Whole
<1>3. CASE ProviderAnswers(c)
  <2>1. pc[c] = "turn" /\ pc'[c] = "stream" /\ job'[c].messages = job[c].messages
    BY <1>1, <1>3 DEF ProviderAnswers, Goto, Job, ChatInv, TypeOK
  <2> QED  BY <2>1, WholeKept DEF RowsBefore
<1>4. CASE ProviderFails(c) /\ job[c].provider < Len(Providers)
  <2>1. pc[c] = "turn" /\ pc'[c] = "turn" /\ job'[c].messages = job[c].messages
    BY <1>1, <1>4 DEF ProviderFails, Job, ChatInv, TypeOK
  <2> QED  BY <2>1, WholeKept DEF RowsBefore
<1> QED  BY <1>2, <1>3, <1>4 DEF ProviderFails, StreamBreaks

LEMMA LastStepsWhole ==
  ASSUME ChatInv, NEW c \in Chats, Persist(c) \/ Leave(c)
  PROVE  RowsBefore(c)' /\ Whole(c)'
<1>1. pc'[c] \in { "done", "gone" }
  BY DEF Persist, Leave, End, Goto, ChatInv, TypeOK
<1> QED  BY <1>1 DEF RowsBefore, Whole

LEMMA ClearHistoryWhole ==
  ASSUME ChatInv, NEW c \in Chats, RowsBefore(c), Whole(c), ClearHistory
  PROVE  RowsBefore(c)' /\ Whole(c)'
<1>1. history' = <<>> /\ pc' = pc /\ job' = job
  BY DEF ClearHistory
<1>2. \E P \in {Past, <<>>} : <<>> \in { P, Append(P, UserTurn(c)) }
  OBVIOUS
<1>3. UserTurn(c)' = UserTurn(c)
  BY DEF UserTurn
<1> QED  BY <1>1, <1>2, <1>3 DEF RowsBefore, Whole

(* The conversation a request carries is the end of the past, without a    *)
(* gap, and then the message: for one chat at a time, as the rows of two   *)
(* that run together come in any order, and after a past that others left. *)
THEOREM ChatConversationIsWhole ==
  ASSUME \A c, d \in Chats : c = d, \A r \in ToSet(Past) : r.by \notin Chats
  PROVE  Spec => []ConversationIsWhole
<1>1. Init => WholeInv
  BY DEF Init, WholeInv, RowsBefore, Whole
<1>2. ChatInv /\ WholeInv /\ [Next]_vars => WholeInv'
  <2> SUFFICES ASSUME ChatInv, WholeInv, [Next]_vars, NEW c \in Chats
               PROVE  RowsBefore(c)' /\ Whole(c)'
    BY DEF WholeInv
  <2>1. RowsBefore(c) /\ Whole(c)
    BY DEF WholeInv
  <2>2. CASE UNCHANGED vars
    <3>1. UserTurn(c)' = UserTurn(c)
      BY DEF UserTurn
    <3> QED  BY <2>1, <2>2, <3>1 DEF vars, RowsBefore, Whole
  <2>3. CASE ClearHistory
    BY <2>1, <2>3, ClearHistoryWhole
  <2>4. CASE SaveUserTurn(c) \/ Step(c) \/ Leave(c)
    BY <2>1, <2>4, SaveUserTurnWhole, ListHistoryWhole, ProviderWhole, TurnsWhole,
       CallToolsWhole, LastStepsWhole DEF Step
  <2> QED  BY <2>2, <2>3, <2>4 DEF Next
<1>3. WholeInv => ConversationIsWhole
  BY DEF WholeInv, Whole, Opening, ConversationIsWhole
<1> QED  BY <1>1, <1>2, <1>3, ChatInvariant, PTL DEF Spec

-----------------------------------------------------------------------------
(***************************************************************************)
(* The inductive invariant of the strategy agent.  What is attested, and   *)
(* what is sent and not landed, is on the account, whatever was lost: no   *)
(* mint overdraws it.  As long as nothing is lost and no request has       *)
(* failed, an attestation is no longer open just when a trace says that it *)
(* was minted, and the balances are what the traces add up to.             *)
(***************************************************************************)
CallingInv(r) ==
  /\ spc[r] \in { "idle", "turn", "tools", "built" } => sjob[r].turn < STRATEGY_TURNS
  /\ spc[r] \in { "tools", "built" } => sjob[r].calls # <<>>
  /\ spc[r] = "built" => Head(sjob[r].calls).name \in UserOps
  /\ sjob[r].held \subseteq DOMAIN attested
  /\ \A i \in DOMAIN sjob[r].calls :
       sjob[r].calls[i].name = "mint_on_destination"
         => sjob[r].calls[i].arg \in sjob[r].held \cup {0}
  /\ \A i \in DOMAIN sjob[r].trace :
       sjob[r].trace[i].ok /\ sjob[r].trace[i].call.name = "mint_on_destination"
         => sjob[r].trace[i].call.arg \in DOMAIN attested

Standing(state) == { i \in DOMAIN attested : attested[i].state = state }

AttestedIsThere ==
  /\ funds["arb_attested"] = SumOver(AmountOf, Standing("open"))
  /\ funds["arb_minting"]  = SumOver(AmountOf, Standing("sent"))

Told == ~lost /\ \A r \in Requests : spc[r] # "failed"

MintsAreTold == Minted = DOMAIN attested \ Standing("open")

Balanced ==
  /\ funds[ArcIdle] = Endowment - Reported["deposit_to_gateway"]
  /\ funds["arc_escrow"] + funds["fees"]
       = Reported["deposit_to_gateway"] - Reported["burn_intent_to_attestation"]
  /\ funds["arb_attested"]
       = Reported["burn_intent_to_attestation"] - Reported["mint_on_destination"]
  /\ funds["arb_minting"] + funds[ArbIdle]
       = Reported["mint_on_destination"] + Reported["withdraw_aave"]
         - Reported["supply_aave"]
  /\ funds[ArbAave] = Reported["supply_aave"] - Reported["withdraw_aave"]

StrategyInv ==
  /\ StrategyTypeOK
  /\ \A r \in Requests : CallingInv(r)
  /\ AttestedIsThere
  /\ Told => MintsAreTold /\ Balanced

-----------------------------------------------------------------------------
StrategySpoken == { "request", "plain", NoText }

LEMMA StrategyJobFields ==
  ASSUME StrategyTypeOK, NEW r \in Requests
  PROVE  /\ sjob[r] \in StrategyJob
         /\ spc[r] \in { "idle", "turn", "tools", "built", "answered", "failed" }
BY DEF StrategyTypeOK

LEMMA NewStrategyJobType ==
  /\ NewStrategyJob \in StrategyJob
  /\ NewStrategyJob.turn < STRATEGY_TURNS
  /\ NewStrategyJob.calls = <<>> /\ NewStrategyJob.trace = <<>>
  /\ NewStrategyJob.held = {}
<1>1. 0 \in 0 .. STRATEGY_TURNS /\ 0 < STRATEGY_TURNS
  BY StrategyAssumption
<1>2. UserMessage(<< Text("request") >>) \in Message({ "request", "plain", NoText })
  BY DEF UserMessage, Text, Message
<1>3. << UserMessage(<< Text("request") >>) >> \in Seq(Message({ "request", "plain", NoText }))
  BY <1>2
<1> QED  BY <1>1, <1>3 DEF NewStrategyJob, StrategyJob

(* What the end of a call does to the request that made it, whose state    *)
(* the tool may have changed before (jobs).                                *)
Ended(j, ok) == [ call |-> Head(j.calls), ok |-> ok ]

LEMMA ReturnedFacts ==
  ASSUME NEW j \in StrategyJob, j.calls # <<>>, j.turn < STRATEGY_TURNS, NEW ok \in BOOLEAN
  PROVE  LET k == Returned(j, ok)
         IN  /\ k \in StrategyJob
             /\ k.turn = (IF Tail(j.calls) = <<>> THEN j.turn + 1 ELSE j.turn)
             /\ k.calls = Tail(j.calls) /\ k.held = j.held
             /\ k.trace = Append(j.trace, Ended(j, ok))
<1> DEFINE calls    == Tail(j.calls)
           results  == Append(j.results, Len(j.trace) + 1)
           turn     == IF calls = <<>> THEN j.turn + 1 ELSE j.turn
           kept     == IF calls = <<>> THEN <<>> ELSE results
           messages == IF calls = <<>> THEN Append(j.messages, ResultsMessage(results))
                                       ELSE j.messages
           trace    == Append(j.trace, Ended(j, ok))
<1>1. calls \in Seq(Call) /\ Head(j.calls) \in Call
  BY DEF StrategyJob
<1>2. results \in Seq(Nat) /\ kept \in Seq(Nat)
  <2>1. j.results \in Seq(Nat) /\ Len(j.trace) \in Nat
    BY DEF StrategyJob
  <2> QED  BY <2>1
<1> HIDE DEF calls, results
<1>3. turn \in 0 .. STRATEGY_TURNS
  BY StrategyAssumption DEF StrategyJob
<1>4. messages \in Seq(Message(StrategySpoken))
  <2>1. j.messages \in Seq(Message(StrategySpoken))
    BY DEF StrategyJob, StrategySpoken
  <2>2. ResultsMessage(results) \in Message(StrategySpoken)
    BY <1>2, ResultsType
  <2> QED  BY <2>1, <2>2
<1>5. trace \in Seq([ call : Call, ok : BOOLEAN ])
  <2>1. Ended(j, ok) \in [ call : Call, ok : BOOLEAN ]
    BY <1>1 DEF Ended
  <2>2. j.trace \in Seq([ call : Call, ok : BOOLEAN ])
    BY DEF StrategyJob
  <2> QED  BY <2>1, <2>2
<1>6. Returned(j, ok) = [ j EXCEPT !.turn = turn, !.calls = calls, !.trace = trace,
                                   !.results = kept, !.messages = messages,
                                   !.fresh = FALSE ]
  BY DEF Returned, Ended, calls, results, StrategyJob
<1> HIDE DEF turn, kept, messages, trace
<1>7. Returned(j, ok) \in StrategyJob
  BY <1>1, <1>2, <1>3, <1>4, <1>5, <1>6 DEF StrategyJob, StrategySpoken
<1>8. /\ Returned(j, ok).turn = turn /\ Returned(j, ok).calls = calls
      /\ Returned(j, ok).trace = trace /\ Returned(j, ok).held = j.held
  BY <1>6 DEF StrategyJob
<1> QED  BY <1>7, <1>8 DEF turn, calls, trace

LEMMA ReturnFacts ==
  ASSUME StrategyTypeOK, NEW r \in Requests, NEW jobs \in [ Requests -> StrategyJob ],
         NEW ok \in BOOLEAN, jobs[r].calls # <<>>, jobs[r].turn < STRATEGY_TURNS,
         Return(r, jobs, ok)
  PROVE  /\ sjob' \in [ Requests -> StrategyJob ]
         /\ spc' \in [ Requests -> { "idle", "turn", "tools", "built", "answered", "failed" } ]
         /\ \A s \in Requests \ {r} : sjob'[s] = jobs[s] /\ spc'[s] = spc[s]
         /\ spc'[r] \in { "tools", "turn", "failed" }
         /\ spc'[r] = "failed" => sjob'[r] = NewStrategyJob
         /\ spc'[r] # "failed" =>
              /\ sjob'[r].turn < STRATEGY_TURNS
              /\ spc'[r] = "tools" => sjob'[r].calls # <<>>
              /\ sjob'[r].calls = Tail(jobs[r].calls) /\ sjob'[r].held = jobs[r].held
              /\ sjob'[r].trace = Append(jobs[r].trace, Ended(jobs[r], ok))
<1> DEFINE j == Returned(jobs[r], ok)
<1>1. /\ j \in StrategyJob
      /\ j.turn = (IF Tail(jobs[r].calls) = <<>> THEN jobs[r].turn + 1 ELSE jobs[r].turn)
      /\ j.calls = Tail(jobs[r].calls) /\ j.held = jobs[r].held
      /\ j.trace = Append(jobs[r].trace, Ended(jobs[r], ok))
  BY ReturnedFacts
<1>2. \/ /\ j.calls # <<>>
         /\ spc' = [ spc EXCEPT ![r] = "tools" ] /\ sjob' = [ jobs EXCEPT ![r] = j ]
      \/ /\ j.calls = <<>> /\ j.turn < STRATEGY_TURNS
         /\ spc' = [ spc EXCEPT ![r] = "turn" ] /\ sjob' = [ jobs EXCEPT ![r] = j ]
      \/ /\ spc' = [ spc EXCEPT ![r] = "failed" ]
         /\ sjob' = [ jobs EXCEPT ![r] = NewStrategyJob ]
  BY DEF Return, Enter
<1>3. spc \in [ Requests -> { "idle", "turn", "tools", "built", "answered", "failed" } ]
  BY DEF StrategyTypeOK
<1> HIDE DEF j
<1> QED  BY <1>1, <1>2, <1>3, NewStrategyJobType

(* A step that ends a call, whether or not it moved money.                 *)
CallEnds(r, jobs, ok) ==
  /\ spc[r] \in { "tools", "built" } /\ ok \in BOOLEAN
  /\ Return(r, jobs, ok)
  /\ jobs \in [ Requests -> StrategyJob ]
  /\ \A s \in Requests :
       /\ jobs[s].turn = sjob[s].turn /\ jobs[s].calls = sjob[s].calls
       /\ jobs[s].trace = sjob[s].trace
       /\ sjob[s].held \subseteq jobs[s].held /\ jobs[s].held \subseteq DOMAIN attested'
  /\ DOMAIN attested \subseteq DOMAIN attested'
  /\ ok /\ Head(sjob[r].calls).name = "mint_on_destination"
       => Head(sjob[r].calls).arg \in DOMAIN attested'

LEMMA CallEndsInv ==
  ASSUME StrategyInv, NEW r \in Requests, NEW jobs, NEW ok, CallEnds(r, jobs, ok)
  PROVE  /\ sjob' \in [ Requests -> StrategyJob ]
         /\ spc' \in [ Requests -> { "idle", "turn", "tools", "built", "answered", "failed" } ]
         /\ \A s \in Requests : CallingInv(s)'
<1>1. /\ jobs[r].calls # <<>> /\ jobs[r].turn < STRATEGY_TURNS
      /\ ok \in BOOLEAN /\ jobs \in [ Requests -> StrategyJob ]
  BY DEF StrategyInv, CallingInv, CallEnds
<1>2. /\ sjob' \in [ Requests -> StrategyJob ]
      /\ spc' \in [ Requests -> { "idle", "turn", "tools", "built", "answered", "failed" } ]
      /\ \A s \in Requests \ {r} : sjob'[s] = jobs[s] /\ spc'[s] = spc[s]
      /\ spc'[r] \in { "tools", "turn", "failed" }
      /\ spc'[r] = "failed" => sjob'[r] = NewStrategyJob
      /\ spc'[r] # "failed" =>
           /\ sjob'[r].turn < STRATEGY_TURNS
           /\ spc'[r] = "tools" => sjob'[r].calls # <<>>
           /\ sjob'[r].calls = Tail(jobs[r].calls) /\ sjob'[r].held = jobs[r].held
           /\ sjob'[r].trace = Append(jobs[r].trace, Ended(jobs[r], ok))
  BY <1>1, ReturnFacts DEF StrategyInv, CallEnds
<1>3. ASSUME NEW s \in Requests, s # r  PROVE  CallingInv(s)'
  <2>1. CallingInv(s) /\ sjob'[s] = jobs[s] /\ spc'[s] = spc[s]
    BY <1>2, <1>3 DEF StrategyInv
  <2>2. /\ sjob'[s].turn = sjob[s].turn /\ sjob'[s].calls = sjob[s].calls
        /\ sjob'[s].trace = sjob[s].trace
        /\ sjob[s].held \subseteq sjob'[s].held /\ sjob'[s].held \subseteq DOMAIN attested'
        /\ DOMAIN attested \subseteq DOMAIN attested'
    BY <2>1 DEF CallEnds
  <2> QED  BY <2>1, <2>2 DEF CallingInv
<1>4. CallingInv(r)'
  <2>1. CASE spc'[r] = "failed"
    BY <1>2, <2>1, NewStrategyJobType DEF CallingInv
  <2>2. CASE spc'[r] # "failed"
    <3> DEFINE c == sjob[r].calls
               t == sjob[r].trace
               e == Ended(jobs[r], ok)
    <3>1. /\ c \in Seq(Call) /\ c # <<>> /\ t \in Seq([ call : Call, ok : BOOLEAN ])
          /\ e \in [ call : Call, ok : BOOLEAN ] /\ e.ok = ok /\ e.call = Head(c)
      <4>1. sjob[r] \in StrategyJob /\ jobs[r].calls = sjob[r].calls
        BY StrategyJobFields DEF StrategyInv, CallEnds
      <4>2. c \in Seq(Call) /\ c # <<>> /\ t \in Seq([ call : Call, ok : BOOLEAN ])
        BY <1>1, <4>1 DEF StrategyJob
      <4>3. Head(c) \in Call
        BY <4>2
      <4> QED  BY <1>1, <4>1, <4>2, <4>3 DEF Ended
    <3>2. sjob'[r].calls = Tail(c) /\ sjob'[r].trace = Append(t, e)
      BY <1>2, <2>2 DEF CallEnds
    <3> HIDE DEF e
    <3>3. \A i \in DOMAIN Tail(c) : i + 1 \in DOMAIN c /\ Tail(c)[i] = c[i + 1]
      BY <3>1
    <3>4. \A i \in DOMAIN Append(t, e) : \/ i \in DOMAIN t /\ Append(t, e)[i] = t[i]
                                         \/ Append(t, e)[i] = e
      BY <3>1
    <3>5. /\ CallingInv(r) /\ sjob[r].held \subseteq sjob'[r].held
          /\ sjob'[r].held \subseteq DOMAIN attested' /\ DOMAIN attested \subseteq DOMAIN attested'
          /\ e.ok /\ e.call.name = "mint_on_destination" => e.call.arg \in DOMAIN attested'
      BY <1>2, <2>2, <3>1 DEF StrategyInv, CallEnds
    <3>6. \A i \in DOMAIN sjob'[r].calls :
            sjob'[r].calls[i].name = "mint_on_destination"
              => sjob'[r].calls[i].arg \in sjob'[r].held \cup {0}
      <4>1. \A i \in DOMAIN c : c[i].name = "mint_on_destination"
                                  => c[i].arg \in sjob[r].held \cup {0}
        BY <3>5 DEF CallingInv
      <4> HIDE DEF c
      <4> QED  BY <3>2, <3>3, <3>5, <4>1
    <3>7. \A i \in DOMAIN sjob'[r].trace :
            sjob'[r].trace[i].ok /\ sjob'[r].trace[i].call.name = "mint_on_destination"
              => sjob'[r].trace[i].call.arg \in DOMAIN attested'
      <4>1. \A i \in DOMAIN t : t[i].ok /\ t[i].call.name = "mint_on_destination"
                                  => t[i].call.arg \in DOMAIN attested
        BY <3>5 DEF CallingInv
      <4> HIDE DEF t
      <4> QED  BY <3>2, <3>4, <3>5, <4>1
    <3> QED  BY <1>2, <2>2, <3>5, <3>6, <3>7 DEF CallingInv
  <2> QED  BY <2>1, <2>2
<1> QED  BY <1>2, <1>3, <1>4

-----------------------------------------------------------------------------
(* What the traces report.                                                 *)
LEMMA InDone ==
  ASSUME NEW name, NEW d
  PROVE  d \in Done(name) <=>
           \E s \in Requests : \E k \in DOMAIN sjob[s].trace :
              /\ d = << s, k >> /\ sjob[s].trace[k].ok
              /\ sjob[s].trace[k].call.name = name
BY DEF Done

LEMMA DoneFinite ==
  ASSUME StrategyTypeOK, NEW name  PROVE  IsFiniteSet(Done(name))
<1> DEFINE Of(s) == { << s, i >> : i \in { k \in DOMAIN sjob[s].trace :
                                             /\ sjob[s].trace[k].ok
                                             /\ sjob[s].trace[k].call.name = name } }
           f == [ s \in Requests |-> Of(s) ]
           All == { Of(s) : s \in Requests }
<1>1. IsFiniteSet(All)
  <2>1. f \in Surjection(Requests, All)
    BY DEF Surjection
  <2> QED  BY <2>1, FS_Surjection, StrategyAssumption
<1>2. ASSUME NEW s \in Requests  PROVE  IsFiniteSet(Of(s))
  <2>1. Len(sjob[s].trace) \in Nat /\ DOMAIN sjob[s].trace = 1 .. Len(sjob[s].trace)
    BY StrategyJobFields DEF StrategyJob
  <2>2. IsFiniteSet(1 .. Len(sjob[s].trace))
    BY <2>1, FS_Interval
  <2>3. IsFiniteSet({s} \X (1 .. Len(sjob[s].trace)))
    BY <2>2, FS_Singleton, FS_Product
  <2>4. Of(s) \in SUBSET ({s} \X (1 .. Len(sjob[s].trace)))
    BY <2>1
  <2> QED  BY <2>3, <2>4, FS_Subset
<1>3. Done(name) = UNION All
  BY DEF Done
<1> HIDE DEF All
<1>4. \A T \in All : IsFiniteSet(T)
  BY <1>2 DEF All
<1> QED  BY <1>1, <1>3, <1>4, FS_UNION

LEMMA EntryType ==
  ASSUME StrategyTypeOK, NEW name, NEW d \in Done(name)
  PROVE  Entry(d) \in Call /\ Entry(d).arg \in Nat
<1>1. PICK s \in Requests : \E k \in DOMAIN sjob[s].trace : d = << s, k >>
  BY InDone
<1>2. PICK k \in DOMAIN sjob[s].trace : d = << s, k >>
  BY <1>1
<1>3. sjob[s].trace \in Seq([ call : Call, ok : BOOLEAN ])
  BY StrategyJobFields DEF StrategyJob
<1>4. sjob[s].trace[k] \in [ call : Call, ok : BOOLEAN ]
  BY <1>3, Element
<1>5. Entry(d) = sjob[s].trace[k].call
  BY <1>2 DEF Entry
<1> QED  BY <1>4, <1>5 DEF Call

(* One call is ended: the traces report it, if it worked, and all they     *)
(* reported before.                                                        *)
LEMMA DoneGrows ==
  ASSUME StrategyInv, NEW r \in Requests, NEW jobs, NEW ok, CallEnds(r, jobs, ok),
         spc'[r] # "failed", NEW d, d = << r, Len(sjob[r].trace) + 1 >>,
         NEW c, c = Head(sjob[r].calls), NEW name
  PROVE  /\ Done(name)' = Done(name) \cup (IF ok /\ c.name = name THEN {d} ELSE {})
         /\ d \notin Done(name)
         /\ \A e \in Done(name) : Entry(e)' = Entry(e)
         /\ Entry(d)' = c /\ c \in Call
<1> DEFINE t == sjob[r].trace
           n == Len(t) + 1
<1>1. /\ jobs[r].calls # <<>> /\ jobs[r].turn < STRATEGY_TURNS
      /\ ok \in BOOLEAN /\ jobs \in [ Requests -> StrategyJob ]
  BY DEF StrategyInv, CallingInv, CallEnds
<1>2. /\ \A s \in Requests \ {r} : sjob'[s].trace = sjob[s].trace
      /\ sjob'[r].trace = Append(t, Ended(jobs[r], ok))
  BY <1>1, ReturnFacts DEF StrategyInv, CallEnds
<1>3. Ended(jobs[r], ok) = [ call |-> c, ok |-> ok ]
  BY DEF Ended, CallEnds
<1>4. t \in Seq([ call : Call, ok : BOOLEAN ]) /\ c \in Call
  <2>1. sjob[r] \in StrategyJob /\ jobs[r].calls = sjob[r].calls
    BY StrategyJobFields DEF StrategyInv, CallEnds
  <2> QED  BY <1>1, <2>1 DEF StrategyJob
<1>5. /\ DOMAIN sjob'[r].trace = DOMAIN t \cup {n} /\ n \notin DOMAIN t
      /\ \A k \in DOMAIN t : sjob'[r].trace[k] = t[k]
      /\ sjob'[r].trace[n] = [ call |-> c, ok |-> ok ]
  <2>1. [ call |-> c, ok |-> ok ] \in [ call : Call, ok : BOOLEAN ]
    BY <1>1, <1>4
  <2> HIDE DEF t
  <2> QED  BY <1>2, <1>3, <1>4, <2>1
<1> HIDE DEF n
<1>6. d = << r, n >>
  BY DEF n
<1>7. d \notin Done(name)
  <2> SUFFICES ASSUME d \in Done(name)  PROVE FALSE
    OBVIOUS
  <2>1. \E s \in Requests : \E k \in DOMAIN sjob[s].trace : << r, n >> = << s, k >>
    BY <1>6, InDone
  <2>2. n \in DOMAIN sjob[r].trace
    BY <2>1
  <2> QED  BY <1>5, <2>2
<1>8. \A e : e \in Done(name)' <=>
           \E s \in Requests : \E k \in DOMAIN sjob'[s].trace :
              /\ e = << s, k >> /\ sjob'[s].trace[k].ok
              /\ sjob'[s].trace[k].call.name = name
  BY DEF Done
<1>9. ASSUME NEW e \in Done(name)  PROVE  e \in Done(name)' /\ Entry(e)' = Entry(e)
  <2>1. PICK s \in Requests : \E k \in DOMAIN sjob[s].trace :
              /\ e = << s, k >> /\ sjob[s].trace[k].ok
              /\ sjob[s].trace[k].call.name = name
    BY InDone
  <2>2. PICK k \in DOMAIN sjob[s].trace :
              /\ e = << s, k >> /\ sjob[s].trace[k].ok
              /\ sjob[s].trace[k].call.name = name
    BY <2>1
  <2>3. k \in DOMAIN sjob'[s].trace /\ sjob'[s].trace[k] = sjob[s].trace[k]
    BY <1>2, <1>5, <2>2
  <2>4. e[1] = s /\ e[2] = k
    BY <2>2
  <2> QED  BY <1>8, <2>2, <2>3, <2>4 DEF Entry
<1>10. ASSUME NEW e, e \in Done(name)', e \notin Done(name)
       PROVE  e = d /\ ok /\ c.name = name
  <2>1. PICK s \in Requests : \E k \in DOMAIN sjob'[s].trace :
              /\ e = << s, k >> /\ sjob'[s].trace[k].ok
              /\ sjob'[s].trace[k].call.name = name
    BY <1>8, <1>10
  <2>2. PICK k \in DOMAIN sjob'[s].trace :
              /\ e = << s, k >> /\ sjob'[s].trace[k].ok
              /\ sjob'[s].trace[k].call.name = name
    BY <2>1
  <2>3. s = r /\ k = n
    BY <1>2, <1>5, <1>10, <2>2, InDone
  <2> QED  BY <1>5, <1>6, <2>2, <2>3
<1>11. ok /\ c.name = name => d \in Done(name)'
  BY <1>5, <1>6, <1>8
<1>12. Entry(d)' = c
  <2>1. d[1] = r /\ d[2] = n
    BY <1>6
  <2> QED  BY <1>5, <2>1 DEF Entry
<1> QED  BY <1>4, <1>7, <1>9, <1>10, <1>11, <1>12

LEMMA AmountTypes ==
  ASSUME StrategyTypeOK
  PROVE  /\ DOMAIN attested = 1 .. Len(attested) /\ Len(attested) \in Nat
         /\ \A i \in DOMAIN attested : /\ attested[i] \in Attestation
                                       /\ AmountOf[i] = attested[i].amount
                                       /\ AmountOf[i] \in Nat
         /\ \A S \in SUBSET (DOMAIN attested) :
              IsFiniteSet(S) /\ SumOver(AmountOf, S) \in Nat
<1>1. /\ DOMAIN attested = 1 .. Len(attested) /\ Len(attested) \in Nat
      /\ attested \in Seq(Attestation)
  BY DEF StrategyTypeOK
<1>2. ASSUME NEW i \in DOMAIN attested
      PROVE  /\ attested[i] \in Attestation /\ AmountOf[i] = attested[i].amount
             /\ AmountOf[i] \in Nat
  <2>1. attested[i] \in Attestation
    BY <1>1, Element
  <2> QED  BY <2>1 DEF AmountOf, Attestation
<1>3. ASSUME NEW S \in SUBSET (DOMAIN attested)
      PROVE  IsFiniteSet(S) /\ SumOver(AmountOf, S) \in Nat
  <2>1. IsFiniteSet(DOMAIN attested)
    BY <1>1, FS_Interval
  <2>2. IsFiniteSet(S)
    BY <2>1, FS_Subset
  <2> QED  BY <1>2, <2>2, SumType
<1> QED  BY <1>1, <1>2, <1>3

LEMMA MintedKnown ==
  ASSUME StrategyInv  PROVE  Minted \subseteq DOMAIN attested
<1> SUFFICES ASSUME NEW d \in Done("mint_on_destination")
             PROVE  Entry(d).arg \in DOMAIN attested
  BY DEF Minted
<1>1. PICK s \in Requests : \E k \in DOMAIN sjob[s].trace :
        /\ d = << s, k >> /\ sjob[s].trace[k].ok
        /\ sjob[s].trace[k].call.name = "mint_on_destination"
  BY InDone
<1>2. PICK k \in DOMAIN sjob[s].trace :
        /\ d = << s, k >> /\ sjob[s].trace[k].ok
        /\ sjob[s].trace[k].call.name = "mint_on_destination"
  BY <1>1
<1>3. d[1] = s /\ d[2] = k
  BY <1>2
<1>4. sjob[s].trace[k].call.arg \in DOMAIN attested
  BY <1>2 DEF StrategyInv, CallingInv
<1> QED  BY <1>3, <1>4 DEF Entry

LEMMA ReportTypes ==
  ASSUME StrategyInv
  PROVE  /\ \A name \in WriteTools : Reported[name] \in Nat
         /\ Reported["mint_on_destination"] = SumOver(AmountOf, Minted)
         /\ \A name \in WriteTools \ { "mint_on_destination" } :
              Reported[name] = SumOver([ d \in Done(name) |-> Entry(d).arg ], Done(name))
<1>1. /\ Reported["mint_on_destination"] = SumOver(AmountOf, Minted)
      /\ \A name \in WriteTools \ { "mint_on_destination" } :
           Reported[name] = SumOver([ d \in Done(name) |-> Entry(d).arg ], Done(name))
  BY DEF Reported, WriteTools
<1>2. SumOver(AmountOf, Minted) \in Nat
  BY MintedKnown, AmountTypes DEF StrategyInv
<1>3. ASSUME NEW name
      PROVE  SumOver([ d \in Done(name) |-> Entry(d).arg ], Done(name)) \in Nat
  <2> DEFINE w == [ d \in Done(name) |-> Entry(d).arg ]
  <2>1. \A d \in Done(name) : w[d] \in Nat
    BY EntryType DEF StrategyInv
  <2> HIDE DEF w
  <2>2. IsFiniteSet(Done(name))
    BY DoneFinite DEF StrategyInv
  <2>3. SumOver(w, Done(name)) \in Nat
    BY <2>1, <2>2, SumType
  <2> QED  BY <2>3 DEF w
<1> QED  BY <1>1, <1>2, <1>3

LEMMA ReportsGrow ==
  ASSUME StrategyInv, NEW r \in Requests, NEW jobs, NEW ok, CallEnds(r, jobs, ok),
         spc'[r] # "failed", NEW c, c = Head(sjob[r].calls)
  PROVE  /\ c \in Call /\ ok \in BOOLEAN
         /\ \A name \in WriteTools \ { "mint_on_destination" } :
              Reported'[name] = Reported[name] + (IF ok /\ c.name = name THEN c.arg ELSE 0)
         /\ Minted' = Minted \cup (IF ok /\ c.name = "mint_on_destination"
                                     THEN {c.arg} ELSE {})
<1>1. PICK d : d = << r, Len(sjob[r].trace) + 1 >>
  OBVIOUS
<1>2. ASSUME NEW name
      PROVE  /\ Done(name)' = Done(name) \cup (IF ok /\ c.name = name THEN {d} ELSE {})
             /\ d \notin Done(name)
             /\ \A e \in Done(name) : Entry(e)' = Entry(e)
             /\ Entry(d)' = c /\ c \in Call
  BY <1>1, DoneGrows
<1>3. c \in Call /\ c.arg \in Nat /\ ok \in BOOLEAN
  BY <1>2 DEF Call, CallEnds
<1>4. ASSUME NEW name \in WriteTools \ { "mint_on_destination" }
      PROVE  Reported'[name] = Reported[name] + (IF ok /\ c.name = name THEN c.arg ELSE 0)
  <2> DEFINE D == Done(name)
             E == Done(name)'
             w == [ e \in Done(name) |-> Entry(e).arg ]
             v == [ e \in Done(name)' |-> Entry(e)'.arg ]
  <2>1. Reported[name] = SumOver(w, D)
    BY ReportTypes
  <2>2. Reported'[name] = SumOver(v, E)
    BY DEF Reported, WriteTools
  <2>3. IsFiniteSet(D) /\ \A e \in D : w[e] \in Nat
    BY DoneFinite, EntryType DEF StrategyInv
  <2>4. /\ E = D \cup (IF ok /\ c.name = name THEN {d} ELSE {}) /\ d \notin D
        /\ \A e \in D : v[e] = w[e] /\ v[e] \in Nat
        /\ d \in E => v[d] = c.arg
    BY <1>2, <2>3
  <2> HIDE DEF D, E, w, v
  <2>5. SumOver(v, D) = SumOver(w, D) /\ SumOver(v, D) \in Nat
    BY <2>3, <2>4, SumSame, SumType
  <2>6. CASE ok /\ c.name = name
    <3>1. E = D \cup {d} /\ v[d] = c.arg /\ \A e \in D \cup {d} : v[e] \in Nat
      BY <1>3, <2>4, <2>6
    <3>2. SumOver(v, D \cup {d}) = v[d] + SumOver(v, D)
      BY <2>3, <2>4, <3>1, SumAdd
    <3> QED  BY <1>3, <2>1, <2>2, <2>5, <2>6, <3>1, <3>2
  <2>7. CASE ~(ok /\ c.name = name)
    <3>1. E = D
      BY <2>4, <2>7
    <3> QED  BY <2>1, <2>2, <2>5, <2>7, <3>1
  <2> QED  BY <2>6, <2>7
<1>5. Minted' = Minted \cup (IF ok /\ c.name = "mint_on_destination"
                               THEN {c.arg} ELSE {})
  <2>1. Minted' = { Entry(e)'.arg : e \in Done("mint_on_destination")' }
    BY DEF Minted
  <2> QED  BY <1>2, <2>1 DEF Minted
<1> QED  BY <1>3, <1>4, <1>5

(* Without a call that ends the reports stay as they are.                  *)
LEMMA SameReports ==
  ASSUME \A s \in Requests : sjob'[s].trace = sjob[s].trace, AmountOf' = AmountOf
  PROVE  Minted' = Minted /\ Reported' = Reported
<1>1. ASSUME NEW name
      PROVE  Done(name)' = Done(name) /\ \A d \in Done(name) : Entry(d)' = Entry(d)
  <2>1. Done(name)' = Done(name)
    BY DEF Done
  <2>2. ASSUME NEW d \in Done(name)  PROVE  Entry(d)' = Entry(d)
    <3>1. PICK s \in Requests : \E k \in DOMAIN sjob[s].trace : d = << s, k >>
      BY InDone
    <3>2. d[1] = s
      BY <3>1
    <3> QED  BY <3>2 DEF Entry
  <2> QED  BY <2>1, <2>2
<1>2. Minted' = Minted
  BY <1>1 DEF Minted
<1>3. ASSUME NEW name
      PROVE  [ d \in Done(name)' |-> Entry(d)'.arg ] = [ d \in Done(name) |-> Entry(d).arg ]
  BY <1>1
<1>4. Reported' =
        [ name \in WriteTools |->
            IF name = "mint_on_destination"
              THEN SumOver(AmountOf', Minted')
              ELSE SumOver([ d \in Done(name)' |-> Entry(d)'.arg ], Done(name)') ]
  BY DEF Reported
<1>5. Reported' = Reported
  BY <1>1, <1>2, <1>3, <1>4 DEF Reported
<1> QED  BY <1>2, <1>5

-----------------------------------------------------------------------------
(* The steps that end a call.                                              *)

LEMMA ToldBefore ==
  ASSUME StrategyInv, NEW r \in Requests, NEW jobs, NEW ok, CallEnds(r, jobs, ok),
         lost => lost', Told'
  PROVE  Told /\ ~lost' /\ spc'[r] # "failed"
<1>1. \A s \in Requests \ {r} : spc'[s] = spc[s]
  BY ReturnFacts DEF StrategyInv, CallingInv, CallEnds
<1> QED  BY <1>1 DEF Told, CallEnds

LEMMA EndOfCall ==
  ASSUME StrategyInv, NEW r \in Requests, NEW jobs, NEW ok, CallEnds(r, jobs, ok),
         funds' \in Account, attested' \in Seq(Attestation), lost' \in BOOLEAN,
         AttestedIsThere', Told' => MintsAreTold' /\ Balanced'
  PROVE  StrategyInv'
BY CallEndsInv DEF StrategyInv, StrategyTypeOK

LEMMA AttestedFrame ==
  ASSUME UNCHANGED attested
  PROVE  AmountOf' = AmountOf /\ \A state : Standing(state)' = Standing(state)
BY DEF AmountOf, Standing

(* A call that moves no money: one that reads, that fails, or that mints   *)
(* what is on its way already.                                             *)
LEMMA QuietCall ==
  ASSUME StrategyInv, NEW r \in Requests, NEW jobs, NEW ok, CallEnds(r, jobs, ok), Chains,
         NEW c, c = Head(sjob[r].calls),
         ok => \/ c.name = "check_balances"
               \/ /\ c.name = "mint_on_destination"
                  /\ c.arg \in DOMAIN attested \ Standing("open")
  PROVE  StrategyInv'
<1>1. /\ funds' = funds /\ attested' = attested /\ lost' = lost
      /\ funds \in Account /\ attested \in Seq(Attestation) /\ lost \in BOOLEAN
  BY DEF Chains, StrategyInv, StrategyTypeOK
<1>2. AmountOf' = AmountOf /\ \A state : Standing(state)' = Standing(state)
  BY <1>1, AttestedFrame
<1>3. AttestedIsThere'
  BY <1>1, <1>2 DEF StrategyInv, AttestedIsThere
<1>4. ASSUME Told'  PROVE  MintsAreTold' /\ Balanced'
  <2>1. Told /\ spc'[r] # "failed"
    BY <1>1, <1>4, ToldBefore
  <2>2. MintsAreTold /\ Balanced
    BY <2>1 DEF StrategyInv
  <2>3. /\ \A name \in WriteTools \ { "mint_on_destination" } :
             Reported'[name] = Reported[name] + (IF ok /\ c.name = name THEN c.arg ELSE 0)
        /\ Minted' = Minted \cup (IF ok /\ c.name = "mint_on_destination"
                                    THEN {c.arg} ELSE {})
    BY <2>1, ReportsGrow
  <2>4. Minted' = Minted
    BY <2>2, <2>3 DEF MintsAreTold
  <2>5. \A name \in WriteTools \ { "mint_on_destination" } : Reported'[name] = Reported[name]
    <3>1. \A name \in WriteTools \ { "mint_on_destination" } : ~(ok /\ c.name = name)
      BY DEF WriteTools, UserOps
    <3>2. \A name \in WriteTools : Reported[name] \in Nat
      BY ReportTypes
    <3> QED  BY <2>3, <3>1, <3>2
  <2>6. Reported'["mint_on_destination"] = Reported["mint_on_destination"]
    <3>1. Reported'["mint_on_destination"] = SumOver(AmountOf', Minted')
      BY DEF Reported, WriteTools
    <3> QED  BY <1>2, <2>4, <3>1, ReportTypes
  <2>7. \A name \in WriteTools : Reported'[name] = Reported[name]
    BY <2>5, <2>6
  <2>8. MintsAreTold'
    BY <1>1, <1>2, <2>2, <2>4 DEF MintsAreTold
  <2>9. Balanced'
    BY <1>1, <2>2, <2>7 DEF Balanced, WriteTools, UserOps
  <2> QED  BY <2>8, <2>9
<1> QED  BY <1>1, <1>3, <1>4, EndOfCall

(* An operation that is included moves its argument.  A report of it that  *)
(* says otherwise is lost.                                                 *)
LEMMA OpMoves ==
  ASSUME StrategyTypeOK, NEW name \in UserOps, NEW n \in Nat, funds' \in Effects(name, funds, n)
  PROVE  \E from, to \in { ArcIdle, ArbIdle, ArbAave, "arc_escrow" } :
           /\ funds' = Move(funds, from, to, n) /\ n <= funds[from]
           /\ \/ name = "deposit_to_gateway" /\ from = ArcIdle /\ to = "arc_escrow"
              \/ name = "supply_aave"  /\ from = ArbIdle /\ to = ArbAave
              \/ name = "withdraw_aave" /\ from = ArbAave /\ to = ArbIdle
<1>1. \A l \in Location : funds[l] \in Nat
  BY DEF StrategyTypeOK, Account
<1>2. ArcIdle \in Location /\ ArbIdle \in Location /\ ArbAave \in Location
  BY DEF Location
<1>3. CASE name = "deposit_to_gateway"
  <2>1. funds' = Move(funds, ArcIdle, "arc_escrow", n) /\ funds[ArcIdle] >= n
    BY <1>3 DEF Effects, Deposit, CanDeposit, IdleOn, EscrowOn
  <2> QED  BY <1>1, <1>2, <1>3, <2>1
<1>4. CASE name = "supply_aave"
  <2>1. funds' = Move(funds, ArbIdle, ArbAave, n) /\ funds[ArbIdle] >= n
    BY <1>4 DEF Effects
  <2> QED  BY <1>1, <1>2, <1>4, <2>1
<1>5. CASE name = "withdraw_aave"
  <2>1. funds' = Move(funds, ArbAave, ArbIdle, n) /\ funds[ArbAave] >= n
    BY <1>5 DEF Effects, Withdraw, CanWithdraw
  <2> QED  BY <1>1, <1>2, <1>5, <2>1
<1> QED  BY <1>3, <1>4, <1>5 DEF UserOps

LEMMA OpCall ==
  ASSUME StrategyInv, NEW r \in Requests, NEW jobs, NEW ok, CallEnds(r, jobs, ok),
         NEW c, c = Head(sjob[r].calls), c.name \in UserOps, c \in Call,
         funds' \in Effects(c.name, funds, c.arg), UNCHANGED attested,
         lost' \in BOOLEAN, lost => lost', ok \/ lost'
  PROVE  StrategyInv'
<1>1. c.arg \in Nat /\ StrategyTypeOK
  BY DEF Call, StrategyInv
<1>2. PICK from, to \in { ArcIdle, ArbIdle, ArbAave, "arc_escrow" } :
           /\ funds' = Move(funds, from, to, c.arg) /\ c.arg <= funds[from]
           /\ \/ c.name = "deposit_to_gateway" /\ from = ArcIdle /\ to = "arc_escrow"
              \/ c.name = "supply_aave"  /\ from = ArbIdle /\ to = ArbAave
              \/ c.name = "withdraw_aave" /\ from = ArbAave /\ to = ArbIdle
  BY <1>1, OpMoves
<1>3. from \in Location /\ to \in Location /\ from # to /\ funds \in Account
  BY <1>1, <1>2 DEF Location, ArcIdle, ArbIdle, ArbAave, StrategyTypeOK
<1>4. /\ funds' \in Account
      /\ \A l \in Location \ {from, to} : funds'[l] = funds[l]
      /\ funds'[from] = funds[from] - c.arg /\ funds'[to] = funds[to] + c.arg
  BY <1>1, <1>2, <1>3, MoveType
<1>5. AmountOf' = AmountOf /\ \A state : Standing(state)' = Standing(state)
  BY AttestedFrame
<1>6. AttestedIsThere'
  <2>1. /\ funds'["arb_attested"] = funds["arb_attested"]
        /\ funds'["arb_minting"] = funds["arb_minting"]
    BY <1>2, <1>4 DEF Location, ArcIdle, ArbIdle, ArbAave
  <2> QED  BY <1>5, <2>1 DEF StrategyInv, AttestedIsThere
<1>7. ASSUME Told'  PROVE  MintsAreTold' /\ Balanced'
  <2>1. Told /\ ~lost' /\ spc'[r] # "failed"
    BY <1>7, ToldBefore
  <2>2. MintsAreTold /\ Balanced /\ ok = TRUE
    BY <2>1 DEF StrategyInv, CallEnds
  <2>3. /\ \A name \in WriteTools \ { "mint_on_destination" } :
             Reported'[name] = Reported[name] + (IF ok /\ c.name = name THEN c.arg ELSE 0)
        /\ Minted' = Minted
    <3>1. /\ \A name \in WriteTools \ { "mint_on_destination" } :
               Reported'[name] = Reported[name] + (IF ok /\ c.name = name THEN c.arg ELSE 0)
          /\ Minted' = Minted \cup (IF ok /\ c.name = "mint_on_destination"
                                      THEN {c.arg} ELSE {})
      BY <2>1, ReportsGrow
    <3>2. c.name # "mint_on_destination"
      BY DEF UserOps
    <3> QED  BY <3>1, <3>2
  <2>4. /\ \A name \in WriteTools \ { "mint_on_destination" } :
             Reported'[name] = Reported[name] + (IF c.name = name THEN c.arg ELSE 0)
        /\ \A name \in WriteTools : Reported[name] \in Nat
    BY <2>2, <2>3, ReportTypes
  <2>5. Reported'["mint_on_destination"] = Reported["mint_on_destination"]
    <3>1. Reported'["mint_on_destination"] = SumOver(AmountOf', Minted')
      BY DEF Reported, WriteTools
    <3> QED  BY <1>5, <2>3, <3>1, ReportTypes
  <2>6. MintsAreTold'
    BY <1>5, <2>2, <2>3 DEF MintsAreTold
  <2>7. /\ \A l \in Location : funds[l] \in Nat
        /\ { ArcIdle, ArbIdle, ArbAave, "arc_escrow", "fees", "arb_attested", "arb_minting" }
             \subseteq Location
        /\ Endowment \in Nat
    BY <1>3, StrategyAssumption DEF Account, Location
  <2>8. /\ Reported["mint_on_destination"] \in Nat
        /\ \A name \in { "deposit_to_gateway", "supply_aave", "withdraw_aave",
                         "burn_intent_to_attestation" } :
             /\ Reported[name] \in Nat
             /\ Reported'[name] = Reported[name] + (IF c.name = name THEN c.arg ELSE 0)
    BY <2>4 DEF WriteTools, UserOps
  <2>9. Balanced'
    <3>1. CASE c.name = "deposit_to_gateway" /\ from = ArcIdle /\ to = "arc_escrow"
      <4>1. /\ funds'[ArcIdle] = funds[ArcIdle] - c.arg
            /\ funds'["arc_escrow"] = funds["arc_escrow"] + c.arg
            /\ funds'["fees"] = funds["fees"]
            /\ funds'["arb_attested"] = funds["arb_attested"]
            /\ funds'["arb_minting"] = funds["arb_minting"]
            /\ funds'[ArbIdle] = funds[ArbIdle]
            /\ funds'[ArbAave] = funds[ArbAave]
        BY <1>4, <2>7, <3>1 DEF ArcIdle, ArbIdle, ArbAave
      <4>2. /\ Reported'["deposit_to_gateway"] = Reported["deposit_to_gateway"] + c.arg
            /\ Reported'["burn_intent_to_attestation"] = Reported["burn_intent_to_attestation"]
            /\ Reported'["supply_aave"] = Reported["supply_aave"]
            /\ Reported'["withdraw_aave"] = Reported["withdraw_aave"]
        BY <2>8, <3>1
      <4>3. Balanced
        BY <2>2
      <4> QED  BY <1>1, <2>5, <2>7, <2>8, <4>1, <4>2, <4>3 DEF Balanced
    <3>2. CASE c.name = "supply_aave" /\ from = ArbIdle /\ to = ArbAave
      <4>1. /\ funds'[ArcIdle] = funds[ArcIdle]
            /\ funds'["arc_escrow"] = funds["arc_escrow"]
            /\ funds'["fees"] = funds["fees"]
            /\ funds'["arb_attested"] = funds["arb_attested"]
            /\ funds'["arb_minting"] = funds["arb_minting"]
            /\ funds'[ArbIdle] = funds[ArbIdle] - c.arg
            /\ funds'[ArbAave] = funds[ArbAave] + c.arg
        BY <1>4, <2>7, <3>2 DEF ArcIdle, ArbIdle, ArbAave
      <4>2. /\ Reported'["deposit_to_gateway"] = Reported["deposit_to_gateway"]
            /\ Reported'["burn_intent_to_attestation"] = Reported["burn_intent_to_attestation"]
            /\ Reported'["supply_aave"] = Reported["supply_aave"] + c.arg
            /\ Reported'["withdraw_aave"] = Reported["withdraw_aave"]
        BY <2>8, <3>2
      <4>3. Balanced
        BY <2>2
      <4> QED  BY <1>1, <2>5, <2>7, <2>8, <4>1, <4>2, <4>3 DEF Balanced
    <3>3. CASE c.name = "withdraw_aave" /\ from = ArbAave /\ to = ArbIdle
      <4>1. /\ funds'[ArcIdle] = funds[ArcIdle]
            /\ funds'["arc_escrow"] = funds["arc_escrow"]
            /\ funds'["fees"] = funds["fees"]
            /\ funds'["arb_attested"] = funds["arb_attested"]
            /\ funds'["arb_minting"] = funds["arb_minting"]
            /\ funds'[ArbIdle] = funds[ArbIdle] + c.arg
            /\ funds'[ArbAave] = funds[ArbAave] - c.arg
        BY <1>4, <2>7, <3>3 DEF ArcIdle, ArbIdle, ArbAave
      <4>2. /\ Reported'["deposit_to_gateway"] = Reported["deposit_to_gateway"]
            /\ Reported'["burn_intent_to_attestation"] = Reported["burn_intent_to_attestation"]
            /\ Reported'["supply_aave"] = Reported["supply_aave"]
            /\ Reported'["withdraw_aave"] = Reported["withdraw_aave"] + c.arg
        BY <2>8, <3>3
      <4>3. Balanced
        BY <2>2
      <4> QED  BY <1>1, <2>5, <2>7, <2>8, <4>1, <4>2, <4>3 DEF Balanced
    <3> QED  BY <1>2, <3>1, <3>2, <3>3
  <2> QED  BY <2>6, <2>9
<1> QED  BY <1>1, <1>4, <1>6, <1>7, EndOfCall DEF StrategyTypeOK

(* A burn takes its amount and the fee from the escrow, and leaves one     *)
(* attestation more.                                                       *)
LEMMA BurnMoves ==
  ASSUME StrategyTypeOK, NEW n \in Nat, NEW fee \in Nat, CanAttest(funds, "arc", n, fee),
         funds' = Attest(funds, "arc", "arb", n, fee)
  PROVE  /\ funds' \in Account
         /\ \A l \in Location \ { "arc_escrow", "arb_attested", "fees" } : funds'[l] = funds[l]
         /\ funds'["arc_escrow"] = funds["arc_escrow"] - n - fee
         /\ funds'["arb_attested"] = funds["arb_attested"] + n
         /\ funds'["fees"] = funds["fees"] + fee
<1> DEFINE a == Move(funds, "arc_escrow", "arb_attested", n)
<1>1. funds \in Account /\ funds["arc_escrow"] >= n + fee
  BY DEF StrategyTypeOK, CanAttest, EscrowOn
<1>2. { "arc_escrow", "arb_attested", "fees" } \subseteq Location
  BY DEF Location
<1>3. funds["arc_escrow"] \in Nat
  BY <1>1, <1>2 DEF Account
<1>4. n <= funds["arc_escrow"] /\ fee <= funds["arc_escrow"] - n
  BY <1>1, <1>3
<1>5. /\ a \in Account
      /\ \A l \in Location \ { "arc_escrow", "arb_attested" } : a[l] = funds[l]
      /\ a["arc_escrow"] = funds["arc_escrow"] - n
      /\ a["arb_attested"] = funds["arb_attested"] + n
  BY <1>1, <1>2, <1>4, MoveType
<1>6. funds' = Move(a, "arc_escrow", "fees", fee)
  BY DEF Attest, EscrowOn, AttestedFor
<1> HIDE DEF a
<1>7. /\ funds' \in Account
      /\ \A l \in Location \ { "arc_escrow", "fees" } : funds'[l] = a[l]
      /\ funds'["arc_escrow"] = a["arc_escrow"] - fee
      /\ funds'["fees"] = a["fees"] + fee
  BY <1>2, <1>4, <1>5, <1>6, MoveType
<1> QED  BY <1>2, <1>5, <1>7

LEMMA BurnAttests ==
  ASSUME StrategyInv, NEW n \in Nat,
         attested' = Append(attested, [ amount |-> n, state |-> "open" ])
  PROVE  /\ attested' \in Seq(Attestation)
         /\ DOMAIN attested' = DOMAIN attested \cup {Len(attested) + 1}
         /\ Len(attested) + 1 \notin DOMAIN attested
         /\ \A S \in SUBSET (DOMAIN attested) : SumOver(AmountOf', S) = SumOver(AmountOf, S)
         /\ SumOver(AmountOf', Standing("open")') = SumOver(AmountOf, Standing("open")) + n
         /\ Standing("sent")' = Standing("sent")
         /\ DOMAIN attested' \ Standing("open")' = DOMAIN attested \ Standing("open")
<1> DEFINE k == Len(attested) + 1
<1>1. StrategyTypeOK
  BY DEF StrategyInv
<1>2. /\ attested' \in Seq(Attestation)
      /\ DOMAIN attested' = DOMAIN attested \cup {k} /\ k \notin DOMAIN attested
      /\ \A i \in DOMAIN attested : attested'[i] = attested[i]
      /\ attested'[k] = [ amount |-> n, state |-> "open" ]
  <2>1. attested \in Seq(Attestation)
    BY <1>1 DEF StrategyTypeOK
  <2>2. [ amount |-> n, state |-> "open" ] \in Attestation
    BY DEF Attestation
  <2> QED  BY <2>1, <2>2
<1> HIDE DEF k
<1>3. /\ \A i \in DOMAIN attested : AmountOf'[i] = AmountOf[i] /\ AmountOf[i] \in Nat
      /\ AmountOf'[k] = n
  <2>1. AmountOf' = [ i \in DOMAIN attested' |-> attested'[i].amount ]
    BY DEF AmountOf
  <2> QED  BY <1>1, <1>2, <2>1, AmountTypes
<1>4. Standing("open")' = Standing("open") \cup {k} /\ Standing("sent")' = Standing("sent")
  BY <1>2 DEF Standing
<1>5. /\ Standing("open") \in SUBSET (DOMAIN attested) /\ k \notin Standing("open")
      /\ IsFiniteSet(Standing("open"))
  <2>1. Standing("open") \in SUBSET (DOMAIN attested)
    BY DEF Standing
  <2> QED  BY <1>1, <1>2, <2>1, AmountTypes
<1>6. ASSUME NEW S \in SUBSET (DOMAIN attested)
      PROVE  SumOver(AmountOf', S) = SumOver(AmountOf, S)
  <2>1. IsFiniteSet(S)
    BY <1>1, AmountTypes
  <2> QED  BY <1>3, <2>1, SumSame
<1>7. SumOver(AmountOf', Standing("open")') = SumOver(AmountOf, Standing("open")) + n
  <2>1. \A i \in Standing("open") \cup {k} : AmountOf'[i] \in Nat
    BY <1>3, <1>5
  <2>2. SumOver(AmountOf', Standing("open") \cup {k})
          = AmountOf'[k] + SumOver(AmountOf', Standing("open"))
    BY <1>5, <2>1, SumAdd
  <2>3. SumOver(AmountOf', Standing("open")) = SumOver(AmountOf, Standing("open"))
    BY <1>5, <1>6
  <2>4. SumOver(AmountOf, Standing("open")) \in Nat
    BY <1>1, <1>5, AmountTypes
  <2>5. SumOver(AmountOf', Standing("open")') = SumOver(AmountOf', Standing("open") \cup {k})
    BY <1>4
  <2>6. AmountOf'[k] = n
    BY <1>3
  <2> QED  BY <2>2, <2>3, <2>4, <2>5, <2>6
<1> QED  BY <1>2, <1>4, <1>5, <1>6, <1>7 DEF k

LEMMA BurnCall ==
  ASSUME StrategyInv, NEW r \in Requests, Burn(r)  PROVE  StrategyInv'
<1> DEFINE c == Head(sjob[r].calls)
           n == c.arg
           k == Len(attested) + 1
           given == [ sjob EXCEPT ![r].held = @ \cup {k} ]
<1>1. /\ StrategyTypeOK /\ spc[r] = "tools" /\ c.name = "burn_intent_to_attestation"
      /\ sjob \in [ Requests -> StrategyJob ] /\ sjob[r].calls # <<>>
      /\ lost \in BOOLEAN
  BY DEF StrategyInv, CallingInv, Burn, Calls, StrategyTypeOK
<1>2. c \in Call /\ n \in Nat
  <2>1. sjob[r].calls \in Seq(Call)
    BY <1>1 DEF StrategyJob
  <2>2. c \in Call
    BY <1>1, <2>1
  <2> QED  BY <2>2 DEF Call
<1>3. PICK fee \in Nat : /\ CanAttest(funds, "arc", n, fee)
                         /\ funds' = Attest(funds, "arc", "arb", n, fee)
  BY StrategyAssumption DEF Burn, Arg
<1>4. attested' = Append(attested, [ amount |-> n, state |-> "open" ])
  BY DEF Burn, Arg
<1>5. /\ funds' \in Account
      /\ \A l \in Location \ { "arc_escrow", "arb_attested", "fees" } : funds'[l] = funds[l]
      /\ funds'["arc_escrow"] = funds["arc_escrow"] - n - fee
      /\ funds'["arb_attested"] = funds["arb_attested"] + n
      /\ funds'["fees"] = funds["fees"] + fee
  BY <1>1, <1>2, <1>3, BurnMoves
<1>6. /\ attested' \in Seq(Attestation)
      /\ DOMAIN attested' = DOMAIN attested \cup {k} /\ k \notin DOMAIN attested
      /\ \A S \in SUBSET (DOMAIN attested) : SumOver(AmountOf', S) = SumOver(AmountOf, S)
      /\ SumOver(AmountOf', Standing("open")') = SumOver(AmountOf, Standing("open")) + n
      /\ Standing("sent")' = Standing("sent")
      /\ DOMAIN attested' \ Standing("open")' = DOMAIN attested \ Standing("open")
  BY <1>2, <1>4, BurnAttests
<1>7. \E jobs, ok : CallEnds(r, jobs, ok) /\ (ok \/ lost') /\ (lost => lost') /\ lost' \in BOOLEAN
  <2>1. /\ sjob[r].held \subseteq DOMAIN attested /\ k \in Nat
        /\ \A s \in Requests : sjob[s].held \subseteq DOMAIN attested
        /\ \A s \in Requests : sjob[s].held \subseteq Nat
    <3>1. \A s \in Requests : sjob[s].held \subseteq DOMAIN attested
      BY DEF StrategyInv, CallingInv
    <3>2. k \in Nat
      BY <1>1, AmountTypes
    <3>3. \A s \in Requests : sjob[s].held \subseteq Nat
      BY <1>1 DEF StrategyJob
    <3> QED  BY <3>1, <3>2, <3>3
  <2> HIDE DEF k
  <2>2. /\ given \in [ Requests -> StrategyJob ]
        /\ \A s \in Requests : /\ given[s].turn = sjob[s].turn
                               /\ given[s].calls = sjob[s].calls
                               /\ given[s].trace = sjob[s].trace
                               /\ sjob[s].held \subseteq given[s].held
                               /\ given[s].held \subseteq sjob[s].held \cup {k}
    <3>1. \A s \in Requests : given[s] = IF s = r
                                THEN [ sjob[r] EXCEPT !.held = @ \cup {k} ] ELSE sjob[s]
      BY <1>1
    <3>2. [ sjob[r] EXCEPT !.held = @ \cup {k} ] \in StrategyJob
      BY <1>1, <2>1 DEF StrategyJob
    <3>3. given \in [ Requests -> StrategyJob ]
      BY <1>1, <3>2
    <3>4. /\ [ sjob[r] EXCEPT !.held = @ \cup {k} ].turn = sjob[r].turn
          /\ [ sjob[r] EXCEPT !.held = @ \cup {k} ].calls = sjob[r].calls
          /\ [ sjob[r] EXCEPT !.held = @ \cup {k} ].trace = sjob[r].trace
          /\ [ sjob[r] EXCEPT !.held = @ \cup {k} ].held = sjob[r].held \cup {k}
      BY <1>1 DEF StrategyJob
    <3> QED  BY <3>1, <3>3, <3>4
  <2>3. CASE Return(r, given, TRUE) /\ UNCHANGED lost
    <3>1. CallEnds(r, given, TRUE)
      BY <1>1, <1>6, <2>1, <2>2, <2>3 DEF CallEnds
    <3> QED  BY <1>1, <2>3, <3>1
  <2>4. CASE Return(r, sjob, FALSE) /\ lost' = TRUE
    <3>1. CallEnds(r, sjob, FALSE)
      BY <1>1, <1>6, <2>1, <2>4 DEF CallEnds
    <3> QED  BY <2>4, <3>1
  <2> QED  BY <2>3, <2>4 DEF Burn, k
<1>8. PICK jobs, ok : CallEnds(r, jobs, ok) /\ (ok \/ lost') /\ (lost => lost') /\ lost' \in BOOLEAN
  BY <1>7
<1>9. AttestedIsThere'
  <2>1. /\ Standing("sent") \in SUBSET (DOMAIN attested)
        /\ "arb_minting" \in Location \ { "arc_escrow", "arb_attested", "fees" }
    BY DEF Standing, Location
  <2>2. SumOver(AmountOf', Standing("sent")') = SumOver(AmountOf, Standing("sent"))
    BY <1>6, <2>1
  <2>3. /\ funds["arb_attested"] = SumOver(AmountOf, Standing("open"))
        /\ funds["arb_minting"]  = SumOver(AmountOf, Standing("sent"))
    BY DEF StrategyInv, AttestedIsThere
  <2>4. /\ funds'["arb_attested"] = SumOver(AmountOf', Standing("open")')
        /\ funds'["arb_minting"]  = SumOver(AmountOf', Standing("sent")')
    BY <1>5, <1>6, <2>1, <2>2, <2>3
  <2> QED  BY <2>4 DEF AttestedIsThere
<1>10. ASSUME Told'  PROVE  MintsAreTold' /\ Balanced'
  <2>1. Told /\ ~lost' /\ spc'[r] # "failed"
    BY <1>8, <1>10, ToldBefore
  <2>2. MintsAreTold /\ Balanced /\ ok = TRUE
    BY <1>8, <2>1 DEF StrategyInv, CallEnds
  <2>3. /\ \A name \in WriteTools \ { "mint_on_destination" } :
             Reported'[name] = Reported[name] + (IF ok /\ c.name = name THEN c.arg ELSE 0)
        /\ Minted' = Minted \cup (IF ok /\ c.name = "mint_on_destination"
                                    THEN {c.arg} ELSE {})
    BY <1>8, <2>1, ReportsGrow
  <2>4. Minted' = Minted
    BY <1>1, <2>3
  <2>5. MintsAreTold'
    BY <1>6, <2>2, <2>4 DEF MintsAreTold
  <2>6. Reported'["mint_on_destination"] = Reported["mint_on_destination"]
    <3>1. Reported'["mint_on_destination"] = SumOver(AmountOf', Minted')
      BY DEF Reported, WriteTools
    <3>2. Minted \in SUBSET (DOMAIN attested)
      BY MintedKnown
    <3> QED  BY <1>6, <2>4, <3>1, <3>2, ReportTypes
  <2>7. /\ \A name \in { "deposit_to_gateway", "supply_aave", "withdraw_aave",
                         "mint_on_destination", "burn_intent_to_attestation" } :
             Reported[name] \in Nat
    BY ReportTypes DEF WriteTools, UserOps
  <2>8. /\ Reported'["deposit_to_gateway"] = Reported["deposit_to_gateway"]
        /\ Reported'["supply_aave"] = Reported["supply_aave"]
        /\ Reported'["withdraw_aave"] = Reported["withdraw_aave"]
        /\ Reported'["burn_intent_to_attestation"]
             = Reported["burn_intent_to_attestation"] + n
    BY <1>1, <2>2, <2>3, <2>7 DEF WriteTools, UserOps
  <2>9. /\ funds[ArcIdle] \in Nat /\ funds["arc_escrow"] \in Nat /\ funds["fees"] \in Nat
        /\ funds["arb_attested"] \in Nat /\ funds["arb_minting"] \in Nat
        /\ funds[ArbIdle] \in Nat /\ funds[ArbAave] \in Nat /\ Endowment \in Nat
    BY <1>1, StrategyAssumption DEF Account, Location, StrategyTypeOK
  <2>10. /\ funds'[ArcIdle] = funds[ArcIdle] /\ funds'["arb_minting"] = funds["arb_minting"]
         /\ funds'[ArbIdle] = funds[ArbIdle] /\ funds'[ArbAave] = funds[ArbAave]
    BY <1>5 DEF Location, ArcIdle, ArbIdle, ArbAave
  <2> HIDE DEF n
  <2>11. Balanced'
    <3>1. Balanced
      BY <2>2
    <3>2. funds'["arc_escrow"] + funds'["fees"]
            = Reported'["deposit_to_gateway"] - Reported'["burn_intent_to_attestation"]
      <4>1. funds["arc_escrow"] + funds["fees"]
              = Reported["deposit_to_gateway"] - Reported["burn_intent_to_attestation"]
        BY <3>1 DEF Balanced
      <4> QED  BY <1>2, <1>5, <2>7, <2>8, <2>9, <4>1
    <3>3. funds'["arb_attested"]
            = Reported'["burn_intent_to_attestation"] - Reported'["mint_on_destination"]
      <4>1. funds["arb_attested"]
              = Reported["burn_intent_to_attestation"] - Reported["mint_on_destination"]
        BY <3>1 DEF Balanced
      <4> QED  BY <1>2, <1>5, <2>6, <2>7, <2>8, <2>9, <4>1
    <3>4. /\ funds'[ArcIdle] = Endowment - Reported'["deposit_to_gateway"]
          /\ funds'["arb_minting"] + funds'[ArbIdle]
               = Reported'["mint_on_destination"] + Reported'["withdraw_aave"]
                 - Reported'["supply_aave"]
          /\ funds'[ArbAave] = Reported'["supply_aave"] - Reported'["withdraw_aave"]
      BY <2>6, <2>8, <2>10, <3>1 DEF Balanced
    <3> QED  BY <3>2, <3>3, <3>4 DEF Balanced
  <2> QED  BY <2>5, <2>11
<1> QED  BY <1>5, <1>6, <1>8, <1>9, <1>10, EndOfCall

(* An attestation that is sent, lands or is dropped.                       *)
LEMMA AttestationPasses ==
  ASSUME StrategyTypeOK, NEW i \in DOMAIN attested, NEW from, from = attested[i].state,
         NEW to \in { "open", "sent", "spent" }, to # from,
         attested' = [ attested EXCEPT ![i].state = to ]
  PROVE  /\ attested' \in Seq(Attestation) /\ DOMAIN attested' = DOMAIN attested
         /\ AmountOf' = AmountOf
         /\ attested[i].amount = AmountOf[i] /\ AmountOf[i] \in Nat
         /\ i \in Standing(from) /\ i \notin Standing(to)
         /\ Standing(from)' = Standing(from) \ {i} /\ Standing(to)' = Standing(to) \cup {i}
         /\ \A state : state \notin {from, to} => Standing(state)' = Standing(state)
         /\ SumOver(AmountOf, Standing(from) \ {i})
              = SumOver(AmountOf, Standing(from)) - AmountOf[i]
         /\ AmountOf[i] <= SumOver(AmountOf, Standing(from))
         /\ SumOver(AmountOf, Standing(to) \cup {i})
              = SumOver(AmountOf, Standing(to)) + AmountOf[i]
<1>1. attested \in Seq(Attestation) /\ attested[i] \in Attestation
  BY Element DEF StrategyTypeOK
<1>2. /\ attested' \in Seq(Attestation) /\ DOMAIN attested' = DOMAIN attested
      /\ \A k \in DOMAIN attested \ {i} : attested'[k] = attested[k]
      /\ attested'[i].amount = attested[i].amount /\ attested'[i].state = to
  <2>1. PICK e \in Attestation : e.amount = attested[i].amount /\ e.state = to
                                /\ attested' = [ attested EXCEPT ![i] = e ]
    <3>1. [ attested[i] EXCEPT !.state = to ] \in Attestation
      BY <1>1 DEF Attestation
    <3>2. /\ [ attested[i] EXCEPT !.state = to ].amount = attested[i].amount
          /\ [ attested[i] EXCEPT !.state = to ].state = to
      BY <1>1 DEF Attestation
    <3> QED  BY <3>1, <3>2
  <2>2. /\ [ attested EXCEPT ![i] = e ] \in Seq(Attestation)
        /\ DOMAIN [ attested EXCEPT ![i] = e ] = DOMAIN attested
        /\ \A k \in DOMAIN attested \ {i} : [ attested EXCEPT ![i] = e ][k] = attested[k]
        /\ [ attested EXCEPT ![i] = e ][i] = e
    BY <1>1, Replaced
  <2> QED  BY <2>1, <2>2
<1>3. AmountOf' = AmountOf
  <2>1. AmountOf' = [ k \in DOMAIN attested' |-> attested'[k].amount ]
    BY DEF AmountOf
  <2> QED  BY <1>2, <2>1 DEF AmountOf
<1>4. /\ i \in Standing(from) /\ i \notin Standing(to)
      /\ Standing(from)' = Standing(from) \ {i} /\ Standing(to)' = Standing(to) \cup {i}
      /\ \A state : state \notin {from, to} => Standing(state)' = Standing(state)
  BY <1>2 DEF Standing
<1>5. attested[i].amount = AmountOf[i] /\ AmountOf[i] \in Nat
  BY AmountTypes
<1>6. \A state : IsFiniteSet(Standing(state)) /\ \A k \in Standing(state) : AmountOf[k] \in Nat
  <2>1. \A state : Standing(state) \in SUBSET (DOMAIN attested)
    BY DEF Standing
  <2> QED  BY <2>1, AmountTypes
<1>7. /\ SumOver(AmountOf, Standing(from) \ {i})
           = SumOver(AmountOf, Standing(from)) - AmountOf[i]
      /\ AmountOf[i] <= SumOver(AmountOf, Standing(from))
  <2>1. SumOver(AmountOf, Standing(from))
          = AmountOf[i] + SumOver(AmountOf, Standing(from) \ {i})
    BY <1>4, <1>6, SumTake
  <2>2. SumOver(AmountOf, Standing(from) \ {i}) \in Nat
    <3>1. Standing(from) \ {i} \in SUBSET (DOMAIN attested)
      BY DEF Standing
    <3> QED  BY <3>1, AmountTypes
  <2> QED  BY <1>5, <2>1, <2>2
<1>8. SumOver(AmountOf, Standing(to) \cup {i}) = SumOver(AmountOf, Standing(to)) + AmountOf[i]
  <2>1. SumOver(AmountOf, Standing(to) \cup {i}) = AmountOf[i] + SumOver(AmountOf, Standing(to))
    BY <1>4, <1>5, <1>6, SumAdd
  <2>2. SumOver(AmountOf, Standing(to)) \in Nat
    BY <1>6, SumType
  <2> QED  BY <1>5, <2>1, <2>2
<1> QED  BY <1>2, <1>3, <1>4, <1>5, <1>7, <1>8

LEMMA MintCall ==
  ASSUME StrategyInv, NEW r \in Requests, Mint(r)  PROVE  StrategyInv'
<1> DEFINE c == Head(sjob[r].calls)
           i == c.arg
<1>1. /\ StrategyTypeOK /\ spc[r] = "tools" /\ c.name = "mint_on_destination"
      /\ sjob \in [ Requests -> StrategyJob ] /\ sjob[r].calls # <<>>
      /\ lost \in BOOLEAN /\ funds \in Account
  BY DEF StrategyInv, CallingInv, Mint, Calls, StrategyTypeOK
<1>2. i \in DOMAIN attested /\ attested[i].state = "open"
  <2>1. sjob[r].calls \in Seq(Call)
    BY <1>1 DEF StrategyJob
  <2>2. 1 \in DOMAIN sjob[r].calls /\ c = sjob[r].calls[1]
    BY <1>1, <2>1
  <2>3. i \in sjob[r].held \cup {0} /\ sjob[r].held \subseteq DOMAIN attested
    BY <1>1, <2>2 DEF StrategyInv, CallingInv
  <2> QED  BY <2>3 DEF Mint, Arg
<1>3. attested' = [ attested EXCEPT ![i].state = "sent" ]
  BY DEF Mint, Arg
<1> HIDE DEF i
<1>4. /\ attested' \in Seq(Attestation) /\ DOMAIN attested' = DOMAIN attested
      /\ AmountOf' = AmountOf
      /\ attested[i].amount = AmountOf[i] /\ AmountOf[i] \in Nat
      /\ i \in Standing("open")
      /\ Standing("open")' = Standing("open") \ {i}
      /\ Standing("sent")' = Standing("sent") \cup {i}
      /\ SumOver(AmountOf, Standing("open") \ {i})
           = SumOver(AmountOf, Standing("open")) - AmountOf[i]
      /\ AmountOf[i] <= SumOver(AmountOf, Standing("open"))
      /\ SumOver(AmountOf, Standing("sent") \cup {i})
           = SumOver(AmountOf, Standing("sent")) + AmountOf[i]
  <2>1. "sent" \in { "open", "sent", "spent" } /\ "sent" # "open"
    OBVIOUS
  <2> QED  BY <1>1, <1>2, <1>3, <2>1, AttestationPasses
<1>5. /\ funds["arb_attested"] = SumOver(AmountOf, Standing("open"))
      /\ funds["arb_minting"]  = SumOver(AmountOf, Standing("sent"))
  BY DEF StrategyInv, AttestedIsThere
<1>6. /\ funds' \in Account
      /\ \A l \in Location \ { "arb_attested", "arb_minting" } : funds'[l] = funds[l]
      /\ funds'["arb_attested"] = funds["arb_attested"] - AmountOf[i]
      /\ funds'["arb_minting"] = funds["arb_minting"] + AmountOf[i]
  <2>1. funds' = Move(funds, "arb_attested", "arb_minting", AmountOf[i])
    BY <1>4 DEF Mint, SendMint, AttestedFor, MintingOn, Arg, i
  <2>2. { "arb_attested", "arb_minting" } \subseteq Location
    BY DEF Location
  <2> QED  BY <1>1, <1>4, <1>5, <2>1, <2>2, MoveType
<1>7. PICK ok : CallEnds(r, sjob, ok) /\ (ok \/ lost') /\ (lost => lost') /\ lost' \in BOOLEAN
  <2>1. \A s \in Requests : sjob[s].held \subseteq DOMAIN attested
    BY DEF StrategyInv, CallingInv
  <2>2. i \in DOMAIN attested'
    BY <1>2, <1>4
  <2>3. CASE Return(r, sjob, TRUE) /\ UNCHANGED lost
    <3>1. CallEnds(r, sjob, TRUE)
      BY <1>1, <1>4, <2>1, <2>2, <2>3 DEF CallEnds, i
    <3> QED  BY <1>1, <2>3, <3>1
  <2>4. CASE Return(r, sjob, FALSE) /\ lost' = TRUE
    <3>1. CallEnds(r, sjob, FALSE)
      BY <1>1, <1>4, <2>1, <2>4 DEF CallEnds
    <3> QED  BY <2>4, <3>1
  <2> QED  BY <2>3, <2>4 DEF Mint
<1>8. AttestedIsThere'
  <2>1. /\ funds'["arb_attested"] = SumOver(AmountOf', Standing("open")')
        /\ funds'["arb_minting"]  = SumOver(AmountOf', Standing("sent")')
    BY <1>4, <1>5, <1>6
  <2> QED  BY <2>1 DEF AttestedIsThere
<1>9. ASSUME Told'  PROVE  MintsAreTold' /\ Balanced'
  <2>1. Told /\ ~lost' /\ spc'[r] # "failed"
    BY <1>7, <1>9, ToldBefore
  <2>2. MintsAreTold /\ Balanced /\ ok = TRUE
    BY <1>7, <2>1 DEF StrategyInv, CallEnds
  <2>3. /\ \A name \in WriteTools \ { "mint_on_destination" } :
             Reported'[name] = Reported[name] + (IF ok /\ c.name = name THEN c.arg ELSE 0)
        /\ Minted' = Minted \cup (IF ok /\ c.name = "mint_on_destination"
                                    THEN {c.arg} ELSE {})
    BY <1>7, <2>1, ReportsGrow
  <2>4. Minted' = Minted \cup {i} /\ i \notin Minted
    BY <1>1, <1>4, <2>2, <2>3 DEF MintsAreTold, i
  <2>5. MintsAreTold'
    BY <1>2, <1>4, <2>2, <2>4 DEF MintsAreTold
  <2>6. Reported'["mint_on_destination"] = Reported["mint_on_destination"] + AmountOf[i]
    <3>1. Reported'["mint_on_destination"] = SumOver(AmountOf', Minted')
      BY DEF Reported, WriteTools
    <3>2. Minted \in SUBSET (DOMAIN attested)
      BY MintedKnown
    <3>3. IsFiniteSet(Minted) /\ SumOver(AmountOf, Minted) \in Nat
      BY <1>1, <3>2, AmountTypes
    <3>4. \A k \in Minted \cup {i} : AmountOf[k] \in Nat
      BY <1>1, <1>2, <3>2, AmountTypes
    <3>5. SumOver(AmountOf, Minted \cup {i}) = AmountOf[i] + SumOver(AmountOf, Minted)
      BY <2>4, <3>3, <3>4, SumAdd
    <3>6. Reported["mint_on_destination"] = SumOver(AmountOf, Minted)
      BY ReportTypes
    <3>7. Reported'["mint_on_destination"] = SumOver(AmountOf, Minted \cup {i})
      BY <1>4, <2>4, <3>1
    <3> QED  BY <1>4, <3>3, <3>5, <3>6, <3>7
  <2>7. /\ \A name \in { "deposit_to_gateway", "supply_aave", "withdraw_aave",
                         "mint_on_destination", "burn_intent_to_attestation" } :
             Reported[name] \in Nat
    BY ReportTypes DEF WriteTools, UserOps
  <2>8. /\ Reported'["deposit_to_gateway"] = Reported["deposit_to_gateway"]
        /\ Reported'["supply_aave"] = Reported["supply_aave"]
        /\ Reported'["withdraw_aave"] = Reported["withdraw_aave"]
        /\ Reported'["burn_intent_to_attestation"] = Reported["burn_intent_to_attestation"]
    BY <1>1, <2>3, <2>7 DEF WriteTools, UserOps
  <2>9. /\ funds["arb_attested"] \in Nat /\ funds["arb_minting"] \in Nat
        /\ funds[ArbIdle] \in Nat
    BY <1>1 DEF Account, Location
  <2>10. /\ funds'[ArcIdle] = funds[ArcIdle] /\ funds'["arc_escrow"] = funds["arc_escrow"]
         /\ funds'[ArbIdle] = funds[ArbIdle] /\ funds'[ArbAave] = funds[ArbAave]
         /\ funds'["fees"] = funds["fees"]
    BY <1>6 DEF Location, ArcIdle, ArbIdle, ArbAave
  <2>11. Balanced'
    <3>1. Balanced
      BY <2>2
    <3>2. funds'["arb_minting"] + funds'[ArbIdle]
            = Reported'["mint_on_destination"] + Reported'["withdraw_aave"]
              - Reported'["supply_aave"]
      <4>1. funds["arb_minting"] + funds[ArbIdle]
              = Reported["mint_on_destination"] + Reported["withdraw_aave"]
                - Reported["supply_aave"]
        BY <3>1 DEF Balanced
      <4>2. /\ funds'["arb_minting"] = funds["arb_minting"] + AmountOf[i]
            /\ funds'[ArbIdle] = funds[ArbIdle] /\ AmountOf[i] \in Nat
            /\ Reported["mint_on_destination"] \in Nat
            /\ Reported["withdraw_aave"] \in Nat /\ Reported["supply_aave"] \in Nat
        BY <1>4, <1>6, <2>7, <2>10
      <4> QED  BY <2>6, <2>8, <2>9, <4>1, <4>2
    <3>3. funds'["arb_attested"]
            = Reported'["burn_intent_to_attestation"] - Reported'["mint_on_destination"]
      <4>1. funds["arb_attested"]
              = Reported["burn_intent_to_attestation"] - Reported["mint_on_destination"]
        BY <3>1 DEF Balanced
      <4> QED  BY <1>4, <1>6, <2>6, <2>7, <2>8, <2>9, <4>1
    <3>4. /\ funds'[ArcIdle] = Endowment - Reported'["deposit_to_gateway"]
          /\ funds'["arc_escrow"] + funds'["fees"]
               = Reported'["deposit_to_gateway"] - Reported'["burn_intent_to_attestation"]
          /\ funds'[ArbAave] = Reported'["supply_aave"] - Reported'["withdraw_aave"]
      BY <2>8, <2>10, <3>1 DEF Balanced
    <3> QED  BY <3>2, <3>3, <3>4 DEF Balanced
  <2> QED  BY <2>5, <2>11
<1> QED  BY <1>4, <1>6, <1>7, <1>8, <1>9, EndOfCall

(* What the chain does with a mint that was sent.                          *)
LEMMA SentMint ==
  ASSUME StrategyInv, NEW i \in DOMAIN attested, attested[i].state = "sent",
         NEW to \in { "open", "spent" }, attested' = [ attested EXCEPT ![i].state = to ],
         NEW l \in Location \ { "arb_minting" },
         funds' = Move(funds, "arb_minting", l, attested[i].amount),
         \/ to = "open" /\ l = "arb_attested" /\ lost' = TRUE
         \/ to = "spent" /\ l = ArbIdle /\ UNCHANGED lost,
         UNCHANGED << spc, sjob >>
  PROVE  StrategyInv'
<1>1. /\ StrategyTypeOK /\ funds \in Account /\ lost \in BOOLEAN
      /\ \A r \in Requests : CallingInv(r)
  BY DEF StrategyInv, StrategyTypeOK
<1>2. /\ attested' \in Seq(Attestation) /\ DOMAIN attested' = DOMAIN attested
      /\ AmountOf' = AmountOf
      /\ attested[i].amount = AmountOf[i] /\ AmountOf[i] \in Nat
      /\ i \in Standing("sent") /\ i \notin Standing(to)
      /\ Standing("sent")' = Standing("sent") \ {i} /\ Standing(to)' = Standing(to) \cup {i}
      /\ \A state : state \notin {"sent", to} => Standing(state)' = Standing(state)
      /\ SumOver(AmountOf, Standing("sent") \ {i})
           = SumOver(AmountOf, Standing("sent")) - AmountOf[i]
      /\ AmountOf[i] <= SumOver(AmountOf, Standing("sent"))
      /\ SumOver(AmountOf, Standing(to) \cup {i})
           = SumOver(AmountOf, Standing(to)) + AmountOf[i]
  <2>1. to \in { "open", "sent", "spent" } /\ to # "sent"
    OBVIOUS
  <2> QED  BY <1>1, <2>1, AttestationPasses
<1>3. /\ funds["arb_attested"] = SumOver(AmountOf, Standing("open"))
      /\ funds["arb_minting"]  = SumOver(AmountOf, Standing("sent"))
  BY DEF StrategyInv, AttestedIsThere
<1>4. /\ funds' \in Account
      /\ \A k \in Location \ { "arb_minting", l } : funds'[k] = funds[k]
      /\ funds'["arb_minting"] = funds["arb_minting"] - AmountOf[i]
      /\ funds'[l] = funds[l] + AmountOf[i]
  <2>1. "arb_minting" \in Location /\ "arb_minting" # l
    BY DEF Location
  <2> QED  BY <1>1, <1>2, <1>3, <2>1, MoveType
<1>5. AttestedIsThere'
  <2>1. funds'["arb_minting"]  = SumOver(AmountOf', Standing("sent")')
    BY <1>2, <1>3, <1>4
  <2>2. CASE to = "open" /\ l = "arb_attested"
    <3>1. funds'["arb_attested"] = SumOver(AmountOf', Standing("open")')
      BY <1>2, <1>3, <1>4, <2>2
    <3> QED  BY <2>1, <3>1 DEF AttestedIsThere
  <2>3. CASE to = "spent" /\ l = ArbIdle
    <3>1. funds'["arb_attested"] = SumOver(AmountOf', Standing("open")')
      BY <1>2, <1>3, <1>4, <2>3 DEF Location, ArbIdle
    <3> QED  BY <2>1, <3>1 DEF AttestedIsThere
  <2> QED  BY <2>2, <2>3
<1>6. \A r \in Requests : CallingInv(r)'
  BY <1>1, <1>2 DEF CallingInv
<1>7. ASSUME Told'  PROVE  MintsAreTold' /\ Balanced'
  <2>1. Told /\ to = "spent" /\ l = ArbIdle /\ MintsAreTold /\ Balanced
    BY <1>7 DEF Told, StrategyInv
  <2>2. Minted' = Minted /\ Reported' = Reported
    BY <1>2, SameReports
  <2>3. Standing("open")' = Standing("open")
    BY <1>2, <2>1
  <2>4. MintsAreTold'
    BY <1>2, <2>1, <2>2, <2>3 DEF MintsAreTold
  <2>5. /\ funds["arb_minting"] \in Nat /\ funds[ArbIdle] \in Nat
    BY <1>1 DEF Account, Location
  <2>6. /\ funds'[ArcIdle] = funds[ArcIdle] /\ funds'["arc_escrow"] = funds["arc_escrow"]
        /\ funds'["arb_attested"] = funds["arb_attested"] /\ funds'[ArbAave] = funds[ArbAave]
        /\ funds'["fees"] = funds["fees"]
    BY <1>4, <2>1 DEF Location, ArcIdle, ArbIdle, ArbAave
  <2>7. funds'["arb_minting"] + funds'[ArbIdle] = funds["arb_minting"] + funds[ArbIdle]
    BY <1>2, <1>4, <2>1, <2>5
  <2>8. Balanced'
    BY <2>1, <2>2, <2>6, <2>7 DEF Balanced
  <2> QED  BY <2>4, <2>8
<1>8. StrategyTypeOK'
  BY <1>1, <1>2, <1>4 DEF StrategyTypeOK
<1> QED  BY <1>5, <1>6, <1>7, <1>8 DEF StrategyInv

(* A step of one request that ends no call and moves no money.             *)
LEMMA QuietStep ==
  ASSUME StrategyInv, NEW r \in Requests, Chains, spc[r] # "failed",
         sjob' \in [ Requests -> StrategyJob ],
         spc' \in [ Requests -> { "idle", "turn", "tools", "built", "answered", "failed" } ],
         \A s \in Requests \ {r} : sjob'[s] = sjob[s] /\ spc'[s] = spc[s],
         CallingInv(r)', spc'[r] # "failed" => sjob'[r].trace = sjob[r].trace
  PROVE  StrategyInv'
<1>1. funds' = funds /\ attested' = attested /\ lost' = lost
  BY DEF Chains
<1>2. AmountOf' = AmountOf /\ \A state : Standing(state)' = Standing(state)
  BY <1>1, AttestedFrame
<1>3. AttestedIsThere'
  BY <1>1, <1>2 DEF StrategyInv, AttestedIsThere
<1>4. ASSUME NEW s \in Requests  PROVE  CallingInv(s)'
  <2>1. CASE s = r
    BY <2>1
  <2>2. CASE s # r
    <3>1. CallingInv(s) /\ sjob'[s] = sjob[s] /\ spc'[s] = spc[s]
      BY <2>2 DEF StrategyInv
    <3> QED  BY <1>1, <3>1 DEF CallingInv
  <2> QED  BY <2>1, <2>2
<1>5. ASSUME Told'  PROVE  MintsAreTold' /\ Balanced'
  <2>1. Told /\ spc'[r] # "failed"
    BY <1>1, <1>5 DEF Told
  <2>2. MintsAreTold /\ Balanced
    BY <2>1 DEF StrategyInv
  <2>3. \A s \in Requests : sjob'[s].trace = sjob[s].trace
    BY <2>1
  <2>4. Minted' = Minted /\ Reported' = Reported
    BY <1>2, <2>3, SameReports
  <2>5. MintsAreTold'
    BY <1>1, <1>2, <2>2, <2>4 DEF MintsAreTold
  <2>6. Balanced'
    BY <1>1, <2>2, <2>4 DEF Balanced
  <2> QED  BY <2>5, <2>6
<1>6. StrategyTypeOK'
  BY <1>1 DEF StrategyInv, StrategyTypeOK
<1> QED  BY <1>3, <1>4, <1>5, <1>6 DEF StrategyInv

LEMMA FailsQuietly ==
  ASSUME StrategyInv, NEW r \in Requests, Interrupted(r)  PROVE  StrategyInv'
<1>1. /\ Chains /\ spc[r] # "failed"
      /\ sjob' = [ sjob EXCEPT ![r] = NewStrategyJob ] /\ spc' = [ spc EXCEPT ![r] = "failed" ]
  BY DEF Interrupted, Fail, Enter
<1>2. /\ sjob \in [ Requests -> StrategyJob ]
      /\ spc \in [ Requests -> { "idle", "turn", "tools", "built", "answered", "failed" } ]
  BY DEF StrategyInv, StrategyTypeOK
<1>3. /\ sjob' \in [ Requests -> StrategyJob ]
      /\ spc' \in [ Requests -> { "idle", "turn", "tools", "built", "answered", "failed" } ]
      /\ \A s \in Requests \ {r} : sjob'[s] = sjob[s] /\ spc'[s] = spc[s]
      /\ sjob'[r] = NewStrategyJob /\ spc'[r] = "failed"
  BY <1>1, <1>2, NewStrategyJobType
<1>4. CallingInv(r)'
  BY <1>3, NewStrategyJobType DEF CallingInv
<1> QED  BY <1>1, <1>3, <1>4, QuietStep

LEMMA StartsQuietly ==
  ASSUME StrategyInv, NEW r \in Requests, Start(r)  PROVE  StrategyInv'
<1>1. /\ Chains /\ spc[r] = "idle" /\ sjob' = sjob /\ spc' = [ spc EXCEPT ![r] = "turn" ]
  BY DEF Start, Enter
<1>2. /\ sjob \in [ Requests -> StrategyJob ] /\ CallingInv(r)
      /\ spc \in [ Requests -> { "idle", "turn", "tools", "built", "answered", "failed" } ]
  BY DEF StrategyInv, StrategyTypeOK
<1>3. /\ sjob' \in [ Requests -> StrategyJob ]
      /\ spc' \in [ Requests -> { "idle", "turn", "tools", "built", "answered", "failed" } ]
      /\ \A s \in Requests \ {r} : sjob'[s] = sjob[s] /\ spc'[s] = spc[s]
      /\ sjob'[r] = sjob[r] /\ spc'[r] = "turn"
  BY <1>1, <1>2
<1>4. CallingInv(r)'
  BY <1>1, <1>2, <1>3 DEF CallingInv, Chains
<1> QED  BY <1>1, <1>3, <1>4, QuietStep

LEMMA ConcludesQuietly ==
  ASSUME StrategyInv, NEW r \in Requests, Conclude(r)  PROVE  StrategyInv'
<1>1. /\ Chains /\ spc[r] = "turn" /\ spc' = [ spc EXCEPT ![r] = "answered" ]
      /\ sjob' = [ sjob EXCEPT ![r].messages = <<>> ]
  BY DEF Conclude, Enter
<1>2. /\ sjob \in [ Requests -> StrategyJob ] /\ CallingInv(r)
      /\ spc \in [ Requests -> { "idle", "turn", "tools", "built", "answered", "failed" } ]
  BY DEF StrategyInv, StrategyTypeOK
<1>3. [ sjob[r] EXCEPT !.messages = <<>> ] \in StrategyJob
  <2>1. <<>> \in Seq(Message(StrategySpoken))
    OBVIOUS
  <2> QED  BY <1>2, <2>1 DEF StrategyJob, StrategySpoken
<1>4. /\ sjob'[r] = [ sjob[r] EXCEPT !.messages = <<>> ]
      /\ \A s \in Requests \ {r} : sjob'[s] = sjob[s] /\ spc'[s] = spc[s]
      /\ spc'[r] = "answered"
      /\ spc' \in [ Requests -> { "idle", "turn", "tools", "built", "answered", "failed" } ]
  BY <1>1, <1>2
<1>5. sjob' \in [ Requests -> StrategyJob ]
  BY <1>1, <1>2, <1>3
<1>6. /\ sjob'[r].trace = sjob[r].trace /\ sjob'[r].calls = sjob[r].calls
      /\ sjob'[r].held = sjob[r].held
  BY <1>2, <1>4 DEF StrategyJob
<1>7. CallingInv(r)'
  BY <1>1, <1>2, <1>4, <1>6 DEF CallingInv, Chains
<1> QED  BY <1>1, <1>4, <1>5, <1>6, <1>7, QuietStep

LEMMA BuildsQuietly ==
  ASSUME StrategyInv, NEW r \in Requests, BuildOp(r)  PROVE  StrategyInv'
<1>1. /\ Chains /\ spc[r] = "tools" /\ Head(sjob[r].calls).name \in UserOps
      /\ spc' = [ spc EXCEPT ![r] = "built" ]
      /\ sjob' = [ sjob EXCEPT ![r].fresh = TRUE ]
  BY DEF BuildOp, Enter, Calls
<1>2. /\ sjob \in [ Requests -> StrategyJob ] /\ CallingInv(r)
      /\ spc \in [ Requests -> { "idle", "turn", "tools", "built", "answered", "failed" } ]
  BY DEF StrategyInv, StrategyTypeOK
<1>3. [ sjob[r] EXCEPT !.fresh = TRUE ] \in StrategyJob
  BY <1>2 DEF StrategyJob
<1>4. /\ sjob'[r] = [ sjob[r] EXCEPT !.fresh = TRUE ]
      /\ \A s \in Requests \ {r} : sjob'[s] = sjob[s] /\ spc'[s] = spc[s]
      /\ spc'[r] = "built"
      /\ spc' \in [ Requests -> { "idle", "turn", "tools", "built", "answered", "failed" } ]
  BY <1>1, <1>2
<1>5. sjob' \in [ Requests -> StrategyJob ]
  BY <1>1, <1>2, <1>3
<1>6. /\ sjob'[r].trace = sjob[r].trace /\ sjob'[r].calls = sjob[r].calls
      /\ sjob'[r].held = sjob[r].held /\ sjob'[r].turn = sjob[r].turn
  BY <1>2, <1>4 DEF StrategyJob
<1>7. CallingInv(r)'
  BY <1>1, <1>2, <1>4, <1>6 DEF CallingInv, Chains
<1> QED  BY <1>1, <1>4, <1>5, <1>6, <1>7, QuietStep

(* A turn of the model asks for calls of its own making; an attestation    *)
(* that it mints is one that its request was given, or none.               *)
LEMMA TurnCalls ==
  ASSUME StrategyInv, NEW r \in Requests, ModelTurns(r)
  PROVE  \E text \in StrategySpoken, calls \in Seq(Call) :
           /\ calls # <<>> /\ TakeTurn(r, text, calls)
           /\ \A i \in DOMAIN calls : calls[i].name = "mint_on_destination"
                                        => calls[i].arg \in sjob[r].held \cup {0}
<1>1. sjob[r] \in StrategyJob
  BY DEF StrategyInv, StrategyTypeOK
<1>2. PICK plan \in Plans :
        \E args \in [ DOMAIN plan.tools -> Amounts \cup sjob[r].held \cup {0} ] :
           /\ \A i \in DOMAIN args : args[i] \in Arguments(r, plan.tools[i])
           /\ TakeTurn(r, plan.text,
                [ i \in DOMAIN args |-> [ name |-> plan.tools[i], arg |-> args[i] ] ])
  BY DEF ModelTurns
<1>3. PICK args \in [ DOMAIN plan.tools -> Amounts \cup sjob[r].held \cup {0} ] :
           /\ \A i \in DOMAIN args : args[i] \in Arguments(r, plan.tools[i])
           /\ TakeTurn(r, plan.text,
                [ i \in DOMAIN args |-> [ name |-> plan.tools[i], arg |-> args[i] ] ])
  BY <1>2
<1> DEFINE calls == [ i \in DOMAIN args |-> [ name |-> plan.tools[i], arg |-> args[i] ] ]
<1>4. /\ plan.text \in StrategySpoken
      /\ plan.tools \in Seq(StrategyTools) /\ plan.tools # <<>>
  BY StrategyAssumption DEF StrategySpoken
<1>5. calls \in Seq(Call) /\ calls # <<>>
  <2>1. \A i \in DOMAIN plan.tools : plan.tools[i] \in StrategyTools
    BY <1>4
  <2>2. \A i \in DOMAIN plan.tools : args[i] \in Nat
    <3>1. sjob[r].held \subseteq Nat
      BY <1>1 DEF StrategyJob
    <3>2. Amounts \subseteq Nat
      BY StrategyAssumption
    <3>3. \A n \in Amounts \cup sjob[r].held \cup {0} : n \in Nat
      <4>1. \A n \in Amounts : n \in Nat
        BY <3>2
      <4>2. \A n \in sjob[r].held : n \in Nat
        BY <3>1
      <4> QED  BY <4>1, <4>2
    <3> QED  BY <3>3
  <2>3. calls \in [ DOMAIN plan.tools -> Call ]
    BY <2>1, <2>2 DEF Call
  <2>4. calls \in Seq(Call) /\ Len(calls) = Len(plan.tools)
    BY <1>4, <2>3, MapSeq
  <2> QED  BY <1>4, <2>4
<1>6. \A i \in DOMAIN calls : calls[i].name = "mint_on_destination"
                                => calls[i].arg \in sjob[r].held \cup {0}
  BY <1>3 DEF Arguments
<1>7. TakeTurn(r, plan.text, calls)
  BY <1>3
<1> HIDE DEF calls
<1> QED  BY <1>4, <1>5, <1>6, <1>7

LEMMA TurnsQuietly ==
  ASSUME StrategyInv, NEW r \in Requests, ModelTurns(r)  PROVE  StrategyInv'
<1>1. /\ sjob \in [ Requests -> StrategyJob ] /\ CallingInv(r)
      /\ spc \in [ Requests -> { "idle", "turn", "tools", "built", "answered", "failed" } ]
      /\ sjob[r] \in StrategyJob
  BY DEF StrategyInv, StrategyTypeOK
<1>2. PICK text \in StrategySpoken, calls \in Seq(Call) :
        /\ calls # <<>> /\ TakeTurn(r, text, calls)
        /\ \A i \in DOMAIN calls : calls[i].name = "mint_on_destination"
                                     => calls[i].arg \in sjob[r].held \cup {0}
  BY TurnCalls
<1> DEFINE message == ToolTurnMessage(text, FALSE, CallIds(sjob[r].trace, calls))
<1>3. /\ Chains /\ spc[r] = "turn" /\ spc' = [ spc EXCEPT ![r] = "tools" ]
      /\ sjob' = [ sjob EXCEPT ![r].calls = calls, ![r].messages = Append(@, message) ]
  BY <1>2 DEF TakeTurn, Enter
<1>4. message \in Message(StrategySpoken)
  <2>1. sjob[r].trace \in Seq([ call : Call, ok : BOOLEAN ])
    BY <1>1 DEF StrategyJob
  <2>2. CallIds(sjob[r].trace, calls) \in Seq(Nat)
    BY <2>1, CallIdsType
  <2> QED  BY <2>2, ToolTurnType
<1> HIDE DEF message
<1>5. sjob' = [ sjob EXCEPT ![r] = [ sjob[r] EXCEPT !.calls = calls,
                                       !.messages = Append(sjob[r].messages, message) ] ]
  BY <1>1, <1>3 DEF StrategyJob
<1>6. [ sjob[r] EXCEPT !.calls = calls, !.messages = Append(sjob[r].messages, message) ]
         \in StrategyJob
  <2>1. Append(sjob[r].messages, message) \in Seq(Message(StrategySpoken))
    <3>1. sjob[r].messages \in Seq(Message(StrategySpoken))
      BY <1>1 DEF StrategyJob, StrategySpoken
    <3> QED  BY <1>4, <3>1
  <2> QED  BY <1>1, <2>1 DEF StrategyJob, StrategySpoken
<1>7. /\ sjob' \in [ Requests -> StrategyJob ]
      /\ \A s \in Requests \ {r} : sjob'[s] = sjob[s] /\ spc'[s] = spc[s]
      /\ spc'[r] = "tools"
      /\ spc' \in [ Requests -> { "idle", "turn", "tools", "built", "answered", "failed" } ]
  BY <1>1, <1>3, <1>5, <1>6
<1>8. /\ sjob'[r].trace = sjob[r].trace /\ sjob'[r].calls = calls
      /\ sjob'[r].held = sjob[r].held /\ sjob'[r].turn = sjob[r].turn
  BY <1>1, <1>5 DEF StrategyJob
<1>9. CallingInv(r)'
  BY <1>1, <1>2, <1>3, <1>7, <1>8 DEF CallingInv, Chains
<1> QED  BY <1>3, <1>7, <1>8, <1>9, QuietStep

-----------------------------------------------------------------------------
(* The invariant holds, and it is what the property needs.                 *)
LEMMA HeadOfCalls ==
  ASSUME StrategyInv, NEW r \in Requests, spc[r] \in { "tools", "built" }
  PROVE  LET c == Head(sjob[r].calls)
         IN  /\ c \in Call
             /\ c.name = "mint_on_destination" /\ c.arg # 0 => c.arg \in DOMAIN attested
             /\ spc[r] = "built" => c.name \in UserOps
<1>1. CallingInv(r) /\ sjob[r].calls \in Seq(Call) /\ sjob[r].calls # <<>>
  BY StrategyJobFields DEF StrategyInv, CallingInv, StrategyJob
<1>2. 1 \in DOMAIN sjob[r].calls /\ Head(sjob[r].calls) = sjob[r].calls[1]
  BY <1>1
<1>3. Head(sjob[r].calls) \in Call
  BY <1>1
<1> QED  BY <1>1, <1>2, <1>3 DEF CallingInv

LEMMA OwnCallEnds ==
  ASSUME StrategyInv, NEW r \in Requests, spc[r] \in { "tools", "built" },
         NEW ok \in BOOLEAN, Return(r, sjob, ok), UNCHANGED attested,
         NEW c, c = Head(sjob[r].calls),
         ok /\ c.name = "mint_on_destination" => c.arg # 0
  PROVE  CallEnds(r, sjob, ok)
<1>1. sjob \in [ Requests -> StrategyJob ]
  BY DEF StrategyInv, StrategyTypeOK
<1>2. \A s \in Requests : sjob[s].held \subseteq DOMAIN attested
  BY DEF StrategyInv, CallingInv
<1>3. c.name = "mint_on_destination" /\ c.arg # 0 => c.arg \in DOMAIN attested
  BY HeadOfCalls
<1> QED  BY <1>1, <1>2, <1>3 DEF CallEnds

LEMMA IncludedCall ==
  ASSUME StrategyInv, NEW r \in Requests, OpIncluded(r)  PROVE  StrategyInv'
<1> DEFINE c == Head(sjob[r].calls)
           effects == Effects(c.name, funds, c.arg)
<1>1. /\ spc[r] = "built" /\ UNCHANGED attested
      /\ IF effects = {} THEN UNCHANGED funds ELSE funds' \in effects
      /\ \/ Return(r, Spent(r), effects # {}) /\ UNCHANGED lost
         \/ effects # {} /\ Return(r, Spent(r), FALSE) /\ lost' = TRUE
  BY DEF OpIncluded, Arg, Verified
<1>2. c \in Call /\ c.name \in UserOps
  BY <1>1, HeadOfCalls
<1>3. /\ Spent(r) \in [ Requests -> StrategyJob ]
      /\ \A s \in Requests : /\ Spent(r)[s].turn = sjob[s].turn
                             /\ Spent(r)[s].calls = sjob[s].calls
                             /\ Spent(r)[s].trace = sjob[s].trace
                             /\ Spent(r)[s].held = sjob[s].held
  <2>1. ASSUME NEW s \in Requests
        PROVE  /\ Spent(r)[s] \in StrategyJob
               /\ Spent(r)[s].turn = sjob[s].turn /\ Spent(r)[s].calls = sjob[s].calls
               /\ Spent(r)[s].trace = sjob[s].trace /\ Spent(r)[s].held = sjob[s].held
    <3>1. sjob[s] \in StrategyJob
      BY StrategyJobFields DEF StrategyInv
    <3>2. [ sjob[s] EXCEPT !.fresh = FALSE ] \in StrategyJob
      BY <3>1 DEF StrategyJob
    <3>3. /\ [ sjob[s] EXCEPT !.fresh = FALSE ].turn = sjob[s].turn
          /\ [ sjob[s] EXCEPT !.fresh = FALSE ].calls = sjob[s].calls
          /\ [ sjob[s] EXCEPT !.fresh = FALSE ].trace = sjob[s].trace
          /\ [ sjob[s] EXCEPT !.fresh = FALSE ].held = sjob[s].held
      BY <3>1 DEF StrategyJob
    <3>4. Spent(r)[s] = sjob[s] \/ Spent(r)[s] = [ sjob[s] EXCEPT !.fresh = FALSE ]
      BY DEF Spent
    <3> QED  BY <3>1, <3>2, <3>3, <3>4
  <2>2. Spent(r) = [ s \in Requests |-> Spent(r)[s] ]
    BY DEF Spent
  <2> HIDE DEF effects
  <2> QED  BY <2>1, <2>2
<1>4. \A s \in Requests : sjob[s].held \subseteq DOMAIN attested
  BY DEF StrategyInv, CallingInv
<1>5. lost \in BOOLEAN /\ c.name # "mint_on_destination"
  BY <1>2 DEF StrategyInv, StrategyTypeOK, UserOps
<1> HIDE DEF effects
<1>6. PICK ok \in BOOLEAN : /\ Return(r, Spent(r), ok)
                            /\ \/ ok = (effects # {}) /\ UNCHANGED lost
                               \/ ok = FALSE /\ effects # {} /\ lost' = TRUE
  BY <1>1
<1>7. CallEnds(r, Spent(r), ok)
  BY <1>1, <1>3, <1>4, <1>5, <1>6 DEF CallEnds
<1>8. CASE effects = {}
  <2>1. ok = FALSE /\ Chains
    BY <1>1, <1>6, <1>8 DEF Chains
  <2> QED  BY <1>7, <2>1, QuietCall
<1>9. CASE effects # {}
  <2>1. funds' \in Effects(c.name, funds, c.arg)
    BY <1>1, <1>9 DEF effects
  <2>2. lost' \in BOOLEAN /\ (lost => lost') /\ (ok \/ lost')
    <3>1. CASE ok = (effects # {}) /\ UNCHANGED lost
      BY <1>5, <1>9, <3>1
    <3>2. CASE ok = FALSE /\ lost' = TRUE
      BY <3>2
    <3> QED  BY <1>6, <3>1, <3>2
  <2>3. UNCHANGED attested
    BY <1>1
  <2> QED  BY <1>2, <1>7, <2>1, <2>2, <2>3, OpCall
<1> QED  BY <1>8, <1>9

LEMMA QuietCalls ==
  ASSUME StrategyInv, NEW r \in Requests,
         \/ Read(r) \/ CallFails(r) \/ OpStale(r) \/ BurnRefused(r) \/ MintInVain(r)
  PROVE  StrategyInv'
<1> DEFINE c == Head(sjob[r].calls)
<1>1. ASSUME NEW ok \in BOOLEAN, spc[r] \in { "tools", "built" }, Return(r, sjob, ok), Chains,
             ok => \/ c.name = "check_balances"
                   \/ /\ c.name = "mint_on_destination" /\ c.arg # 0
                      /\ attested[c.arg].state = "sent"
      PROVE  StrategyInv'
  <2>1. UNCHANGED attested
    BY <1>1 DEF Chains
  <2>2. ok /\ c.name = "mint_on_destination" => c.arg # 0
    BY <1>1
  <2>3. CallEnds(r, sjob, ok)
    BY <1>1, <2>1, <2>2, OwnCallEnds
  <2>4. ok => \/ c.name = "check_balances"
              \/ /\ c.name = "mint_on_destination"
                 /\ c.arg \in DOMAIN attested \ Standing("open")
    BY <1>1, HeadOfCalls DEF Standing
  <2> QED  BY <1>1, <2>3, <2>4, QuietCall
<1>2. CASE Read(r)
  BY <1>1, <1>2 DEF Read, Calls
<1>3. CASE CallFails(r)
  BY <1>1, <1>3 DEF CallFails
<1>4. CASE OpStale(r)
  BY <1>1, <1>4 DEF OpStale
<1>5. CASE BurnRefused(r)
  BY <1>1, <1>5 DEF BurnRefused, Calls
<1>6. CASE MintInVain(r)
  BY <1>1, <1>6 DEF MintInVain, Calls, Arg
<1> QED  BY <1>2, <1>3, <1>4, <1>5, <1>6

LEMMA StrategyInvNext ==
  ASSUME StrategyInv, StrategyNext  PROVE  StrategyInv'
<1>1. CASE MintLands
  <2>1. PICK i \in DOMAIN attested :
          /\ attested[i].state = "sent"
          /\ funds' = LandMint(funds, "arb", attested[i].amount)
          /\ attested' = [ attested EXCEPT ![i].state = "spent" ]
          /\ UNCHANGED << lost, spc, sjob >>
    BY <1>1 DEF MintLands
  <2>2. /\ funds' = Move(funds, "arb_minting", ArbIdle, attested[i].amount)
        /\ ArbIdle \in Location \ { "arb_minting" }
    BY <2>1 DEF LandMint, MintingOn, IdleOn, Location, ArbIdle, ArcIdle, ArbAave
  <2> QED  BY <2>1, <2>2, SentMint
<1>2. CASE MintDropped
  <2>1. PICK i \in DOMAIN attested :
          /\ attested[i].state = "sent"
          /\ funds' = DropMint(funds, "arb", attested[i].amount)
          /\ attested' = [ attested EXCEPT ![i].state = "open" ]
          /\ lost' = TRUE
          /\ UNCHANGED << spc, sjob >>
    BY <1>2 DEF MintDropped
  <2>2. /\ funds' = Move(funds, "arb_minting", "arb_attested", attested[i].amount)
        /\ "arb_attested" \in Location \ { "arb_minting" }
    BY <2>1 DEF DropMint, MintingOn, AttestedFor, Location
  <2> QED  BY <2>1, <2>2, SentMint
<1>3. ASSUME NEW r \in Requests, Start(r) \/ StrategyStep(r)  PROVE  StrategyInv'
  <2>1. CASE Start(r)
    BY <2>1, StartsQuietly
  <2>2. CASE ModelTurns(r)
    BY <2>2, TurnsQuietly
  <2>3. CASE Conclude(r)
    BY <2>3, ConcludesQuietly
  <2>4. CASE Interrupted(r)
    BY <2>4, FailsQuietly
  <2>5. CASE Read(r) \/ CallFails(r) \/ OpStale(r) \/ BurnRefused(r) \/ MintInVain(r)
    BY <2>5, QuietCalls
  <2>6. CASE BuildOp(r)
    BY <2>6, BuildsQuietly
  <2>7. CASE OpIncluded(r)
    BY <2>7, IncludedCall
  <2>8. CASE Burn(r)
    BY <2>8, BurnCall
  <2>9. CASE Mint(r)
    BY <2>9, MintCall
  <2> QED  BY <1>3, <2>1, <2>2, <2>3, <2>4, <2>5, <2>6, <2>7, <2>8, <2>9 DEF StrategyStep
<1> QED  BY <1>1, <1>2, <1>3 DEF StrategyNext

LEMMA StrategyInvStutters ==
  ASSUME StrategyInv, UNCHANGED svars  PROVE  StrategyInv'
<1>1. UNCHANGED << funds, attested, lost, spc, sjob >>
  BY DEF svars
<1>2. AmountOf' = AmountOf /\ \A state : Standing(state)' = Standing(state)
  BY <1>1, AttestedFrame
<1>3. Minted' = Minted /\ Reported' = Reported
  BY <1>1, <1>2, SameReports
<1>4. AttestedIsThere'
  BY <1>1, <1>2 DEF StrategyInv, AttestedIsThere
<1>5. Told' => MintsAreTold' /\ Balanced'
  BY <1>1, <1>2, <1>3 DEF StrategyInv, Told, MintsAreTold, Balanced
<1>6. StrategyTypeOK' /\ \A r \in Requests : CallingInv(r)'
  BY <1>1 DEF StrategyInv, StrategyTypeOK, CallingInv
<1> QED  BY <1>4, <1>5, <1>6 DEF StrategyInv

LEMMA SumNone == ASSUME NEW w  PROVE  SumOver(w, {}) = 0
BY FS_EmptySet, SumUnfold

LEMMA SumOne ==
  ASSUME NEW w, NEW x, w[x] \in Nat  PROVE  SumOver(w, {x}) = w[x]
<1>1. IsFiniteSet({}) /\ x \notin {} /\ {} \cup {x} = {x} /\ \A y \in {} \cup {x} : w[y] \in Nat
  BY FS_EmptySet
<1>2. SumOver(w, {} \cup {x}) = w[x] + SumOver(w, {})
  BY <1>1, SumAdd
<1>3. SumOver(w, {}) = 0
  BY SumNone
<1> QED  BY <1>1, <1>2, <1>3

LEMMA SumTwo ==
  ASSUME NEW w, NEW x, NEW y, x # y, w[x] \in Nat, w[y] \in Nat
  PROVE  SumOver(w, {x, y}) = w[x] + w[y]
<1>1. IsFiniteSet({x}) /\ y \notin {x} /\ {x} \cup {y} = {x, y}
      /\ \A z \in {x} \cup {y} : w[z] \in Nat
  BY FS_Singleton
<1>2. SumOver(w, {x} \cup {y}) = w[y] + SumOver(w, {x})
  BY <1>1, SumAdd
<1>3. SumOver(w, {x}) = w[x]
  BY SumOne
<1>4. SumOver(w, {x, y}) = SumOver(w, {x} \cup {y})
  BY <1>1
<1>5. w[y] + w[x] = w[x] + w[y]
  OBVIOUS
<1> QED  BY <1>2, <1>3, <1>4, <1>5, Zenon

LEMMA StrategyInvInit == StrategyInit => StrategyInv
<1> SUFFICES ASSUME StrategyInit  PROVE StrategyInv
  OBVIOUS
<1>1. /\ funds = [ l \in Location |-> IF l = ArcIdle THEN Endowment ELSE 0 ]
      /\ attested = <<>> /\ lost = FALSE
      /\ spc  = [ r \in Requests |-> "idle" ]
      /\ sjob = [ r \in Requests |-> NewStrategyJob ]
  BY DEF StrategyInit
<1>2. StrategyTypeOK
  <2>1. funds \in Account
    BY <1>1, StrategyAssumption DEF Account
  <2>2. attested \in Seq(Attestation)
    BY <1>1
  <2> QED  BY <1>1, <2>1, <2>2, NewStrategyJobType DEF StrategyTypeOK
<1>3. \A r \in Requests : CallingInv(r)
  BY <1>1, NewStrategyJobType DEF CallingInv
<1>4. \A state : Standing(state) = {}
  BY <1>1 DEF Standing
<1>5. DOMAIN attested = {}
  BY <1>1
<1>6. \A name : Done(name) = {}
  BY <1>1, NewStrategyJobType DEF Done
<1>7. Minted = {}
  BY <1>6 DEF Minted
<1>8. \A name \in WriteTools : Reported[name] = 0
  <2>1. Reported = [ name \in WriteTools |->
                      IF name = "mint_on_destination"
                        THEN SumOver(AmountOf, {})
                        ELSE SumOver([ d \in {} |-> Entry(d).arg ], {}) ]
    BY <1>6, <1>7 DEF Reported
  <2>2. SumOver(AmountOf, {}) = 0 /\ SumOver([ d \in {} |-> Entry(d).arg ], {}) = 0
    BY SumNone
  <2> QED  BY <2>1, <2>2
<1>9. /\ funds[ArcIdle] = Endowment
      /\ \A l \in { ArbIdle, ArbAave, "arc_escrow", "arb_attested", "arb_minting", "fees" } :
           funds[l] = 0
  BY <1>1 DEF Location, ArcIdle, ArbIdle, ArbAave
<1>10. AttestedIsThere
  BY <1>4, <1>9, SumNone DEF AttestedIsThere
<1>11. MintsAreTold
  BY <1>5, <1>7 DEF MintsAreTold
<1>12. Balanced
  <2>1. /\ Reported["deposit_to_gateway"] = 0 /\ Reported["burn_intent_to_attestation"] = 0
        /\ Reported["mint_on_destination"] = 0 /\ Reported["supply_aave"] = 0
        /\ Reported["withdraw_aave"] = 0
    BY <1>8 DEF WriteTools, UserOps
  <2> QED  BY <1>9, <2>1, StrategyAssumption DEF Balanced
<1> QED  BY <1>2, <1>3, <1>10, <1>11, <1>12 DEF StrategyInv

(* The balances, place by place, are what the property says.               *)
LEMMA BalancedExplains ==
  ASSUME StrategyInv  PROVE  ReportsExplainFunds
<1> SUFFICES ASSUME ~lost, \A r \in Requests : spc[r] \in { "idle", "answered" },
                    NEW place \in Places
             PROVE  SumOver(funds, place)
                      = (IF place = {ArcIdle} THEN Endowment ELSE 0)
                        + SumOver(Reported, { name \in WriteTools : Goes(name)[2] \in place })
                        - SumOver(Reported, { name \in WriteTools : Goes(name)[1] \in place })
  BY DEF ReportsExplainFunds
<1>1. Balanced
  BY DEF StrategyInv, Told
<1>2. /\ funds[ArcIdle] \in Nat /\ funds["arc_escrow"] \in Nat /\ funds["fees"] \in Nat
      /\ funds["arb_attested"] \in Nat /\ funds["arb_minting"] \in Nat
      /\ funds[ArbIdle] \in Nat /\ funds[ArbAave] \in Nat /\ Endowment \in Nat
  BY StrategyAssumption DEF Account, Location, StrategyInv, StrategyTypeOK
<1>3. /\ Reported["deposit_to_gateway"] \in Nat
      /\ Reported["burn_intent_to_attestation"] \in Nat
      /\ Reported["mint_on_destination"] \in Nat /\ Reported["supply_aave"] \in Nat
      /\ Reported["withdraw_aave"] \in Nat
  BY ReportTypes DEF WriteTools, UserOps
<1> DEFINE Into == { name \in WriteTools : Goes(name)[2] \in place }
           From == { name \in WriteTools : Goes(name)[1] \in place }
<1>4. /\ Goes("deposit_to_gateway") = << ArcIdle, "arc_escrow" >>
      /\ Goes("burn_intent_to_attestation") = << "arc_escrow", "arb_attested" >>
      /\ Goes("mint_on_destination") = << "arb_attested", "arb_minting" >>
      /\ Goes("supply_aave") = << ArbIdle, ArbAave >>
      /\ Goes("withdraw_aave") = << ArbAave, ArbIdle >>
  BY DEF Goes
<1>5. WriteTools = { "deposit_to_gateway", "burn_intent_to_attestation",
                     "mint_on_destination", "supply_aave", "withdraw_aave" }
  BY DEF WriteTools, UserOps
<1>6. CASE place = {ArcIdle}
  <2>1. Into = {} /\ From = { "deposit_to_gateway" }
    BY <1>4, <1>5, <1>6 DEF ArcIdle, ArbIdle, ArbAave
  <2>2. /\ SumOver(funds, place) = funds[ArcIdle] /\ SumOver(Reported, Into) = 0
        /\ SumOver(Reported, From) = Reported["deposit_to_gateway"]
    BY <1>2, <1>3, <1>6, <2>1, SumNone, SumOne
  <2>3. funds[ArcIdle] = Endowment - Reported["deposit_to_gateway"]
    BY <1>1 DEF Balanced
  <2> HIDE DEF Into, From
  <2> QED  BY <1>2, <1>3, <1>6, <2>2, <2>3 DEF Into, From
<1>7. ASSUME place # {ArcIdle}, NEW have, SumOver(funds, place) = have,
             NEW into \in Nat, SumOver(Reported, Into) = into,
             NEW from \in Nat, SumOver(Reported, From) = from, have = into - from
      PROVE  SumOver(funds, place)
               = (IF place = {ArcIdle} THEN Endowment ELSE 0)
                 + SumOver(Reported, Into) - SumOver(Reported, From)
  BY <1>7
<1>8. CASE place = { "arc_escrow", "fees" }
  <2>1. Into = { "deposit_to_gateway" } /\ From = { "burn_intent_to_attestation" }
    BY <1>4, <1>5, <1>8 DEF ArcIdle, ArbIdle, ArbAave
  <2>2. /\ SumOver(funds, place) = funds["arc_escrow"] + funds["fees"]
        /\ SumOver(Reported, Into) = Reported["deposit_to_gateway"]
        /\ SumOver(Reported, From) = Reported["burn_intent_to_attestation"]
    BY <1>2, <1>3, <1>8, <2>1, SumTwo, SumOne
  <2>3. place # {ArcIdle}
    BY <1>8 DEF ArcIdle
  <2> QED  BY <1>1, <1>3, <1>7, <2>2, <2>3 DEF Balanced
<1>9. CASE place = { "arb_attested" }
  <2>1. Into = { "burn_intent_to_attestation" } /\ From = { "mint_on_destination" }
    BY <1>4, <1>5, <1>9 DEF ArcIdle, ArbIdle, ArbAave
  <2>2. /\ SumOver(funds, place) = funds["arb_attested"]
        /\ SumOver(Reported, Into) = Reported["burn_intent_to_attestation"]
        /\ SumOver(Reported, From) = Reported["mint_on_destination"]
    BY <1>2, <1>3, <1>9, <2>1, SumOne
  <2>3. place # {ArcIdle}
    BY <1>9 DEF ArcIdle
  <2> QED  BY <1>1, <1>3, <1>7, <2>2, <2>3 DEF Balanced
<1>10. CASE place = { "arb_minting", ArbIdle }
  <2>1. /\ Into = { "mint_on_destination", "withdraw_aave" } /\ From = { "supply_aave" }
        /\ "arb_minting" # ArbIdle
    BY <1>4, <1>5, <1>10 DEF ArcIdle, ArbIdle, ArbAave
  <2>2. /\ SumOver(funds, place) = funds["arb_minting"] + funds[ArbIdle]
        /\ SumOver(Reported, Into) = Reported["mint_on_destination"] + Reported["withdraw_aave"]
        /\ SumOver(Reported, From) = Reported["supply_aave"]
    <3>1. SumOver(funds, { "arb_minting", ArbIdle }) = funds["arb_minting"] + funds[ArbIdle]
      BY <1>2, <2>1, SumTwo
    <3>2. SumOver(Reported, { "mint_on_destination", "withdraw_aave" })
            = Reported["mint_on_destination"] + Reported["withdraw_aave"]
      BY <1>3, SumTwo
    <3>3. SumOver(Reported, { "supply_aave" }) = Reported["supply_aave"]
      BY <1>3, SumOne
    <3> QED  BY <1>10, <2>1, <3>1, <3>2, <3>3
  <2>3. place # {ArcIdle}
    BY <1>10 DEF ArcIdle
  <2>4. Reported["mint_on_destination"] + Reported["withdraw_aave"] \in Nat
    BY <1>3
  <2> QED  BY <1>1, <1>3, <1>7, <2>2, <2>3, <2>4 DEF Balanced
<1>11. CASE place = { ArbAave }
  <2>1. Into = { "supply_aave" } /\ From = { "withdraw_aave" }
    BY <1>4, <1>5, <1>11 DEF ArcIdle, ArbIdle, ArbAave
  <2>2. /\ SumOver(funds, place) = funds[ArbAave]
        /\ SumOver(Reported, Into) = Reported["supply_aave"]
        /\ SumOver(Reported, From) = Reported["withdraw_aave"]
    BY <1>2, <1>3, <1>11, <2>1, SumOne
  <2>3. place # {ArcIdle}
    BY <1>11 DEF ArcIdle, ArbAave
  <2> QED  BY <1>1, <1>3, <1>7, <2>2, <2>3 DEF Balanced
<1> QED  BY <1>6, <1>8, <1>9, <1>10, <1>11 DEF Places

-----------------------------------------------------------------------------
(* Both agents, as the run has them: neither takes part in a step of the   *)
(* other.                                                                  *)
LEMMA OneAgentSteps ==
  ASSUME [MCNext]_<< vars, svars, agent >>
  PROVE  [Next]_vars /\ [StrategyNext]_svars
BY DEF MCNext

(* What the strategy agent has attested and sent is on the account, and    *)
(* the balances are what its traces add up to, as long as no answer was    *)
(* lost and no request has failed.                                         *)
THEOREM StrategyInvariant == MCSpec => []StrategyInv
<1>1. MCInit => StrategyInv
  BY StrategyInvInit DEF MCInit
<1>2. StrategyInv /\ [MCNext]_<< vars, svars, agent >> => StrategyInv'
  BY OneAgentSteps, StrategyInvNext, StrategyInvStutters
<1> QED  BY <1>1, <1>2, PTL DEF MCSpec

(* The chat of the two agents is the chat of ChatAgent.                    *)
LEMMA ChatOfBoth == MCSpec => Spec
<1>1. MCInit => Init
  BY DEF MCInit
<1>2. [MCNext]_<< vars, svars, agent >> => [Next]_vars
  BY OneAgentSteps
<1> QED  BY <1>1, <1>2, PTL DEF MCSpec, Spec

(* Every variable of either agent keeps its type; what the strategy agent  *)
(* does overdraws no balance.                                              *)
THEOREM AgentsTypeOK == MCSpec => []AgentTypeOK
<1>1. ChatInv /\ StrategyInv => AgentTypeOK
  BY DEF ChatInv, StrategyInv, AgentTypeOK
<1> QED  BY <1>1, ChatOfBoth, ChatInvariant, StrategyInvariant, PTL

(* Once all requests are answered the money is where their traces say that *)
(* they have put it, for any number of requests on one account, with one   *)
(* nonce and mints that nobody awaits, unless an answer or a mint was lost. *)
THEOREM StrategyReportsExplainFunds == MCSpec => []ReportsExplainFunds
<1>1. StrategyInv => ReportsExplainFunds
  BY BalancedExplains
<1> QED  BY <1>1, StrategyInvariant, PTL

-----------------------------------------------------------------------------
(* What a provider makes of a conversation.                                *)
(* The blocks of a type are n, next to each other.                         *)
InARun(m, type, a, n) ==
  \A k : k \in DOMAIN m.content /\ m.content[k].type = type <=> k \in a + 1 .. a + n

LEMMA BlocksInARun ==
  ASSUME NEW m, NEW type, NEW a \in Nat, NEW n \in Nat,
         InARun(m, type, a, n)
  PROVE  OfType(m, type) = [ k \in 1 .. n |-> m.content[a + k] ]
<1> DEFINE own == { k \in DOMAIN m.content : m.content[k].type = type }
           Nth(k) == CHOOSE i \in own : Cardinality({ j \in own : j <= i }) = k
<1> USE DEF InARun
<1>1. own = a + 1 .. a + n /\ Cardinality(own) = n
  <2>1. Cardinality(a + 1 .. a + n) = IF a + 1 > a + n THEN 0 ELSE a + n - (a + 1) + 1
    BY FS_Interval
  <2>2. Cardinality(own) = Cardinality(a + 1 .. a + n)
    OBVIOUS
  <2> HIDE DEF own
  <2>3. Cardinality(own) = n
    BY <2>1, <2>2
  <2> QED  BY <2>3 DEF own
<1>2. OfType(m, type) = [ k \in 1 .. Cardinality(own) |-> m.content[Nth(k)] ]
  BY DEF OfType, Selected
<1> HIDE DEF own
<1>3. ASSUME NEW i \in own  PROVE  Cardinality({ j \in own : j <= i }) = i - a
  <2>1. { j \in own : j <= i } = a + 1 .. i /\ i \in Int /\ i >= a + 1
    BY <1>1, <1>3
  <2>2. Cardinality(a + 1 .. i) = i - (a + 1) + 1
    BY <2>1, FS_Interval
  <2>3. Cardinality({ j \in own : j <= i }) = Cardinality(a + 1 .. i)
    BY <2>1
  <2> QED  BY <2>1, <2>2, <2>3
<1>4. ASSUME NEW k \in 1 .. n  PROVE  Nth(k) = a + k
  <2>1. a + k \in own /\ Cardinality({ j \in own : j <= a + k }) = k
    <3>1. a + k \in own
      BY <1>1
    <3>2. Cardinality({ j \in own : j <= a + k }) = a + k - a
      BY <1>3, <3>1
    <3> QED  BY <3>1, <3>2
  <2>2. Nth(k) \in own /\ Cardinality({ j \in own : j <= Nth(k) }) = k
    BY <2>1
  <2> HIDE DEF Nth
  <2>3. Nth(k) - a = k /\ Nth(k) \in Int
    <3>1. Cardinality({ j \in own : j <= Nth(k) }) = Nth(k) - a
      BY <1>3, <2>2
    <3> QED  BY <1>1, <2>2, <3>1
  <2> QED  BY <2>3
<1> HIDE DEF Nth
<1> QED  BY <1>1, <1>2, <1>4

LEMMA NoBlocks ==
  ASSUME NEW m, NEW type, \A k \in DOMAIN m.content : m.content[k].type # type
  PROVE  OfType(m, type) = <<>> /\ IdsOf(m, type) = <<>>
<1>1. PICK a \in Nat, n \in Nat : a = 0 /\ n = 0
  OBVIOUS
<1>2. OfType(m, type) = [ k \in 1 .. n |-> m.content[a + k] ]
  <2>1. InARun(m, type, a, n)
    BY <1>1 DEF InARun
  <2> QED  BY <2>1, BlocksInARun
<1>3. OfType(m, type) = <<>>
  BY <1>1, <1>2
<1>4. IdsOf(m, type) = [ i \in 1 .. 0 |-> OfType(m, type)[i].id ]
  BY <1>3 DEF IdsOf
<1> QED  BY <1>3, <1>4

LEMMA IdsInARun ==
  ASSUME NEW m, NEW type, NEW a \in Nat, NEW ids \in Seq(Nat), InARun(m, type, a, Len(ids)),
         \A k \in DOMAIN ids : m.content[a + k].id = ids[k]
  PROVE  IdsOf(m, type) = ids
<1>1. Len(ids) \in Nat /\ DOMAIN ids = 1 .. Len(ids)
  OBVIOUS
<1>2. OfType(m, type) = [ k \in 1 .. Len(ids) |-> m.content[a + k] ]
  BY <1>1, BlocksInARun
<1>3. IdsOf(m, type) = [ k \in 1 .. Len(ids) |-> ids[k] ]
  BY <1>1, <1>2 DEF IdsOf
<1> QED  BY <1>1, <1>3

Plain(m) == /\ m.content # <<>> /\ m.role \in { "user", "assistant" }
            /\ \A k \in DOMAIN m.content : m.content[k].type = "text"

WireMessage ==
  [ role : { "user", "assistant", "tool" }, content : BOOLEAN, tool_calls : Seq(Nat),
    tool_call_id : Seq(Nat), reasoning_content : BOOLEAN ]

LEMMA OnWire ==
  ASSUME NEW m, m.role \in { "user", "assistant" }, IdsOf(m, "tool_use") \in Seq(Nat)
  PROVE  /\ OpenAiMessage(m) \in WireMessage
         /\ OpenAiMessage(m).role = m.role
         /\ OpenAiMessage(m).tool_calls = IdsOf(m, "tool_use")
<1>1. HasText(m) \in BOOLEAN /\ (OfType(m, "thinking") # <<>>) \in BOOLEAN
  BY DEF HasText
<1>2. <<>> \in Seq(Nat)
  OBVIOUS
<1> QED  BY <1>1, <1>2 DEF OpenAiMessage, WireMessage

LEMMA PlainFacts ==
  ASSUME NEW m, Plain(m)
  PROVE  /\ IdsOf(m, "tool_use") = <<>> /\ IdsOf(m, "tool_result") = <<>>
         /\ OpenAiMessages(m) = << OpenAiMessage(m) >>
         /\ OpenAiMessage(m) \in WireMessage
         /\ OpenAiMessage(m).role = m.role /\ OpenAiMessage(m).tool_calls = <<>>
<1>1. IdsOf(m, "tool_use") = <<>> /\ IdsOf(m, "tool_result") = <<>>
  BY NoBlocks DEF Plain
<1>2. OpenAiMessages(m) = << OpenAiMessage(m) >>
  BY <1>1 DEF OpenAiMessages
<1>3. IdsOf(m, "tool_use") \in Seq(Nat) /\ m.role \in { "user", "assistant" }
  <2>1. <<>> \in Seq(Nat)
    OBVIOUS
  <2> QED  BY <1>1, <2>1 DEF Plain
<1>4. /\ OpenAiMessage(m) \in WireMessage
      /\ OpenAiMessage(m).role = m.role
      /\ OpenAiMessage(m).tool_calls = IdsOf(m, "tool_use")
  BY <1>3, OnWire
<1> QED  BY <1>1, <1>2, <1>4

LEMMA TextIsPlain ==
  ASSUME NEW t
  PROVE  /\ Plain(UserMessage(<< Text(t) >>)) /\ UserMessage(<< Text(t) >>).role = "user"
         /\ Plain(AssistantMessage(<< Text(t) >>))
BY DEF Plain, UserMessage, AssistantMessage, Text

IsToolTurn(m, ids) ==
  /\ m.role = "assistant" /\ m.content # <<>>
  /\ \A k \in DOMAIN m.content : m.content[k].type = "thinking" => k = 1
  /\ IdsOf(m, "tool_use") = ids /\ IdsOf(m, "tool_result") = <<>>
  /\ OpenAiMessages(m) = << OpenAiMessage(m) >>

LEMMA ToolTurnFacts ==
  ASSUME NEW text, NEW thinks \in BOOLEAN, NEW ids \in Seq(Nat), ids # <<>>,
         NEW m, m = ToolTurnMessage(text, thinks, ids)
  PROVE  IsToolTurn(m, ids)
<1> DEFINE B == { Thinking, Text(text) } \cup { ToolUse(n) : n \in Nat }
           f == [ i \in DOMAIN ids |-> ToolUse(ids[i]) ]
           p == If(thinks, Thinking)
           q == If(text # NoText, Text(text))
           n == Len(ids)
<1>1. m.role = "assistant" /\ m.content = p \o q \o f
  BY DEF ToolTurnMessage, AssistantMessage
<1>2. /\ p \in Seq(B) /\ (p = <<>> \/ p = << Thinking >>)
      /\ q \in Seq(B) /\ (q = <<>> \/ q = << Text(text) >>)
  <2>1. Thinking \in B /\ Text(text) \in B
    OBVIOUS
  <2> HIDE DEF B
  <2> QED  BY <2>1 DEF If
<1>3. \A i \in DOMAIN ids : ids[i] \in Nat
  OBVIOUS
<1>4. n \in Nat /\ DOMAIN ids = 1 .. n /\ n # 0
  OBVIOUS
<1>5. f \in Seq(B) /\ Len(f) = n /\ \A i \in 1 .. n : f[i] = ToolUse(ids[i])
  <2>1. f \in [ DOMAIN ids -> B ]
    BY <1>3
  <2> HIDE DEF B
  <2> QED  BY <1>4, <2>1, MapSeq
<1>6. /\ Thinking.type = "thinking" /\ Text(text).type = "text"
      /\ \A k \in Nat : ToolUse(k).type = "tool_use" /\ ToolUse(k).id = k
  BY DEF Thinking, Text, ToolUse
<1> HIDE DEF B, f, p, q, n
<1>7. PICK a \in 0 .. 2 :
        /\ DOMAIN m.content = 1 .. a + n
        /\ \A k \in 1 .. a : /\ m.content[k].type \in { "thinking", "text" }
                             /\ m.content[k].type = "thinking" => k = 1
        /\ \A k \in 1 .. n : m.content[a + k] = ToolUse(ids[k])
  <2>1. m.content \in Seq(B) /\ Len(m.content) = Len(p) + Len(q) + n
    <3>1. PICK pq \in Seq(B) : pq = p \o q /\ Len(pq) = Len(p) + Len(q)
      <4>1. p \o q \in Seq(B) /\ Len(p \o q) = Len(p) + Len(q)
        BY <1>2, ConcatProperties
      <4> QED  BY <4>1
    <3>2. pq \o f \in Seq(B) /\ Len(pq \o f) = Len(pq) + Len(f)
      BY <1>5, ConcatProperties
    <3> QED  BY <1>1, <1>5, <3>1, <3>2
  <2>2. CASE p = <<>> /\ q = <<>>
    <3>1. m.content = f
      BY <1>1, <1>5, <2>2
    <3> QED  BY <1>4, <1>5, <3>1
  <2>3. CASE p = <<>> /\ q = << Text(text) >>
    <3>1. /\ DOMAIN m.content = 1 .. 1 + n /\ m.content[1] = Text(text)
          /\ \A k \in 1 .. n : m.content[1 + k] = f[k]
      BY <1>1, <1>2, <1>4, <1>5, <2>3
    <3> QED  BY <1>5, <1>6, <3>1
  <2>4. CASE p = << Thinking >> /\ q = <<>>
    <3>1. /\ DOMAIN m.content = 1 .. 1 + n /\ m.content[1] = Thinking
          /\ \A k \in 1 .. n : m.content[1 + k] = f[k]
      BY <1>1, <1>2, <1>4, <1>5, <2>4
    <3> QED  BY <1>5, <1>6, <3>1
  <2>5. CASE p = << Thinking >> /\ q = << Text(text) >>
    <3>1. /\ DOMAIN m.content = 1 .. 2 + n
          /\ m.content[1] = Thinking /\ m.content[2] = Text(text)
          /\ \A k \in 1 .. n : m.content[2 + k] = f[k]
      BY <1>1, <1>2, <1>4, <1>5, <2>5
    <3> QED  BY <1>5, <1>6, <3>1
  <2> QED  BY <1>2, <2>2, <2>3, <2>4, <2>5
<1>8. \A k \in DOMAIN m.content : k \in 1 .. a \/ (k - a \in 1 .. n /\ a + (k - a) = k)
  BY <1>4, <1>7
<1>9. \A k \in 1 .. n : m.content[a + k].type = "tool_use" /\ m.content[a + k].id = ids[k]
  BY <1>3, <1>4, <1>6, <1>7
<1>10. \A k \in DOMAIN m.content : k \notin 1 .. a => m.content[k].type = "tool_use"
  BY <1>8, <1>9
<1>11. InARun(m, "tool_use", a, n)
  BY <1>4, <1>7, <1>10 DEF InARun
<1>12. IdsOf(m, "tool_use") = ids
  <2>1. a \in Nat /\ InARun(m, "tool_use", a, Len(ids))
    BY <1>7, <1>11 DEF n
  <2>2. \A k \in DOMAIN ids : m.content[a + k].id = ids[k]
    BY <1>4, <1>9
  <2> QED  BY <2>1, <2>2, IdsInARun
<1>13. IdsOf(m, "tool_result") = <<>>
  <2>1. \A k \in DOMAIN m.content : m.content[k].type # "tool_result"
    BY <1>7, <1>10
  <2> QED  BY <2>1, NoBlocks
<1>14. m.content # <<>>
  <2>1. 1 \in DOMAIN m.content
    BY <1>4, <1>7
  <2> QED  BY <2>1
<1>15. \A k \in DOMAIN m.content : m.content[k].type = "thinking" => k = 1
  BY <1>7, <1>10
<1>16. OpenAiMessages(m) = << OpenAiMessage(m) >>
  BY <1>13 DEF OpenAiMessages
<1> QED  BY <1>1, <1>12, <1>13, <1>14, <1>15, <1>16 DEF IsToolTurn

LEMMA ResultsFacts ==
  ASSUME NEW ids \in Seq(Nat), ids # <<>>, NEW m, m = ResultsMessage(ids)
  PROVE  /\ m.role = "user" /\ m.content # <<>>
         /\ \A k \in DOMAIN m.content : m.content[k].type # "thinking"
         /\ IdsOf(m, "tool_use") = <<>> /\ IdsOf(m, "tool_result") = ids
         /\ OpenAiMessages(m) = [ i \in DOMAIN ids |-> ToolMessage(ids[i]) ]
<1> DEFINE n == Len(ids)
           f == [ i \in DOMAIN ids |-> ToolMessage(ids[i]) ]
<1>1. n \in Nat /\ DOMAIN ids = 1 .. n /\ n # 0 /\ ids = [ k \in 1 .. n |-> ids[k] ]
  OBVIOUS
<1>2. /\ m.role = "user" /\ DOMAIN m.content = 1 .. n
      /\ \A k \in 1 .. n : m.content[k].type = "tool_result" /\ m.content[k].id = ids[k]
  BY <1>1 DEF ResultsMessage, UserMessage, ToolResult
<1> HIDE DEF n
<1>3. m.content # <<>>
  BY <1>1, <1>2
<1>4. IdsOf(m, "tool_use") = <<>>
  BY <1>2, NoBlocks
<1>5. IdsOf(m, "tool_result") = ids
  <2>1. PICK a \in Nat : a = 0
    OBVIOUS
  <2>2. InARun(m, "tool_result", a, Len(ids))
    BY <1>1, <1>2, <2>1 DEF InARun, n
  <2>3. \A k \in DOMAIN ids : m.content[a + k].id = ids[k]
    BY <1>1, <1>2, <2>1
  <2> QED  BY <2>2, <2>3, IdsInARun
<1>6. OpenAiMessages(m) = f
  <2>1. ~HasText(m)
    BY <1>2 DEF HasText
  <2>2. OpenAiMessages(m) = f \o <<>>
    BY <1>2, <1>5, <2>1 DEF OpenAiMessages, If
  <2>3. f \in Seq({ ToolMessage(ids[i]) : i \in DOMAIN ids })
    <3>1. f \in [ DOMAIN ids -> { ToolMessage(ids[i]) : i \in DOMAIN ids } ]
      OBVIOUS
    <3> QED  BY <3>1, MapSeq
  <2> HIDE DEF f
  <2> QED  BY <2>2, <2>3
<1> QED  BY <1>2, <1>3, <1>4, <1>5, <1>6
-----------------------------------------------------------------------------
(* A message, and the results of its calls, are the end of a request that  *)
(* was one a provider takes.                                               *)
ToolRun(w, i) == { k \in i + 1 .. Len(w) : \A j \in i + 1 .. k : w[j].role = "tool" }

LEMMA ToolIds ==
  ASSUME NEW id  PROVE  ToolMessage(id).role = "tool" /\ ToolMessage(id).tool_call_id[1] = id
BY DEF ToolMessage

AreResults(v, q, n) == \A j \in q + 1 .. q + n : v[j].role = "tool"

LEMMA ResultsFollow ==
  ASSUME NEW v, NEW q \in Nat, NEW n \in Nat, \A i \in 1 .. n : v[q + i].role = "tool"
  PROVE  AreResults(v, q, n)
<1> SUFFICES ASSUME NEW j \in q + 1 .. q + n  PROVE  v[j].role = "tool"
  BY DEF AreResults
<1>1. j - q \in 1 .. n /\ j = q + (j - q)
  OBVIOUS
<1> QED  BY <1>1

Continues(v, w, m, ids, q, n) ==
  /\ q = Len(w) + 1 /\ n = Len(ids) /\ Len(v) = q + n
  /\ \A i \in 1 .. Len(w) : v[i] = w[i]
  /\ v[q] = m /\ m.role # "tool" /\ m.tool_calls = ids
  /\ \A i \in 1 .. n : v[q + i] = ToolMessage(ids[i])

LEMMA AcceptsGrows ==
  ASSUME NEW w \in Seq(WireMessage), w = <<>> \/ OpenAiAccepts(w),
         NEW m, NEW ids \in Seq(Nat), NEW v \in Seq(WireMessage),
         NEW q \in Nat, NEW n \in Nat, Continues(v, w, m, ids, q, n)
  PROVE  OpenAiAccepts(v)
<1>1. /\ q \in Nat /\ q >= 1 /\ n \in Nat
      /\ DOMAIN w = 1 .. q - 1 /\ Len(w) = q - 1
      /\ DOMAIN v = 1 .. q + n /\ Len(v) = q + n
      /\ \A i \in 1 .. q - 1 : v[i] = w[i]
      /\ v[q].role # "tool" /\ v[q].tool_calls = ids
      /\ ids = [ k \in 1 .. n |-> ids[k] ]
  BY DEF Continues
<1>2. \A i \in 1 .. n : v[q + i].role = "tool" /\ v[q + i].tool_call_id[1] = ids[i]
  <2>1. \A i \in 1 .. n : v[q + i] = ToolMessage(ids[i])
    BY DEF Continues
  <2> TAKE i \in 1 .. n
  <2>2. v[q + i] = ToolMessage(ids[i])
    BY <2>1
  <2>3. ToolMessage(ids[i]).role = "tool" /\ ToolMessage(ids[i]).tool_call_id[1] = ids[i]
    BY ToolIds
  <2> QED  BY <2>2, <2>3
<1>3. \A j \in q + 1 .. q + n : v[j].role = "tool"
  <2>1. \A i \in 1 .. n : v[q + i].role = "tool"
    BY <1>2
  <2>2. AreResults(v, q, n)
    BY <2>1, ResultsFollow
  <2> QED  BY <2>2 DEF AreResults
<1>4. ASSUME NEW i \in 1 .. q - 1, v[i].role # "tool"
      PROVE  v[i].tool_calls
               = [ k \in 1 .. Cardinality(ToolRun(v, i)) |-> v[i + k].tool_call_id[1] ]
  <2>1. OpenAiAccepts(w) /\ w[i].role # "tool" /\ v[i] = w[i]
    BY <1>1, <1>4
  <2>2. w[i].tool_calls
          = [ k \in 1 .. Cardinality(ToolRun(w, i)) |-> w[i + k].tool_call_id[1] ]
    BY <1>1, <2>1 DEF OpenAiAccepts, ToolRun
  <2>3. ToolRun(v, i) = ToolRun(w, i)
    <3>1. ASSUME NEW k \in ToolRun(v, i)  PROVE  k \in ToolRun(w, i)
      <4>1. k \in i + 1 .. q + n /\ \A j \in i + 1 .. k : v[j].role = "tool"
        BY <1>1, <3>1 DEF ToolRun
      <4>2. k < q
        <5>1. q \notin i + 1 .. k
          BY <1>1, <4>1
        <5> QED  BY <1>1, <4>1, <5>1
      <4>3. k \in i + 1 .. q - 1 /\ \A j \in i + 1 .. k : j \in 1 .. q - 1
        BY <1>1, <4>1, <4>2
      <4>4. \A j \in i + 1 .. k : w[j].role = "tool"
        BY <1>1, <4>1, <4>3
      <4> QED  BY <1>1, <4>3, <4>4 DEF ToolRun
    <3>2. ASSUME NEW k \in ToolRun(w, i)  PROVE  k \in ToolRun(v, i)
      <4>1. k \in i + 1 .. q - 1 /\ \A j \in i + 1 .. k : w[j].role = "tool"
        BY <1>1, <3>2 DEF ToolRun
      <4>2. k \in i + 1 .. q + n /\ \A j \in i + 1 .. k : j \in 1 .. q - 1
        BY <1>1, <4>1
      <4>3. \A j \in i + 1 .. k : v[j].role = "tool"
        BY <1>1, <4>1, <4>2
      <4> QED  BY <1>1, <4>2, <4>3 DEF ToolRun
    <3> QED  BY <3>1, <3>2
  <2>4. Cardinality(ToolRun(w, i)) \in Nat /\ Cardinality(ToolRun(w, i)) <= q - 1 - i
    <3>1. ToolRun(w, i) \in SUBSET (i + 1 .. q - 1)
      BY <1>1 DEF ToolRun
    <3>2. IsFiniteSet(i + 1 .. q - 1) /\ Cardinality(i + 1 .. q - 1) = q - 1 - i
      <4>1. \E a \in Int, b \in Int : a = i + 1 /\ b = q - 1
        <5>1. i + 1 \in Int /\ q - 1 \in Int
          BY <1>1
        <5> QED  BY <5>1
      <4>2. PICK a \in Int, b \in Int : a = i + 1 /\ b = q - 1
        BY <4>1
      <4>3. IsFiniteSet(a .. b) /\ Cardinality(a .. b) = IF a > b THEN 0 ELSE b - a + 1
        BY FS_Interval
      <4>4. (IF a > b THEN 0 ELSE b - a + 1) = q - 1 - i
        BY <1>1, <4>2
      <4> QED  BY <4>2, <4>3, <4>4
    <3>3. /\ IsFiniteSet(ToolRun(w, i))
          /\ Cardinality(ToolRun(w, i)) <= Cardinality(i + 1 .. q - 1)
      BY <3>1, <3>2, FS_Subset
    <3>4. Cardinality(ToolRun(w, i)) \in Nat
      BY <3>3, FS_CardinalityType
    <3> QED  BY <3>2, <3>3, <3>4
  <2>5. \A k \in 1 .. Cardinality(ToolRun(w, i)) : v[i + k] = w[i + k]
    <3>1. \A k \in 1 .. Cardinality(ToolRun(w, i)) : i + k \in 1 .. q - 1
      BY <1>1, <2>4
    <3> QED  BY <1>1, <3>1
  <2> QED  BY <2>1, <2>2, <2>3, <2>5
<1>5. v[q].tool_calls
        = [ k \in 1 .. Cardinality(ToolRun(v, q)) |-> v[q + k].tool_call_id[1] ]
  <2>1. ToolRun(v, q) = q + 1 .. q + n
    <3>1. ToolRun(v, q) = { k \in q + 1 .. q + n : \A j \in q + 1 .. k : v[j].role = "tool" }
      BY <1>1 DEF ToolRun
    <3>2. ASSUME NEW k \in q + 1 .. q + n, NEW j \in q + 1 .. k  PROVE  v[j].role = "tool"
      <4>1. j \in q + 1 .. q + n
        <5>1. k \in Int /\ k <= q + n
          OBVIOUS
        <5> QED  BY <5>1
      <4> QED  BY <1>3, <4>1
    <3> QED  BY <3>1, <3>2
  <2>2. Cardinality(q + 1 .. q + n) = n
    <3>1. PICK a \in Int, b \in Int : a = q + 1 /\ b = q + n
      BY <1>1
    <3>2. Cardinality(a .. b) = IF a > b THEN 0 ELSE b - a + 1
      BY FS_Interval
    <3> QED  BY <1>1, <3>1, <3>2
  <2>3. [ k \in 1 .. n |-> v[q + k].tool_call_id[1] ] = [ k \in 1 .. n |-> ids[k] ]
    BY <1>2
  <2>4. Cardinality(ToolRun(v, q)) = n
    BY <2>1, <2>2
  <2> QED  BY <1>1, <2>3, <2>4
<1>6. \A i \in DOMAIN v : i \in 1 .. q - 1 \/ i = q \/ v[i].role = "tool"
  <2>1. \A i \in DOMAIN v : i \in 1 .. q - 1 \/ i = q \/ i \in q + 1 .. q + n
    BY <1>1
  <2> QED  BY <1>3, <2>1
<1>7. v[1].role # "tool"
  <2>1. CASE w = <<>>
    BY <1>1, <2>1
  <2>2. CASE w # <<>>
    <3>1. OpenAiAccepts(w) /\ 1 \in 1 .. q - 1
      BY <1>1, <2>2
    <3>2. w[1].role # "tool"
      BY <3>1 DEF OpenAiAccepts
    <3> QED  BY <1>1, <3>1, <3>2
  <2> QED  BY <2>1, <2>2
<1>8. \A i \in DOMAIN v : v[i].role # "tool" =>
        v[i].tool_calls
          = [ k \in 1 .. Cardinality(ToolRun(v, i)) |-> v[i + k].tool_call_id[1] ]
  BY <1>4, <1>5, <1>6
<1> QED  BY <1>7, <1>8 DEF OpenAiAccepts, ToolRun

LEMMA Inside ==
  ASSUME NEW n \in Nat, NEW i \in 1 .. n, i # n  PROVE  i \in 1 .. n - 1 /\ i + 1 \in 1 .. n
OBVIOUS

LEMMA WireGrows ==
  ASSUME NEW M, NEW ms \in Seq(M), NEW m \in M, OpenAiMessages(m) \in Seq(WireMessage)
  PROVE  /\ ms = <<>> => AnthropicToOpenAi(ms) = <<>>
         /\ AnthropicToOpenAi(Append(ms, m)) = AnthropicToOpenAi(ms) \o OpenAiMessages(m)
<1> DEFINE S == { OpenAiMessages(x) : x \in M }
           s == [ i \in DOMAIN ms |-> OpenAiMessages(ms[i]) ]
           more == Append(ms, m)
           t == [ i \in DOMAIN more |-> OpenAiMessages(more[i]) ]
           x == OpenAiMessages(m)
<1>1. /\ Len(ms) \in Nat /\ DOMAIN ms = 1 .. Len(ms) /\ \A i \in DOMAIN ms : ms[i] \in M
      /\ DOMAIN more = 1 .. Len(ms) + 1
      /\ \A i \in 1 .. Len(ms) : more[i] = ms[i]
      /\ more[Len(ms) + 1] = m
  OBVIOUS
<1>2. s \in Seq(S) /\ Len(s) = Len(ms) /\ \A i \in 1 .. Len(ms) : s[i] = OpenAiMessages(ms[i])
  <2>1. s \in [ DOMAIN ms -> S ]
    BY <1>1
  <2> HIDE DEF S
  <2> QED  BY <1>1, <2>1, MapSeq
<1>3. x \in S
  OBVIOUS
<1>4. t = Append(s, x)
  <2>1. /\ DOMAIN t = 1 .. Len(ms) + 1
        /\ \A i \in 1 .. Len(ms) : t[i] = s[i]
        /\ t[Len(ms) + 1] = x
    BY <1>1
  <2>2. t = [ i \in 1 .. Len(ms) + 1 |-> t[i] ]
    BY <1>1
  <2>3. Len(s) = Len(ms) /\ s \in Seq(S)
    BY <1>2
  <2> HIDE DEF s, t, x, S
  <2>4. IsAppended(t, s, x)
    BY <2>1, <2>2, <2>3 DEF IsAppended
  <2> QED  BY <1>3, <2>3, <2>4, AppendIs
<1>5. AnthropicToOpenAi(ms) = FlattenSeq(s) /\ AnthropicToOpenAi(more) = FlattenSeq(t)
  BY DEF AnthropicToOpenAi
<1> HIDE DEF s, t, x, S
<1>6. ms = <<>> => AnthropicToOpenAi(ms) = <<>>
  <2>1. ms = <<>> => s = <<>> /\ Len(s) = 0
    BY <1>2
  <2>2. s = <<>> /\ Len(s) = 0 => FlattenSeq(s) = <<>>
    BY DEF FlattenSeq
  <2> QED  BY <1>5, <2>1, <2>2
<1>7. FlattenSeq(t) = FlattenSeq(s) \o x
  <2>1. CASE s = <<>>
    <3>1. t = << x >> /\ ms = <<>>
      BY <1>1, <1>2, <1>4, <2>1
    <3>2. FlattenSeq(t) = x
      BY <3>1, FlattenOne
    <3>3. FlattenSeq(s) = <<>>
      BY <1>5, <1>6, <3>1
    <3>4. x \in Seq(WireMessage)
      BY DEF x
    <3> QED  BY <3>2, <3>3, <3>4
  <2>2. CASE s # <<>>
    BY <1>2, <1>3, <1>4, <2>2, FlattenAppend
  <2> QED  BY <2>1, <2>2
<1> QED  BY <1>5, <1>6, <1>7 DEF x, t

(* A conversation in which no call is without its result.                  *)
Settled(ms) ==
  /\ \A i \in DOMAIN ms :
       /\ ms[i].content # <<>>
       /\ \A k \in DOMAIN ms[i].content : ms[i].content[k].type = "thinking" => k = 1
       /\ IdsOf(ms[i], "tool_result") # <<>> => i > 1
  /\ \A i \in 1 .. Len(ms) - 1 :
       IdsOf(ms[i], "tool_use") = IdsOf(ms[i + 1], "tool_result")
  /\ ms # <<>> => /\ IdsOf(ms[Len(ms)], "tool_use") = <<>>
                  /\ OpenAiAccepts(AnthropicToOpenAi(ms))
  /\ AnthropicToOpenAi(ms) \in Seq(WireMessage)

LEMMA NothingIsSettled == ASSUME NEW ms, ms = <<>>  PROVE  Settled(ms)
<1>1. DOMAIN ms = {} /\ 1 .. Len(ms) - 1 = {}
  OBVIOUS
<1>2. [ i \in DOMAIN ms |-> OpenAiMessages(ms[i]) ] = <<>>
  OBVIOUS
<1>3. AnthropicToOpenAi(ms) = <<>>
  BY <1>2 DEF AnthropicToOpenAi, FlattenSeq
<1>4. <<>> \in Seq(WireMessage)
  OBVIOUS
<1> QED  BY <1>1, <1>3, <1>4 DEF Settled

LEMMA SettledPlain ==
  ASSUME NEW M, NEW ms \in Seq(M), Settled(ms), NEW m \in M, Plain(m)
  PROVE  Settled(Append(ms, m))
<1> DEFINE more == Append(ms, m)
           w == AnthropicToOpenAi(ms)
           v == AnthropicToOpenAi(more)
           o == OpenAiMessage(m)
<1>1. /\ Len(ms) \in Nat /\ DOMAIN ms = 1 .. Len(ms)
      /\ Len(more) = Len(ms) + 1 /\ DOMAIN more = 1 .. Len(ms) + 1
      /\ more # <<>> /\ more[Len(ms) + 1] = m
      /\ \A i \in 1 .. Len(ms) : more[i] = ms[i]
      /\ ms # <<>> <=> Len(ms) # 0
  OBVIOUS
<1>2. /\ IdsOf(m, "tool_use") = <<>> /\ IdsOf(m, "tool_result") = <<>>
      /\ OpenAiMessages(m) = << o >> /\ o \in WireMessage
      /\ o.role = m.role /\ o.tool_calls = <<>>
  BY PlainFacts
<1>3. /\ m.content # <<>> /\ m.role # "tool"
      /\ \A k \in DOMAIN m.content : m.content[k].type # "thinking"
  BY DEF Plain
<1>4. w \in Seq(WireMessage) /\ (ms = <<>> => w = <<>>) /\ v = w \o << o >>
  <2>1. << o >> \in Seq(WireMessage)
    <3> HIDE DEF o
    <3> QED  BY <1>2
  <2>2. /\ ms = <<>> => w = <<>>
        /\ v = w \o OpenAiMessages(m)
    <3>1. OpenAiMessages(m) \in Seq(WireMessage)
      BY <1>2, <2>1
    <3> QED  BY <3>1, WireGrows
  <2> QED  BY <1>2, <2>2 DEF Settled
<1>5. w = <<>> \/ OpenAiAccepts(w)
  BY <1>4 DEF Settled
<1> HIDE DEF more, w, v, o
<1>6. v \in Seq(WireMessage) /\ OpenAiAccepts(v)
  <2>1. PICK q \in Nat, n \in Nat : q = Len(w) + 1 /\ n = 0
    BY <1>4
  <2>2. v \in Seq(WireMessage)
    BY <1>2, <1>4
  <2>3. <<>> \in Seq(Nat)
    OBVIOUS
  <2>4. Continues(v, w, o, <<>>, q, n)
    BY <1>2, <1>3, <1>4, <2>1 DEF Continues
  <2>5. OpenAiAccepts(v)
    BY <1>4, <1>5, <2>2, <2>3, <2>4, AcceptsGrows
  <2> QED  BY <2>2, <2>5
<1>7. ASSUME NEW i \in DOMAIN more
      PROVE  /\ more[i].content # <<>>
             /\ \A k \in DOMAIN more[i].content : more[i].content[k].type = "thinking" => k = 1
             /\ IdsOf(more[i], "tool_result") # <<>> => i > 1
  <2>1. CASE i = Len(ms) + 1
    BY <1>1, <1>2, <1>3, <2>1
  <2>2. CASE i \in 1 .. Len(ms)
    <3>1. i \in DOMAIN ms /\ more[i] = ms[i]
      BY <1>1, <2>2
    <3> QED  BY <3>1 DEF Settled
  <2> QED  BY <1>1, <2>1, <2>2
<1>8. ASSUME NEW i \in 1 .. Len(more) - 1
      PROVE  IdsOf(more[i], "tool_use") = IdsOf(more[i + 1], "tool_result")
  <2>0. i \in 1 .. Len(ms)
    BY <1>1
  <2>1. CASE i = Len(ms)
    <3>1. more[i] = ms[Len(ms)] /\ more[i + 1] = m /\ ms # <<>>
      BY <1>1, <2>1
    <3> QED  BY <1>2, <3>1 DEF Settled
  <2>2. CASE i # Len(ms)
    <3>1. i \in 1 .. Len(ms) - 1 /\ i \in 1 .. Len(ms) /\ i + 1 \in 1 .. Len(ms)
      BY <1>1, <2>0, <2>2, Inside
    <3>2. more[i] = ms[i] /\ more[i + 1] = ms[i + 1]
      BY <1>1, <3>1
    <3> QED  BY <3>1, <3>2 DEF Settled
  <2> QED  BY <2>1, <2>2
<1>9. IdsOf(more[Len(more)], "tool_use") = <<>>
  BY <1>1, <1>2
<1> QED  BY <1>6, <1>7, <1>8, <1>9 DEF Settled, more, v

Joined(c, a, b) ==
  /\ Len(c) = Len(a) + Len(b)
  /\ \A i \in 1 .. Len(a) : c[i] = a[i]
  /\ \A i \in 1 .. Len(b) : c[Len(a) + i] = b[i]

LEMMA ConcatIs ==
  ASSUME NEW S, NEW a \in Seq(S), NEW b \in Seq(S)
  PROVE  Joined(a \o b, a, b)
BY ConcatProperties DEF Joined

LEMMA SettledTurn ==
  ASSUME NEW M, NEW ms \in Seq(M), Settled(ms), ms # <<>>,
         NEW text, NEW thinks \in BOOLEAN, NEW ids \in Seq(Nat), ids # <<>>,
         NEW t \in M, t = ToolTurnMessage(text, thinks, ids),
         NEW r \in M, r = ResultsMessage(ids)
  PROVE  Settled(Append(Append(ms, t), r))
<1> DEFINE mid == Append(ms, t)
           more == Append(mid, r)
           w == AnthropicToOpenAi(ms)
           u == AnthropicToOpenAi(mid)
           v == AnthropicToOpenAi(more)
           o == OpenAiMessage(t)
           f == [ i \in DOMAIN ids |-> ToolMessage(ids[i]) ]
<1>1. PICK l \in Nat : l = Len(ms) /\ l # 0
  OBVIOUS
<1>2. mid \in Seq(M) /\ more \in Seq(M)
  OBVIOUS
<1>3. /\ DOMAIN ms = 1 .. l
      /\ Len(more) = l + 2 /\ DOMAIN more = 1 .. l + 2
      /\ more[l + 1] = t /\ more[l + 2] = r
      /\ \A i \in 1 .. l : more[i] = ms[i]
  <2>1. /\ Len(mid) = l + 1 /\ mid[l + 1] = t /\ \A i \in 1 .. l : mid[i] = ms[i]
    BY <1>1, AppendProperties
  <2> HIDE DEF mid
  <2>2. /\ Len(more) = l + 2 /\ more[l + 2] = r /\ \A i \in 1 .. l + 1 : more[i] = mid[i]
    <3>1. /\ Len(more) = Len(mid) + 1 /\ more[Len(mid) + 1] = r
          /\ \A i \in 1 .. Len(mid) : more[i] = mid[i]
      BY <1>2, AppendProperties
    <3> QED  BY <1>1, <2>1, <3>1
  <2> HIDE DEF more
  <2>3. l + 1 \in 1 .. l + 1 /\ \A i \in 1 .. l : i \in 1 .. l + 1
    OBVIOUS
  <2>4. more[l + 1] = t /\ \A i \in 1 .. l : more[i] = ms[i]
    BY <2>1, <2>2, <2>3
  <2>5. DOMAIN ms = 1 .. l /\ DOMAIN more = 1 .. l + 2
    BY <1>1, <1>2, <2>2
  <2> QED  BY <2>2, <2>4, <2>5
<1>4. /\ t.role = "assistant" /\ t.content # <<>>
      /\ \A k \in DOMAIN t.content : t.content[k].type = "thinking" => k = 1
      /\ IdsOf(t, "tool_use") = ids /\ IdsOf(t, "tool_result") = <<>>
      /\ OpenAiMessages(t) = << o >>
  <2>1. IsToolTurn(t, ids)
    BY ToolTurnFacts
  <2> QED  BY <2>1 DEF IsToolTurn
<1>5. /\ r.role = "user" /\ r.content # <<>>
      /\ \A k \in DOMAIN r.content : r.content[k].type # "thinking"
      /\ IdsOf(r, "tool_use") = <<>> /\ IdsOf(r, "tool_result") = ids
      /\ OpenAiMessages(r) = f
  BY ResultsFacts
<1>6. o \in WireMessage /\ o.role = "assistant" /\ o.tool_calls = ids
  BY <1>4, OnWire
<1>7. PICK n \in Nat : n = Len(ids) /\ DOMAIN ids = 1 .. n
  OBVIOUS
<1>8. f \in Seq(WireMessage) /\ Len(f) = n /\ \A i \in 1 .. n : f[i] = ToolMessage(ids[i])
  <2>1. ASSUME NEW i \in DOMAIN ids  PROVE  ToolMessage(ids[i]) \in WireMessage
    <3>1. ids[i] \in Nat /\ << ids[i] >> \in Seq(Nat) /\ <<>> \in Seq(Nat)
      OBVIOUS
    <3> QED  BY <3>1 DEF ToolMessage, WireMessage
  <2>2. f \in [ DOMAIN ids -> WireMessage ]
    BY <2>1
  <2> QED  BY <1>7, <2>2, MapSeq
<1> HIDE DEF o, f, w, u, v
<1>9. w \in Seq(WireMessage) /\ u = w \o << o >> /\ v = u \o f
  <2>1. w \in Seq(WireMessage)
    BY DEF Settled, w
  <2>2. << o >> \in Seq(WireMessage)
    BY <1>6
  <2>3. u = w \o << o >>
    <3>1. OpenAiMessages(t) \in Seq(WireMessage)
      BY <1>4, <2>2
    <3>2. u = w \o OpenAiMessages(t)
      BY <3>1, WireGrows DEF w, u
    <3> QED  BY <1>4, <3>2
  <2>4. v = u \o f
    <3>1. OpenAiMessages(r) \in Seq(WireMessage)
      BY <1>5, <1>8
    <3>2. v = u \o OpenAiMessages(r)
      BY <1>2, <3>1, WireGrows DEF u, v
    <3> QED  BY <1>5, <3>2
  <2> QED  BY <2>1, <2>3, <2>4
<1>10. v \in Seq(WireMessage) /\ OpenAiAccepts(v)
  <2>1. PICK q \in Nat : q = Len(w) + 1
    BY <1>9
  <2>2. /\ u \in Seq(WireMessage) /\ Len(u) = q /\ u[q] = o
        /\ \A i \in 1 .. Len(w) : u[i] = w[i]
    BY <1>6, <1>9, <2>1
  <2>13. v \in Seq(WireMessage) /\ Joined(v, u, f)
    <3>1. Joined(u \o f, u, f) /\ u \o f \in Seq(WireMessage)
      BY <1>8, <2>2, ConcatIs, ConcatProperties
    <3> QED  BY <1>9, <3>1
  <2>3. v \in Seq(WireMessage) /\ Len(v) = q + n
    BY <1>8, <2>13, <2>2 DEF Joined
  <2>4. \A i \in 1 .. q : v[i] = u[i]
    BY <2>13, <2>2 DEF Joined
  <2>5. \A i \in 1 .. n : v[q + i] = f[i]
    BY <1>8, <2>13, <2>2 DEF Joined
  <2>6. \A i \in 1 .. n : v[q + i] = ToolMessage(ids[i])
    BY <1>8, <2>5
  <2>7. v[q] = o
    BY <2>2, <2>4, <2>1
  <2>8. \A i \in 1 .. Len(w) : i \in 1 .. q
    BY <1>9, <2>1
  <2>9. \A i \in 1 .. Len(w) : v[i] = w[i]
    BY <2>2, <2>4, <2>8
  <2>10. Continues(v, w, o, ids, q, n)
    BY <1>6, <1>7, <2>1, <2>3, <2>6, <2>7, <2>9 DEF Continues
  <2>11. OpenAiAccepts(w)
    BY DEF Settled, w
  <2>12. OpenAiAccepts(v)
    BY <1>9, <2>3, <2>10, <2>11, AcceptsGrows
  <2> QED  BY <2>3, <2>12
<1> HIDE DEF mid, more
<1>11. \A i \in 1 .. l + 2 : i \in 1 .. l \/ i = l + 1 \/ i = l + 2
  OBVIOUS
<1>12. ASSUME NEW i \in DOMAIN more
       PROVE  /\ more[i].content # <<>>
              /\ \A k \in DOMAIN more[i].content : more[i].content[k].type = "thinking" => k = 1
              /\ IdsOf(more[i], "tool_result") # <<>> => i > 1
  <2>1. CASE i = l + 1
    BY <1>3, <1>4, <2>1
  <2>2. CASE i = l + 2
    <3>1. i > 1
      BY <2>2
    <3> QED  BY <1>3, <1>5, <2>2, <3>1
  <2>3. CASE i \in 1 .. l
    <3>1. i \in DOMAIN ms /\ more[i] = ms[i]
      BY <1>3, <2>3
    <3> QED  BY <3>1 DEF Settled
  <2> QED  BY <1>3, <1>11, <2>1, <2>2, <2>3
<1>13. ASSUME NEW i \in 1 .. l + 1
       PROVE  IdsOf(more[i], "tool_use") = IdsOf(more[i + 1], "tool_result")
  <2>1. CASE i = l + 1
    <3>1. i + 1 = l + 2
      BY <2>1
    <3> QED  BY <1>3, <1>4, <1>5, <2>1, <3>1
  <2>2. CASE i = l
    <3>1. more[i] = ms[Len(ms)] /\ more[i + 1] = t
      BY <1>1, <1>3, <2>2
    <3> QED  BY <1>4, <3>1 DEF Settled
  <2>3. CASE i \in 1 .. l /\ i # l
    <3>1. i \in 1 .. l - 1 /\ i + 1 \in 1 .. l
      BY <2>3, Inside
    <3>2. more[i] = ms[i] /\ more[i + 1] = ms[i + 1] /\ i \in 1 .. Len(ms) - 1
      BY <1>1, <1>3, <2>3, <3>1
    <3> QED  BY <3>2 DEF Settled
  <2>4. i \in 1 .. l \/ i = l + 1
    OBVIOUS
  <2> QED  BY <2>1, <2>2, <2>3, <2>4
<1>14. \A i \in 1 .. Len(more) - 1 :
         IdsOf(more[i], "tool_use") = IdsOf(more[i + 1], "tool_result")
  <2>1. Len(more) - 1 = l + 1
    BY <1>3
  <2> QED  BY <1>13, <2>1
<1>15. IdsOf(more[Len(more)], "tool_use") = <<>>
  BY <1>3, <1>5
<1>16. Settled(more)
  BY <1>10, <1>12, <1>14, <1>15 DEF Settled, v
<1> QED  BY <1>16 DEF more, mid

(* Messages of text alone, one after the other.                            *)
LEMMA SettledAll ==
  ASSUME NEW M, NEW ms \in Seq(M), \A i \in DOMAIN ms : Plain(ms[i])
  PROVE  Settled(ms)
<1> DEFINE Upto(n) == SubSeq(ms, 1, n)
           D == { n \in Nat : n <= Len(ms) /\ ~Settled(Upto(n)) }
<1>1. Len(ms) \in Nat /\ Upto(Len(ms)) = ms
  OBVIOUS
<1> SUFFICES ASSUME ~Settled(ms)  PROVE FALSE
  OBVIOUS
<1>2. Len(ms) \in D
  <2> HIDE DEF Upto
  <2>1. Len(ms) <= Len(ms) /\ ~Settled(Upto(Len(ms)))
    BY <1>1
  <2> QED  BY <1>1, <2>1
<1>3. PICK n \in D : \A j \in D : ~(j < n)
  <2>1. D \subseteq Nat /\ D # {}
    BY <1>2
  <2> HIDE DEF D
  <2> QED  BY <2>1, NatMin
<1>4. n \in Nat /\ n <= Len(ms) /\ ~Settled(Upto(n))
  OBVIOUS
<1>5. n # 0
  <2>1. n = 0 => Upto(n) = <<>>
    OBVIOUS
  <2>2. Upto(n) = <<>> => Settled(Upto(n))
    BY NothingIsSettled
  <2> QED  BY <1>4, <2>1, <2>2
<1>6. n - 1 \in Nat /\ n - 1 <= Len(ms) /\ n - 1 < n
  BY <1>1, <1>4, <1>5
<1>7. Settled(Upto(n - 1))
  BY <1>3, <1>6
<1>8. n \in DOMAIN ms /\ ms[n] \in M
  BY <1>1, <1>4, <1>5
<1>9. Upto(n - 1) \in Seq(M) /\ Upto(n) = Append(Upto(n - 1), ms[n])
  BY <1>1, <1>4, <1>5, <1>6, <1>8
<1> HIDE DEF Upto
<1>10. Settled(Append(Upto(n - 1), ms[n]))
  BY <1>7, <1>8, <1>9, SettledPlain
<1> QED  BY <1>4, <1>9, <1>10

(* What is between the last message and the next turn of the model.        *)
Ready(ms) == Settled(ms) /\ ms # <<>> /\ ms[Len(ms)].role = "user"

Awaiting(T, ms, ids) ==
  /\ ids # <<>> /\ ms # <<>> /\ Ready(Front(ms))
  /\ \E text \in T, thinks \in BOOLEAN : Last(ms) = ToolTurnMessage(text, thinks, ids)

LEMMA ReadyAccepted ==
  ASSUME NEW M, NEW ms \in Seq(M), Ready(ms)
  PROVE  AnthropicAccepts(ms) /\ OpenAiAccepts(AnthropicToOpenAi(ms))
BY DEF Ready, Settled, AnthropicAccepts, Last

LEMMA ReadyGrows ==
  ASSUME NEW M, NEW ms \in Seq(M), Settled(ms), NEW m \in M, Plain(m), m.role = "user"
  PROVE  Ready(Append(ms, m))
<1>1. Settled(Append(ms, m))
  BY SettledPlain
<1>2. /\ Append(ms, m) # <<>> /\ Len(Append(ms, m)) = Len(ms) + 1
      /\ Append(ms, m)[Len(ms) + 1] = m
  BY AppendProperties
<1> QED  BY <1>1, <1>2 DEF Ready

LEMMA FrontOf ==
  ASSUME NEW M, NEW ms \in Seq(M), NEW m \in M
  PROVE  /\ Front(Append(ms, m)) = ms /\ Last(Append(ms, m)) = m
         /\ Append(ms, m) # <<>>
<1>1. PICK u \in Seq(M) : u = Append(ms, m)
  <2>1. Append(ms, m) \in Seq(M)
    BY AppendProperties
  <2> QED  BY <2>1
<1>2. /\ u # <<>> /\ Len(u) = Len(ms) + 1 /\ u[Len(ms) + 1] = m
      /\ \A i \in 1 .. Len(ms) : u[i] = ms[i]
  BY <1>1, AppendProperties
<1>3. Front(u) = SubSeq(u, 1, Len(ms)) /\ Last(u) = m
  BY <1>2 DEF Front, Last
<1>4. SubSeq(u, 1, Len(ms)) = ms
  BY <1>2
<1> QED  BY <1>1, <1>2, <1>3, <1>4

LEMMA FrontAndLast ==
  ASSUME NEW M, NEW ms \in Seq(M), ms # <<>>
  PROVE  /\ Front(ms) \in Seq(M) /\ Last(ms) \in M
         /\ ms = Append(Front(ms), Last(ms))
<1>1. PICK n \in Nat : n = Len(ms) - 1
  OBVIOUS
<1>2. Front(ms) = SubSeq(ms, 1, n) /\ Last(ms) = ms[n + 1] /\ n + 1 = Len(ms)
  BY <1>1 DEF Front, Last
<1>3. Front(ms) \in Seq(M) /\ Last(ms) \in M
  BY <1>2
<1>4. Len(Front(ms)) = n /\ \A i \in 1 .. n : Front(ms)[i] = ms[i]
  BY <1>2
<1>5. IsAppended(ms, Front(ms), Last(ms))
  <2>1. ms = [ i \in 1 .. n + 1 |-> ms[i] ]
    BY <1>2
  <2> QED  BY <1>2, <1>4, <2>1 DEF IsAppended
<1> QED  BY <1>3, <1>5, AppendIs

LEMMA AwaitingBegins ==
  ASSUME NEW T, NEW ms \in Seq(Message(T)), Ready(ms),
         NEW text \in T, NEW thinks \in BOOLEAN, NEW ids \in Seq(Nat), ids # <<>>
  PROVE  Awaiting(T, Append(ms, ToolTurnMessage(text, thinks, ids)), ids)
<1>1. PICK m \in Message(T) : m = ToolTurnMessage(text, thinks, ids)
  <2>1. ToolTurnMessage(text, thinks, ids) \in Message(T)
    BY ToolTurnType
  <2> QED  BY <2>1
<1>2. Front(Append(ms, m)) = ms /\ Last(Append(ms, m)) = m /\ Append(ms, m) # <<>>
  BY FrontOf
<1> QED  BY <1>1, <1>2 DEF Awaiting

LEMMA AwaitingEnds ==
  ASSUME NEW T, NEW ms \in Seq(Message(T)), NEW ids \in Seq(Nat), Awaiting(T, ms, ids)
  PROVE  Ready(Append(ms, ResultsMessage(ids)))
<1>1. /\ ids # <<>> /\ ms # <<>> /\ Settled(Front(ms)) /\ Front(ms) # <<>>
  BY DEF Awaiting, Ready
<1>2. PICK text \in T, thinks \in BOOLEAN : Last(ms) = ToolTurnMessage(text, thinks, ids)
  BY DEF Awaiting
<1>3. /\ Front(ms) \in Seq(Message(T)) /\ Last(ms) \in Message(T)
      /\ ms = Append(Front(ms), Last(ms))
  BY <1>1, FrontAndLast
<1>4. PICK r \in Message(T) : r = ResultsMessage(ids)
  BY ResultsType
<1>5. Settled(Append(Append(Front(ms), Last(ms)), r))
  BY <1>1, <1>2, <1>3, <1>4, SettledTurn
<1>6. Settled(Append(ms, r))
  BY <1>3, <1>5
<1>7. r.role = "user"
  BY <1>4 DEF ResultsMessage, UserMessage
<1>8. /\ Append(ms, r) # <<>> /\ Len(Append(ms, r)) = Len(ms) + 1
      /\ Append(ms, r)[Len(ms) + 1] = r
  BY AppendProperties
<1> QED  BY <1>4, <1>6, <1>7, <1>8 DEF Ready

(* The ids of a turn: the results so far, and the calls still to be made.  *)
IdsOfTurn(results, trace, calls) == results \o CallIds(trace, calls)

(* A call that ends takes its id along, from the calls to the results.     *)
IdsKept(results, trace, calls, e) ==
  LET more == Append(results, Len(trace) + 1)
      ids  == IdsOfTurn(results, trace, calls)
  IN  /\ ids = IdsOfTurn(more, Append(trace, e), Tail(calls))
      /\ Tail(calls) = <<>> => ids = more

LEMMA OneOf ==
  ASSUME NEW S, NEW x \in S
  PROVE  \E one \in Seq(S) : one = << x >> /\ Len(one) = 1 /\ one[1] = x
<1>1. << x >> \in Seq(S) /\ Len(<< x >>) = 1 /\ << x >>[1] = x
  OBVIOUS
<1> QED  BY <1>1

LEMMA LastCall ==
  ASSUME NEW S, NEW s \in Seq(S), s # <<>>, Tail(s) = <<>>  PROVE  Len(s) = 1
<1>1. Len(Tail(s)) = Len(s) - 1 /\ Len(s) \in Nat
  OBVIOUS
<1>2. Len(Tail(s)) = 0
  <2>1. Len(<<>>) = 0
    OBVIOUS
  <2> QED  BY <2>1, Zenon
<1> QED  BY <1>1, <1>2

LEMMA Assoc ==
  ASSUME NEW S, NEW a \in Seq(S), NEW b \in Seq(S), NEW c \in Seq(S)
  PROVE  (a \o b) \o c = a \o (b \o c)
OBVIOUS

LEMMA IdsOnCall ==
  ASSUME NEW results \in Seq(Nat), NEW T, NEW trace \in Seq(T), NEW e \in T,
         NEW U, NEW calls \in Seq(U), calls # <<>>
  PROVE  /\ Append(results, Len(trace) + 1) \in Seq(Nat)
         /\ IdsKept(results, trace, calls, e)
<1>1. PICK l \in Nat : l = Len(trace)
  OBVIOUS
<1>2. PICK x \in Nat : x = l + 1
  OBVIOUS
<1>3. PICK n \in Nat : n + 1 = Len(calls)
  <2>1. Len(calls) \in Nat /\ Len(calls) # 0
    OBVIOUS
  <2>2. Len(calls) - 1 \in Nat /\ (Len(calls) - 1) + 1 = Len(calls)
    BY <2>1
  <2> QED  BY <2>2
<1> DEFINE f == CallIds(trace, calls)
           g == CallIds(Append(trace, e), Tail(calls))
<1>4. f \in Seq(Nat) /\ Len(f) = n + 1 /\ \A i \in 1 .. n + 1 : f[i] = l + i
  <2>1. DOMAIN calls = 1 .. n + 1
    BY <1>3
  <2>2. f \in Seq(Nat) /\ Len(f) = n + 1
    BY <1>3, CallIdsType
  <2>3. f = [ i \in 1 .. n + 1 |-> l + i ]
    BY <1>1, <2>1 DEF CallIds
  <2> QED  BY <2>2, <2>3
<1>5. g \in Seq(Nat) /\ Len(g) = n /\ \A i \in 1 .. n : g[i] = x + i
  <2>1. /\ Tail(calls) \in Seq(U) /\ Len(Tail(calls)) = n /\ DOMAIN Tail(calls) = 1 .. n
        /\ Append(trace, e) \in Seq(T) /\ Len(Append(trace, e)) = x
    BY <1>1, <1>2, <1>3
  <2>2. g \in Seq(Nat) /\ Len(g) = n
    BY <2>1, CallIdsType
  <2>3. g = [ i \in 1 .. n |-> x + i ]
    BY <2>1 DEF CallIds
  <2> QED  BY <2>2, <2>3
<1> HIDE DEF f, g
<1>6. PICK one \in Seq(Nat) : one = << x >> /\ Len(one) = 1 /\ one[1] = x
  BY OneOf
<1>7. f = one \o g
  <2>1. PICK h \in Seq(Nat) : h = one \o g
    <3>1. one \o g \in Seq(Nat)
      BY <1>5, <1>6, ConcatProperties
    <3> QED  BY <3>1
  <2>2. Joined(h, one, g)
    <3>1. Joined(one \o g, one, g)
      BY <1>5, <1>6, ConcatIs
    <3> QED  BY <2>1, <3>1
  <2>3. Len(h) = n + 1 /\ h[1] = x /\ \A i \in 1 .. n : h[1 + i] = x + i
    <3>1. Len(h) = 1 + n /\ 1 \in 1 .. 1
      BY <1>5, <1>6, <2>2 DEF Joined
    <3>2. h[1] = x
      BY <1>6, <2>2, <3>1 DEF Joined
    <3>3. \A i \in 1 .. n : h[1 + i] = g[i]
      BY <1>5, <1>6, <2>2 DEF Joined
    <3>4. \A i \in 1 .. n : h[1 + i] = x + i
      BY <1>5, <3>3
    <3>5. Len(h) = n + 1
      BY <3>1
    <3> QED  BY <3>2, <3>4, <3>5
  <2>4. \A i \in 1 .. n + 1 : f[i] = h[i]
    <3> TAKE i \in 1 .. n + 1
    <3>1. CASE i = 1
      BY <1>2, <1>4, <2>3, <3>1
    <3>2. CASE i # 1
      <4>1. PICK k \in 1 .. n : 1 + k = i
        <5>1. i - 1 \in 1 .. n /\ 1 + (i - 1) = i
          BY <3>2
        <5> QED  BY <5>1
      <4>2. h[i] = x + k /\ f[i] = l + i
        BY <1>4, <2>3, <4>1
      <4> QED  BY <1>2, <4>1, <4>2
    <3> QED  BY <3>1, <3>2
  <2>5. f = h
    BY <1>4, <2>3, <2>4
  <2> QED  BY <2>1, <2>5
<1>8. Append(results, x) = results \o one /\ Append(results, x) \in Seq(Nat)
  BY <1>6, AppendIsConcat
<1>9. results \o f = Append(results, x) \o g
  <2>1. (results \o one) \o g = results \o (one \o g)
    BY <1>5, Assoc
  <2> QED  BY <1>7, <1>8, <2>1
<1>10. Tail(calls) = <<>> => results \o f = Append(results, x)
  <2>2. ASSUME Tail(calls) = <<>>  PROVE  n = 0
    <3>1. Len(calls) = 1
      BY <2>2, LastCall
    <3> QED  BY <1>3, <3>1
  <2>3. n = 0 => g = <<>>
    BY <1>5
  <2>4. g = <<>> => Append(results, x) \o g = Append(results, x)
    BY <1>8
  <2> QED  BY <1>9, <2>2, <2>3, <2>4
<1> QED  BY <1>1, <1>2, <1>8, <1>9, <1>10 DEF IdsOfTurn, IdsKept, f, g

LEMMA NewIds ==
  ASSUME NEW T, NEW trace \in Seq(T), NEW U, NEW calls \in Seq(U), calls # <<>>
  PROVE  /\ CallIds(trace, calls) \in Seq(Nat) /\ CallIds(trace, calls) # <<>>
         /\ IdsOfTurn(<<>>, trace, calls) = CallIds(trace, calls)
<1>1. CallIds(trace, calls) \in Seq(Nat) /\ Len(CallIds(trace, calls)) = Len(calls)
  BY CallIdsType
<1>2. Len(calls) # 0
  OBVIOUS
<1>3. PICK f \in Seq(Nat) : f = CallIds(trace, calls) /\ Len(f) # 0
  BY <1>1, <1>2
<1>4. f # <<>> /\ <<>> \o f = f
  BY <1>3
<1> QED  BY <1>1, <1>3, <1>4 DEF IdsOfTurn

-----------------------------------------------------------------------------
(* The requests of the strategy agent: between turns each call has its     *)
(* result, during a turn the calls of the last message are those that have *)
(* a result and those that are still to be made, in this order.            *)
StrategyTalk(r) ==
  /\ spc[r] \in { "idle", "turn" } => Ready(sjob[r].messages) /\ sjob[r].results = <<>>
  /\ spc[r] \in { "tools", "built" } =>
       Awaiting(StrategySpoken, sjob[r].messages,
                IdsOfTurn(sjob[r].results, sjob[r].trace, sjob[r].calls))

(* What a tool does to the requests leaves what they say.                  *)
SaidAlike(j, k) ==
  j.messages = k.messages /\ j.results = k.results /\ j.trace = k.trace /\ j.calls = k.calls

SaysMore(k, j, e, calls, results) ==
  /\ calls = <<>> => /\ k.messages = Append(j.messages, ResultsMessage(results))
                     /\ k.results = <<>>
  /\ calls # <<>> => k.messages = j.messages /\ k.results = results
  /\ k.calls = calls /\ k.trace = Append(j.trace, e)

LEMMA ReturnedTalk ==
  ASSUME NEW j \in StrategyJob, NEW ok \in BOOLEAN
  PROVE  SaysMore(Returned(j, ok), j, Ended(j, ok), Tail(j.calls),
                  Append(j.results, Len(j.trace) + 1))
BY DEF Returned, StrategyJob, Ended, SaysMore

LEMMA ReturnTalks ==
  ASSUME StrategyInv, \A s \in Requests : StrategyTalk(s), NEW r \in Requests,
         spc[r] \in { "tools", "built" }, NEW ok \in BOOLEAN,
         NEW jobs \in [ Requests -> StrategyJob ],
         \A s \in Requests : SaidAlike(jobs[s], sjob[s]), Return(r, jobs, ok)
  PROVE  \A s \in Requests : StrategyTalk(s)'
<1> DEFINE j == jobs[r]
           k == Returned(j, ok)
           calls == Tail(j.calls)
           results == Append(j.results, Len(j.trace) + 1)
           ids == IdsOfTurn(j.results, j.trace, j.calls)
<1>1. /\ j \in StrategyJob /\ SaidAlike(j, sjob[r]) /\ j.calls # <<>>
      /\ Awaiting(StrategySpoken, j.messages, ids)
  <2>1. j \in StrategyJob /\ SaidAlike(j, sjob[r]) /\ sjob[r].calls # <<>>
    BY DEF StrategyInv, CallingInv
  <2> QED  BY <2>1 DEF SaidAlike, StrategyTalk
<1>2. /\ spc \in [ Requests -> { "idle", "turn", "tools", "built", "answered", "failed" } ]
      /\ jobs \in [ Requests -> StrategyJob ]
  BY DEF StrategyInv, StrategyTypeOK
<1>3. \/ /\ k.calls # <<>>
         /\ spc' = [ spc EXCEPT ![r] = "tools" ] /\ sjob' = [ jobs EXCEPT ![r] = k ]
      \/ /\ k.calls = <<>>
         /\ spc' = [ spc EXCEPT ![r] = "turn" ] /\ sjob' = [ jobs EXCEPT ![r] = k ]
      \/ /\ spc' = [ spc EXCEPT ![r] = "failed" ]
         /\ sjob' = [ jobs EXCEPT ![r] = NewStrategyJob ]
  BY DEF Return, Enter
<1>4. SaysMore(k, j, Ended(j, ok), calls, results)
  BY <1>1, ReturnedTalk
<1>5. /\ j.results \in Seq(Nat) /\ j.trace \in Seq([ call : Call, ok : BOOLEAN ])
      /\ j.calls \in Seq(Call) /\ j.messages \in Seq(Message(StrategySpoken))
  BY <1>1 DEF StrategyJob, StrategySpoken
<1>6. Ended(j, ok) \in [ call : Call, ok : BOOLEAN ]
  <2>1. Head(j.calls) \in Call
    BY <1>1, <1>5
  <2> QED  BY <2>1 DEF Ended
<1>7. results \in Seq(Nat) /\ IdsKept(j.results, j.trace, j.calls, Ended(j, ok))
  BY <1>1, <1>5, <1>6, IdsOnCall
<1>8. ASSUME NEW s \in Requests \ {r}  PROVE  StrategyTalk(s)'
  <2>1. sjob'[s] = jobs[s] /\ spc'[s] = spc[s]
    <3> HIDE DEF k
    <3> QED  BY <1>2, <1>3
  <2>2. SaidAlike(sjob'[s], sjob[s]) /\ StrategyTalk(s)
    BY <2>1
  <2> QED  BY <2>1, <2>2 DEF SaidAlike, StrategyTalk
<1> HIDE DEF j, k, calls, results, ids
<1>9. StrategyTalk(r)'
  <2>1. CASE spc' = [ spc EXCEPT ![r] = "failed" ]
    <3>1. spc'[r] = "failed"
      BY <1>2, <2>1
    <3> QED  BY <3>1 DEF StrategyTalk
  <2>2. CASE /\ k.calls # <<>>
             /\ spc' = [ spc EXCEPT ![r] = "tools" ] /\ sjob' = [ jobs EXCEPT ![r] = k ]
    <3>1. spc'[r] = "tools" /\ sjob'[r] = k
      BY <1>2, <2>2
    <3>2. /\ k.messages = j.messages
          /\ ids = IdsOfTurn(k.results, k.trace, k.calls)
      BY <1>4, <1>7, <2>2 DEF SaysMore, IdsKept, ids, results, calls
    <3>3. Awaiting(StrategySpoken, k.messages, IdsOfTurn(k.results, k.trace, k.calls))
      BY <1>1, <3>2
    <3> QED  BY <3>1, <3>3 DEF StrategyTalk
  <2>3. CASE /\ k.calls = <<>>
             /\ spc' = [ spc EXCEPT ![r] = "turn" ] /\ sjob' = [ jobs EXCEPT ![r] = k ]
    <3>1. spc'[r] = "turn" /\ sjob'[r] = k
      BY <1>2, <2>3
    <3>2. /\ k.messages = Append(j.messages, ResultsMessage(results)) /\ k.results = <<>>
          /\ ids = results
      BY <1>4, <1>7, <2>3 DEF SaysMore, IdsKept, ids, results, calls
    <3>3. Ready(Append(j.messages, ResultsMessage(results)))
      BY <1>1, <1>5, <1>7, <3>2, AwaitingEnds
    <3>4. Ready(k.messages)
      BY <3>2, <3>3
    <3> QED  BY <3>1, <3>2, <3>4 DEF StrategyTalk
  <2> QED  BY <1>3, <2>1, <2>2, <2>3
<1> QED  BY <1>8, <1>9

LEMMA NewRequestTalks ==
  /\ Ready(NewStrategyJob.messages) /\ NewStrategyJob.results = <<>>
<1> DEFINE m == UserMessage(<< Text("request") >>)
<1>1. Plain(m) /\ m.role = "user"
  BY TextIsPlain
<1>2. <<>> \in Seq({m}) /\ Settled(<<>>) /\ m \in {m}
  BY NothingIsSettled
<1> HIDE DEF m
<1>3. Ready(Append(<<>>, m))
  BY <1>1, <1>2, ReadyGrows
<1>4. Append(<<>>, m) = << m >>
  OBVIOUS
<1>5. Ready(<< m >>)
  BY <1>3, <1>4
<1> QED  BY <1>5 DEF NewStrategyJob, m

LEMMA ModelTalks ==
  ASSUME StrategyInv, NEW r \in Requests, StrategyTalk(r), ModelTurns(r)
  PROVE  StrategyTalk(r)'
<1>1. sjob \in [ Requests -> StrategyJob ] /\ sjob[r] \in StrategyJob
  BY DEF StrategyInv, StrategyTypeOK
<1>2. PICK text \in StrategySpoken, calls \in Seq(Call) :
        calls # <<>> /\ TakeTurn(r, text, calls)
  BY TurnCalls
<1> DEFINE ids == CallIds(sjob[r].trace, calls)
           more == Append(sjob[r].messages, ToolTurnMessage(text, FALSE, ids))
<1>3. /\ sjob[r].trace \in Seq([ call : Call, ok : BOOLEAN ])
      /\ sjob[r].messages \in Seq(Message(StrategySpoken))
  BY <1>1 DEF StrategyJob, StrategySpoken
<1>4. /\ ids \in Seq(Nat) /\ ids # <<>>
      /\ IdsOfTurn(<<>>, sjob[r].trace, calls) = ids
  BY <1>2, <1>3, NewIds
<1>5. /\ spc[r] = "turn" /\ spc' = [ spc EXCEPT ![r] = "tools" ]
      /\ sjob' = [ sjob EXCEPT ![r].calls = calls, ![r].messages = more ]
  BY <1>2 DEF TakeTurn, Enter
<1>6. Ready(sjob[r].messages) /\ sjob[r].results = <<>>
  BY <1>5 DEF StrategyTalk
<1>7. Awaiting(StrategySpoken, more, ids)
  <2>1. FALSE \in BOOLEAN
    OBVIOUS
  <2> HIDE DEF ids
  <2> QED  BY <1>3, <1>4, <1>6, <2>1, AwaitingBegins
<1> HIDE DEF more, ids
<1>8. /\ sjob'[r].messages = more /\ sjob'[r].results = sjob[r].results
      /\ sjob'[r].trace = sjob[r].trace /\ sjob'[r].calls = calls
  BY <1>1, <1>5 DEF StrategyJob
<1>9. spc'[r] = "tools"
  BY <1>5 DEF StrategyInv, StrategyTypeOK
<1>10. IdsOfTurn(sjob'[r].results, sjob'[r].trace, sjob'[r].calls) = ids
  BY <1>4, <1>6, <1>8
<1>11. Awaiting(StrategySpoken, sjob'[r].messages,
               IdsOfTurn(sjob'[r].results, sjob'[r].trace, sjob'[r].calls))
  BY <1>7, <1>8, <1>10
<1> QED  BY <1>9, <1>11 DEF StrategyTalk

LEMMA CallsTalk ==
  ASSUME StrategyInv, \A s \in Requests : StrategyTalk(s), NEW r \in Requests,
         \/ Read(r) \/ CallFails(r) \/ OpIncluded(r) \/ OpStale(r)
         \/ Burn(r) \/ BurnRefused(r) \/ Mint(r) \/ MintInVain(r)
  PROVE  \A s \in Requests : StrategyTalk(s)'
<1>1. sjob \in [ Requests -> StrategyJob ]
  BY DEF StrategyInv, StrategyTypeOK
<1>2. \A s \in Requests : SaidAlike(sjob[s], sjob[s])
  BY DEF SaidAlike
<1>3. ASSUME NEW ok \in BOOLEAN, spc[r] \in { "tools", "built" }, Return(r, sjob, ok)
      PROVE  \A s \in Requests : StrategyTalk(s)'
  BY <1>1, <1>2, <1>3, ReturnTalks
<1>4. CASE Read(r) \/ CallFails(r) \/ OpStale(r) \/ BurnRefused(r) \/ Mint(r) \/ MintInVain(r)
  BY <1>3, <1>4 DEF Read, CallFails, OpStale, BurnRefused, Mint, MintInVain, Calls
<1>5. CASE OpIncluded(r)
  <2>1. PICK ok \in BOOLEAN : Return(r, Spent(r), ok) /\ spc[r] = "built"
    <3>1. \A e : (e # {}) \in BOOLEAN
      OBVIOUS
    <3> QED  BY <1>5, <3>1 DEF OpIncluded, Verified
  <2>2. ASSUME NEW s \in Requests
        PROVE  Spent(r)[s] \in StrategyJob /\ SaidAlike(Spent(r)[s], sjob[s])
    <3>1. sjob[s] \in StrategyJob
      BY <1>1
    <3>2. /\ [ sjob[s] EXCEPT !.fresh = FALSE ] \in StrategyJob
          /\ SaidAlike([ sjob[s] EXCEPT !.fresh = FALSE ], sjob[s])
      BY <3>1 DEF StrategyJob, SaidAlike
    <3>3. Spent(r)[s] = sjob[s] \/ Spent(r)[s] = [ sjob[s] EXCEPT !.fresh = FALSE ]
      BY DEF Spent
    <3> QED  BY <1>2, <3>1, <3>2, <3>3
  <2>3. Spent(r) \in [ Requests -> StrategyJob ]
    <3>1. Spent(r) = [ s \in Requests |-> Spent(r)[s] ]
      BY DEF Spent
    <3> QED  BY <2>2, <3>1
  <2> QED  BY <2>1, <2>2, <2>3, ReturnTalks
<1>6. CASE Burn(r)
  <2> DEFINE k == Len(attested) + 1
             given == [ sjob EXCEPT ![r].held = @ \cup {k} ]
  <2>1. spc[r] = "tools" /\ (Return(r, given, TRUE) \/ Return(r, sjob, FALSE))
    BY <1>6 DEF Burn, Calls
  <2>2. k \in Nat
    BY DEF StrategyInv, StrategyTypeOK
  <2> HIDE DEF k
  <2>3. [ sjob[r] EXCEPT !.held = sjob[r].held \cup {k} ] \in StrategyJob
    BY <1>1, <2>2 DEF StrategyJob
  <2>4. given \in [ Requests -> StrategyJob ]
    BY <1>1, <2>3
  <2>5. \A s \in Requests : SaidAlike(given[s], sjob[s])
    BY <1>1 DEF SaidAlike, StrategyJob
  <2>6. CASE Return(r, given, TRUE)
    <3> HIDE DEF given
    <3>1. TRUE \in BOOLEAN /\ spc[r] \in { "tools", "built" }
      BY <2>1
    <3> QED  BY <2>4, <2>5, <2>6, <3>1, ReturnTalks
  <2> QED  BY <1>3, <2>1, <2>6
<1> QED  BY <1>4, <1>5, <1>6

LEMMA StrategyTalksNext ==
  ASSUME StrategyInv, \A s \in Requests : StrategyTalk(s), [StrategyNext]_svars
  PROVE  \A s \in Requests : StrategyTalk(s)'
<1>1. /\ sjob \in [ Requests -> StrategyJob ]
      /\ spc \in [ Requests -> { "idle", "turn", "tools", "built", "answered", "failed" } ]
  BY DEF StrategyInv, StrategyTypeOK
<1>2. CASE UNCHANGED << spc, sjob >>
  BY <1>2 DEF StrategyTalk
<1>3. ASSUME NEW r \in Requests, StrategyTalk(r)',
             \A s \in Requests \ {r} : sjob'[s] = sjob[s] /\ spc'[s] = spc[s]
      PROVE  \A s \in Requests : StrategyTalk(s)'
  <2> SUFFICES ASSUME NEW s \in Requests, s # r  PROVE  StrategyTalk(s)'
    BY <1>3
  <2>1. StrategyTalk(s) /\ sjob'[s] = sjob[s] /\ spc'[s] = spc[s]
    BY <1>3
  <2> QED  BY <2>1 DEF StrategyTalk
<1>4. ASSUME NEW r \in Requests, Start(r)  PROVE  StrategyTalk(r)'
  <2>1. spc[r] = "idle" /\ spc'[r] = "turn" /\ sjob' = sjob
    BY <1>1, <1>4 DEF Start, Enter
  <2> QED  BY <2>1 DEF StrategyTalk
<1>5. ASSUME NEW r \in Requests, Conclude(r) \/ Interrupted(r)  PROVE  StrategyTalk(r)'
  <2>1. spc'[r] \in { "answered", "failed" }
    BY <1>1, <1>5 DEF Conclude, Interrupted, Fail, Enter
  <2> QED  BY <2>1 DEF StrategyTalk
<1>6. ASSUME NEW r \in Requests, BuildOp(r)  PROVE  StrategyTalk(r)'
  <2>1. /\ spc[r] = "tools" /\ spc'[r] = "built" /\ sjob[r] \in StrategyJob
        /\ sjob'[r] = [ sjob[r] EXCEPT !.fresh = TRUE ]
    BY <1>1, <1>6 DEF BuildOp, Calls, Enter
  <2>2. SaidAlike(sjob'[r], sjob[r])
    BY <2>1 DEF SaidAlike, StrategyJob
  <2> QED  BY <2>1, <2>2 DEF SaidAlike, StrategyTalk
<1>7. ASSUME NEW r \in Requests,
             Start(r) \/ Conclude(r) \/ Interrupted(r) \/ BuildOp(r) \/ ModelTurns(r)
      PROVE  \A s \in Requests \ {r} : sjob'[s] = sjob[s] /\ spc'[s] = spc[s]
  BY <1>1, <1>7 DEF Start, Conclude, Interrupted, Fail, BuildOp, ModelTurns, TakeTurn, Enter
<1>8. CASE MintLands \/ MintDropped
  BY <1>2, <1>8 DEF MintLands, MintDropped
<1>9. ASSUME NEW r \in Requests, Start(r) \/ StrategyStep(r)
      PROVE  \A s \in Requests : StrategyTalk(s)'
  <2>1. CASE Start(r) \/ Conclude(r) \/ Interrupted(r) \/ BuildOp(r) \/ ModelTurns(r)
    BY <1>3, <1>4, <1>5, <1>6, <1>7, <2>1, ModelTalks
  <2> QED  BY <1>9, <2>1, CallsTalk DEF StrategyStep
<1> QED  BY <1>2, <1>8, <1>9 DEF StrategyNext, svars

-----------------------------------------------------------------------------
(* The same of a chat.                                                     *)
ChatTalk(c) ==
  /\ pc[c] \in { "idle", "list", "turn", "stream" } => job[c].results = <<>>
  /\ pc[c] \in { "turn", "stream" } => Ready(job[c].messages)
  /\ pc[c] = "tools" => Awaiting(Spoken, job[c].messages,
                          IdsOfTurn(job[c].results, job[c].trace, job[c].calls))

LEMMA SaidIsPlain ==
  ASSUME NEW r \in Row  PROVE  Plain(Said(r)) /\ Said(r) \in Message(Spoken)
BY TextIsPlain, SaidType DEF Said

LEMMA ListHistoryTalks ==
  ASSUME ChatInv, NEW c \in Chats, ChatTalk(c), ListHistory(c)  PROVE  ChatTalk(c)'
<1>1. CASE End(c, "gone")
  <2>1. pc'[c] = "gone"
    BY <1>1 DEF End, Goto, ChatInv, TypeOK
  <2> QED  BY <2>1 DEF ChatTalk
<1>2. CASE ~End(c, "gone")
  <2> DEFINE rows == Before(ListForUser(history, DEFAULT_HISTORY_LIMIT), c)
             said == [ i \in DOMAIN rows |-> Said(rows[i]) ]
             m    == UserMessage(<< Text(c) >>)
             all  == Append(said, m)
  <2>1. ListForUser(history, DEFAULT_HISTORY_LIMIT) \in Seq(Row)
    BY ChatAssumption DEF ListForUser, ChatInv, TypeOK
  <2>2. rows \in Seq(Row)
    BY <2>1 DEF Before, Front
  <2>3. /\ said \in Seq(Message(Spoken)) /\ DOMAIN said = DOMAIN rows
        /\ \A i \in DOMAIN said : said[i] = Said(rows[i])
    <3> HIDE DEF rows
    <3>1. said \in [ DOMAIN rows -> Message(Spoken) ]
      BY <2>2, SaidType
    <3> QED  BY <2>2, <3>1, MapSeq
  <2>4. \A i \in DOMAIN said : Plain(said[i])
    <3> HIDE DEF rows, said
    <3>1. \A i \in DOMAIN rows : rows[i] \in Row
      BY <2>2
    <3> QED  BY <2>3, <3>1, SaidIsPlain
  <2>5. Plain(m) /\ m.role = "user" /\ m \in Message(Spoken)
    BY TextIsPlain, TextTypes DEF Speakers
  <2>6. /\ job' = [ job EXCEPT ![c].messages = all ] /\ pc' = [ pc EXCEPT ![c] = "turn" ]
        /\ pc[c] = "list"
    BY <1>2 DEF ListHistory, Goto
  <2> HIDE DEF rows, said, m
  <2>7. Settled(said)
    BY <2>3, <2>4, SettledAll
  <2>8. Ready(all)
    BY <2>3, <2>5, <2>7, ReadyGrows
  <2> HIDE DEF all
  <2>9. pc'[c] = "turn" /\ job'[c].messages = all /\ job'[c].results = job[c].results
    BY <2>6 DEF ChatInv, TypeOK, Job
  <2> QED  BY <2>6, <2>8, <2>9 DEF ChatTalk
<1> QED  BY <1>1, <1>2

(* To join a pair to a sequence is to append the one and then the other.  *)
LEMMA PairIs ==
  ASSUME NEW S, NEW s \in Seq(S), NEW a \in S, NEW b \in S
  PROVE  s \o << a, b >> = Append(Append(s, a), b)
OBVIOUS

LEMMA PutBackTalks ==
  ASSUME ChatInv, NEW c \in Chats, ChatTalk(c), NEW said \in Answers, PutBack(c, said)
  PROVE  ChatTalk(c)'
<1> DEFINE a == AssistantMessage(<< Text(said.text) >>)
           u == UserMessage(<< Text("corrective") >>)
           all == job[c].messages \o << a, u >>
<1>1. said.text \in TurnText
  BY ChatAssumption DEF Turn
<1>2. /\ a \in Message(Spoken) /\ u \in Message(Spoken)
      /\ Plain(a) /\ Plain(u) /\ u.role = "user"
  BY <1>1, TextIsPlain, TextTypes
<1>3. job[c].messages \in Seq(Message(Spoken)) /\ job[c] \in Job
  BY JobFields DEF Job
<1> HIDE DEF a, u
<1>4. all = Append(Append(job[c].messages, a), u)
  <2> DEFINE ms == job[c].messages
             M  == Message(Spoken)
  <2>1. ms \in Seq(M) /\ a \in M /\ u \in M
    BY <1>2, <1>3
  <2> HIDE DEF ms, M
  <2>2. ms \o << a, u >> = Append(Append(ms, a), u)
    BY <2>1, PairIs
  <2> QED  BY <2>2 DEF ms
<1>5. pc[c] = "stream" /\ pc'[c] = "turn" /\ job'[c].messages = all
      /\ job'[c].results = job[c].results
  <2>1. /\ job' = [ job EXCEPT ![c].turn = @ + 1, ![c].messages = all ]
        /\ pc' = [ pc EXCEPT ![c] = "turn" ] /\ pc[c] = "stream"
    BY DEF PutBack, Goto, a, u
  <2> HIDE DEF all
  <2> QED  BY <2>1 DEF ChatInv, TypeOK, Job
<1>6. Settled(job[c].messages) /\ job[c].results = <<>>
  BY <1>5 DEF ChatTalk, Ready
<1>7. Append(job[c].messages, a) \in Seq(Message(Spoken)) /\ Settled(Append(job[c].messages, a))
  BY <1>2, <1>3, <1>6, SettledPlain
<1>8. Ready(Append(Append(job[c].messages, a), u))
  BY <1>2, <1>7, ReadyGrows
<1>9. Ready(all)
  BY <1>4, <1>8
<1> QED  BY <1>5, <1>6, <1>9 DEF ChatTalk

LEMMA ToolTurnTalks ==
  ASSUME ChatInv, NEW c \in Chats, ChatTalk(c), NEW said \in Answers, ToolTurn(c, said)
  PROVE  ChatTalk(c)'
<1> DEFINE ids  == CallIds(job[c].trace, said.calls)
           more == Append(job[c].messages, ToolTurnMessage(said.text, said.thinks, ids))
<1>1. /\ said.text \in Spoken /\ said.thinks \in BOOLEAN /\ said.calls \in Seq(Tools)
      /\ said.calls # <<>>
  <2>1. said.text \in TurnText /\ said.thinks \in BOOLEAN /\ said.calls \in Seq(Tools)
    BY ChatAssumption DEF Turn
  <2> QED  BY <2>1, TextTypes DEF ToolTurn
<1>2. job[c].messages \in Seq(Message(Spoken)) /\ job[c].trace \in Seq(ToolTrace)
  BY JobFields DEF Job
<1>3. /\ ids \in Seq(Nat) /\ ids # <<>>
      /\ IdsOfTurn(<<>>, job[c].trace, said.calls) = ids
  BY <1>1, <1>2, NewIds
<1>4. /\ pc[c] = "stream" /\ pc' = [ pc EXCEPT ![c] = "tools" ]
      /\ job' = [ job EXCEPT ![c].text = Append(@, said.text), ![c].calls = said.calls,
                             ![c].messages = more ]
  BY DEF ToolTurn, Goto
<1>5. Ready(job[c].messages) /\ job[c].results = <<>>
  BY <1>4 DEF ChatTalk
<1> HIDE DEF ids
<1>6. Awaiting(Spoken, more, ids)
  BY <1>1, <1>2, <1>3, <1>5, AwaitingBegins
<1> HIDE DEF more
<1>7. /\ pc'[c] = "tools" /\ job'[c].messages = more /\ job'[c].results = job[c].results
      /\ job'[c].trace = job[c].trace /\ job'[c].calls = said.calls
  BY <1>4 DEF ChatInv, TypeOK, Job
<1>8. IdsOfTurn(job'[c].results, job'[c].trace, job'[c].calls) = ids
  BY <1>3, <1>5, <1>7
<1>9. Awaiting(Spoken, job'[c].messages,
               IdsOfTurn(job'[c].results, job'[c].trace, job'[c].calls))
  BY <1>6, <1>7, <1>8
<1> QED  BY <1>7, <1>9 DEF ChatTalk

LEMMA CallToolsTalks ==
  ASSUME ChatInv, NEW c \in Chats, ChatTalk(c), CallTools(c)  PROVE  ChatTalk(c)'
<1> DEFINE j     == job[c]
           name  == Head(j.calls)
           calls == Tail(j.calls)
           turn  == j.turn + (IF calls = <<>> THEN 1 ELSE 0)
           label == NextLabel(calls, turn)
<1>1. PICK o \in Outcomes(name) : CallTool(c, o)
  BY DEF CallTools
<1> DEFINE e       == [ name |-> name, ok |-> o.ok ]
           trace   == Append(j.trace, e)
           results == Append(j.results, Len(j.trace) + 1)
           kept    == IF calls = <<>> THEN <<>> ELSE results
           all     == IF label = "persist" THEN <<>>
                      ELSE Answered(j.messages, results, calls)
           effects == IF o.done THEN j.effects \cup { [ at |-> Len(trace), name |-> name ] }
                                ELSE j.effects
           stop    == IF label = "persist" THEN "max_turns" ELSE j.stop
           ids     == IdsOfTurn(j.results, j.trace, j.calls)
<1>2. /\ pc[c] = "tools" /\ j.calls # <<>> /\ j.calls \in Seq(Tools)
      /\ j.trace \in Seq(ToolTrace) /\ j.results \in Seq(Nat)
      /\ j.messages \in Seq(Message(Spoken)) /\ job \in [ Chats -> Job ]
      /\ Awaiting(Spoken, j.messages, ids)
  BY JobFields DEF CallTools, LoopInv, Job, ChatInv, TypeOK, ChatTalk
<1>3. e \in ToolTrace /\ Len(trace) = Len(j.trace) + 1
  <2>1. name \in Tools
    BY <1>2
  <2>2. o.ok \in BOOLEAN
    BY <2>1, OutcomeFacts
  <2>3. e \in ToolTrace
    BY <2>1, <2>2 DEF ToolTrace
  <2> HIDE DEF e
  <2> QED  BY <1>2, <2>3
<1>4. /\ job' = [ job EXCEPT
                    ![c].calls = calls,
                    ![c].turn  = turn,
                    ![c].trace = trace,
                    ![c].results = kept,
                    ![c].messages = all,
                    ![c].effects = effects,
                    ![c].stop  = stop ]
      /\ pc' = [ pc EXCEPT ![c] = label ]
  BY <1>1, <1>3 DEF CallTool, Goto, Traced
<1>5. results \in Seq(Nat) /\ IdsKept(j.results, j.trace, j.calls, e)
  <2> HIDE DEF e
  <2> QED  BY <1>2, <1>3, IdsOnCall
<1>6. /\ label \in { "tools", "turn", "persist" }
      /\ (label = "tools") <=> (calls # <<>>)
  <2>1. j.turn \in Nat /\ j.turn < MAX_TURNS
    <3>1. j \in Job /\ j.turn < MAX_TURNS
      BY <1>2, JobFields DEF LoopInv
    <3>2. j.turn \in 0 .. MAX_TURNS
      BY <3>1 DEF Job
    <3> QED  BY <3>1, <3>2, ChatAssumption
  <2>2. calls # <<>> => turn # MAX_TURNS
    <3> HIDE DEF calls
    <3> QED  BY <2>1
  <2> HIDE DEF calls, turn
  <2>3. CASE calls # <<>>
    <3>1. label = "tools"
      BY <2>2, <2>3 DEF NextLabel
    <3> QED  BY <2>3, <3>1
  <2>4. CASE calls = <<>> /\ turn = MAX_TURNS
    <3>1. label = "persist"
      BY <2>4 DEF NextLabel
    <3> QED  BY <2>4, <3>1
  <2>5. CASE calls = <<>> /\ turn # MAX_TURNS
    <3>1. label = "turn"
      BY <2>5 DEF NextLabel
    <3> QED  BY <2>5, <3>1
  <2> QED  BY <2>3, <2>4, <2>5
<1>7. /\ ids = IdsOfTurn(results, trace, calls)
      /\ calls = <<>> => ids = results
  BY <1>5 DEF IdsKept
<1>8. /\ pc'[c] = label /\ job'[c].messages = all /\ job'[c].results = kept
      /\ job'[c].trace = trace /\ job'[c].calls = calls
  <2> HIDE DEF calls, turn, trace, kept, all, effects, stop, label
  <2> QED  BY <1>2, <1>4 DEF ChatInv, TypeOK, Job
<1> HIDE DEF calls, turn, trace, label, ids, results
<1>9. CASE label = "persist"
  BY <1>8, <1>9 DEF ChatTalk
<1>10. CASE label = "tools"
  <2>1. all = j.messages /\ kept = results
    BY <1>6, <1>10 DEF Answered
  <2>2. Awaiting(Spoken, job'[c].messages,
                 IdsOfTurn(job'[c].results, job'[c].trace, job'[c].calls))
    BY <1>2, <1>7, <1>8, <2>1
  <2> QED  BY <1>8, <1>10, <2>2 DEF ChatTalk
<1>11. CASE label = "turn"
  <2>1. all = Append(j.messages, ResultsMessage(results)) /\ kept = <<>> /\ ids = results
    BY <1>6, <1>7, <1>11 DEF Answered
  <2>2. Awaiting(Spoken, j.messages, results)
    BY <1>2, <2>1
  <2>3. Ready(Append(j.messages, ResultsMessage(results)))
    BY <1>2, <1>5, <2>2, AwaitingEnds
  <2>4. Ready(job'[c].messages) /\ job'[c].results = <<>> /\ pc'[c] = "turn"
    BY <1>8, <1>11, <2>1, <2>3
  <2> QED  BY <2>4 DEF ChatTalk
<1> QED  BY <1>6, <1>9, <1>10, <1>11

(* A step of one chat leaves the others where they stand.                  *)
LEMMA OthersStand ==
  ASSUME ChatInv, NEW c \in Chats, NEW d \in Chats, d # c,
         SaveUserTurn(d) \/ Step(d) \/ Leave(d)
  PROVE  pc'[c] = pc[c] /\ job'[c] = job[c]
<1>1. job \in [ Chats -> Job ] /\ pc \in [ Chats -> { "idle", "list", "turn", "stream",
         "tools", "persist", "done", "gone", "refused" } ]
  BY DEF ChatInv, TypeOK
<1>2. CASE SaveUserTurn(d)
  BY <1>1, <1>2 DEF SaveUserTurn, Goto
<1>3. CASE Leave(d) \/ StreamBreaks(d) \/ Persist(d)
  BY <1>1, <1>3 DEF Leave, StreamBreaks, Persist, End, Goto
<1>4. CASE ProviderAnswers(d) \/ ProviderFails(d)
  BY <1>1, <1>4 DEF ProviderAnswers, ProviderFails, End, Goto
<1>5. CASE ListHistory(d)
  <2>1. CASE End(d, "gone")
    BY <1>1, <2>1 DEF End, Goto
  <2>2. CASE ~End(d, "gone")
    <3> DEFINE rows == Before(ListForUser(history, DEFAULT_HISTORY_LIMIT), d)
               all  == Append([ i \in DOMAIN rows |-> Said(rows[i]) ],
                              UserMessage(<< Text(d) >>))
    <3>1. job' = [ job EXCEPT ![d].messages = all ] /\ Goto(d, "turn")
      BY <1>5, <2>2 DEF ListHistory
    <3> HIDE DEF all
    <3> QED  BY <1>1, <3>1 DEF Goto
  <2> QED  BY <2>1, <2>2
<1>6. CASE CallTools(d)
  <2>1. PICK o \in Outcomes(Head(job[d].calls)) : CallTool(d, o)
    BY <1>6 DEF CallTools
  <2> DEFINE j       == job[d]
             calls   == Tail(j.calls)
             turn    == j.turn + (IF calls = <<>> THEN 1 ELSE 0)
             label   == NextLabel(calls, turn)
             trace   == Traced(j.trace, Head(j.calls), o.ok)
             results == Append(j.results, Len(trace))
             kept    == IF calls = <<>> THEN <<>> ELSE results
             all     == IF label = "persist" THEN <<>>
                        ELSE Answered(j.messages, results, calls)
             call    == [ at |-> Len(trace), name |-> Head(j.calls) ]
             effects == IF o.done THEN j.effects \cup {call} ELSE j.effects
             stop    == IF label = "persist" THEN "max_turns" ELSE j.stop
  <2>2. /\ job' = [ job EXCEPT ![d].calls = calls, ![d].turn = turn, ![d].trace = trace,
                               ![d].results = kept, ![d].messages = all,
                               ![d].effects = effects, ![d].stop = stop ]
        /\ Goto(d, label)
    BY <2>1 DEF CallTool
  <2> HIDE DEF calls, turn, label, trace, kept, all, effects, stop
  <2> QED  BY <1>1, <2>2 DEF Goto
<1>7. ASSUME NEW said \in Answers, PutBack(d, said) \/ EndTurn(d, said) \/ ToolTurn(d, said)
      PROVE  pc'[c] = pc[c] /\ job'[c] = job[c]
  <2>1. CASE PutBack(d, said)
    BY <1>1, <2>1 DEF PutBack, Goto
  <2>2. CASE EndTurn(d, said)
    BY <1>1, <2>2 DEF EndTurn, Goto
  <2>3. CASE ToolTurn(d, said)
    BY <1>1, <2>3 DEF ToolTurn, Goto
  <2> QED  BY <1>7, <2>1, <2>2, <2>3
<1> QED  BY <1>2, <1>3, <1>4, <1>5, <1>6, <1>7 DEF Step

LEMMA ChatTalksNext ==
  ASSUME ChatInv, NEW c \in Chats, ChatTalk(c), [Next]_vars  PROVE  ChatTalk(c)'
<1>1. job \in [ Chats -> Job ] /\ pc \in [ Chats -> { "idle", "list", "turn", "stream",
         "tools", "persist", "done", "gone", "refused" } ]
  BY DEF ChatInv, TypeOK
<1>2. CASE pc'[c] = pc[c] /\ job'[c] = job[c]
  BY <1>2 DEF ChatTalk
<1>3. CASE pc'[c] \in { "persist", "done", "gone", "refused" }
  BY <1>3 DEF ChatTalk
<1>4. ASSUME NEW d \in Chats, d # c, SaveUserTurn(d) \/ Step(d) \/ Leave(d)
      PROVE  pc'[c] = pc[c] /\ job'[c] = job[c]
  BY <1>1, <1>4, OthersStand
<1>5. CASE SaveUserTurn(c)
  <2>1. pc[c] = "idle" /\ pc'[c] = "list" /\ job'[c] = job[c]
    BY <1>1, <1>5 DEF SaveUserTurn, Goto
  <2> QED  BY <2>1 DEF ChatTalk
<1>6. CASE Leave(c) \/ Persist(c) \/ StreamBreaks(c)
  <2>1. pc'[c] \in { "done", "gone" }
    BY <1>1, <1>6 DEF Leave, Persist, StreamBreaks, End, Goto
  <2> QED  BY <1>3, <2>1
<1>7. CASE \E said \in Answers : EndTurn(c, said)
  <2>1. pc'[c] = "persist"
    BY <1>1, <1>7 DEF EndTurn, Goto
  <2> QED  BY <1>3, <2>1
<1>8. CASE ProviderAnswers(c) \/ ProviderFails(c)
  <2>1. CASE End(c, "refused")
    <3>1. pc'[c] = "refused"
      BY <1>1, <2>1 DEF End, Goto
    <3> QED  BY <1>3, <3>1
  <2>2. CASE ~End(c, "refused")
    <3>1. /\ pc[c] = "turn" /\ pc'[c] \in { "turn", "stream" }
          /\ job'[c].results = job[c].results /\ job'[c].messages = job[c].messages
      BY <1>1, <1>8, <2>2 DEF ProviderAnswers, ProviderFails, Goto, Job
    <3> QED  BY <3>1 DEF ChatTalk
  <2> QED  BY <2>1, <2>2
<1>9. CASE Step(c)
  BY <1>6, <1>7, <1>8, <1>9, ListHistoryTalks, PutBackTalks, ToolTurnTalks, CallToolsTalks
     DEF Step
<1>10. CASE UNCHANGED vars \/ ClearHistory
  <2>1. pc'[c] = pc[c] /\ job'[c] = job[c]
    BY <1>10 DEF vars, ClearHistory
  <2> QED  BY <1>2, <2>1
<1> QED  BY <1>2, <1>4, <1>5, <1>6, <1>9, <1>10 DEF Next

(* Each request of either agent to a provider is one it can take, in       *)
(* either wire format: after any series of tool turns, of calls that fail  *)
(* and of texts put back each call has its result, right after it and once. *)
THEOREM AgentsRequestsAreWellFormed == MCSpec => []EveryRequestIsWellFormed
<1> DEFINE Talks == /\ \A r \in Requests : StrategyTalk(r)
                    /\ \A c \in Chats : ChatTalk(c)
<1>1. MCInit => Talks
  <2>1. ASSUME StrategyInit, NEW r \in Requests  PROVE  StrategyTalk(r)
    BY <2>1, NewRequestTalks DEF StrategyInit, StrategyTalk
  <2>2. ASSUME Init, NEW c \in Chats  PROVE  ChatTalk(c)
    BY <2>2 DEF Init, NewJob, ChatTalk
  <2> QED  BY <2>1, <2>2 DEF MCInit
<1>2. ChatInv /\ StrategyInv /\ Talks /\ [MCNext]_<< vars, svars, agent >> => Talks'
  BY OneAgentSteps, StrategyTalksNext, ChatTalksNext
<1>3. ChatInv /\ StrategyInv /\ Talks => EveryRequestIsWellFormed
  <2> SUFFICES ASSUME ChatInv, StrategyInv, Talks  PROVE EveryRequestIsWellFormed
    OBVIOUS
  <2>1. ASSUME NEW r \in Requests, spc[r] = "turn"
        PROVE  /\ AnthropicAccepts(sjob[r].messages)
               /\ OpenAiAccepts(AnthropicToOpenAi(sjob[r].messages))
    <3>1. sjob[r].messages \in Seq(Message(StrategySpoken))
      BY StrategyJobFields DEF StrategyInv, StrategyJob, StrategySpoken
    <3> QED  BY <2>1, <3>1, ReadyAccepted DEF StrategyTalk
  <2>2. ASSUME NEW c \in Chats, pc[c] = "turn"
        PROVE  /\ AnthropicAccepts(job[c].messages)
               /\ OpenAiAccepts(AnthropicToOpenAi(job[c].messages))
    <3>1. job[c].messages \in Seq(Message(Spoken))
      BY JobFields DEF Job
    <3> QED  BY <2>2, <3>1, ReadyAccepted DEF ChatTalk
  <2> QED  BY <2>1, <2>2 DEF EveryRequestIsWellFormed, RequestsAreWellFormed,
              StrategyRequestsAreWellFormed
<1> QED  BY <1>1, <1>2, <1>3, ChatOfBoth, ChatInvariant, StrategyInvariant, PTL DEF MCSpec
=============================================================================
