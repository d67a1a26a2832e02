------------------------------ MODULE ChatAgent ------------------------------
(***************************************************************************)
(* The chat of one owner: chat_stream of src/api/chat.rs, the tool loop of *)
(* stream_chat_agent in src/core/llm/chat_agent.rs, the persisted          *)
(* conversation of src/automation/chat_history.rs.                         *)
(*                                                                         *)
(* The language model answers a turn with any text and any tool calls.  Of *)
(* a text the guard only asks whether it says that a policy was committed  *)
(* (FABRICATION_PHRASES), so a text is a claim or plain, or empty, and the *)
(* text of a reply the sequence of its turns' texts.  The model is reached *)
(* through a chain of providers.  The stream is polled by the client: one  *)
(* that goes away drops the loop wherever it stands, and nothing after     *)
(* that point runs.                                                        *)
(***************************************************************************)
EXTENDS Conversation

CONSTANTS
  Chats,      \* the requests of the owner
  Past,       \* the conversation before them
  Answers,    \* what a turn of the model may be
  MAX_TURNS,
  DEFAULT_HISTORY_LIMIT,
  Providers,  \* the chain, the first one first
  Reliable,   \* the providers that always take a request
  Retraction, \* the text of the internal guard
  Leaves,     \* the chats whose clients may go away
  Clears      \* may the owner clear the history?

WRITE_TOOLS == { "commit_policy", "pause_policy", "resume_policy" }

Tools == WRITE_TOOLS \cup { "read_policy" }   \* one stands for all that read

TurnText == { "claim", "plain", NoText }

Turn == [ text : TurnText, thinks : BOOLEAN, calls : Seq(Tools) ]

ToolTrace == [ name : Tools, ok : BOOLEAN ]

Effect == [ at : Nat, name : WRITE_TOOLS ]    \* a write that was done

(* The rows of chat_message: what an owner said, what a chat replied.  A   *)
(* reply carries along what its chat really did, for the properties.       *)
Speakers == Chats \cup { r.by : r \in ToSet(Past) }

Row ==
  [ role : { "user" }, by : Speakers ]
    \cup [ role : { "assistant" }, by : Speakers,
           text : Seq(TurnText) \cup {Retraction}, trace : Seq(ToolTrace),
           stop : { "end_turn", "max_turns" }, effects : SUBSET Effect ]

WriteCalled(trace) == \E i \in DOMAIN trace : trace[i].name \in WRITE_TOOLS

(* The retraction says that nothing was changed.  What it does not replace *)
(* may end in a claim without a write only where the guard does not look:  *)
(* in a turn that calls tools, when it is the last one the loop has.       *)
GuardHolds(r) ==
  /\ r.text = Retraction => r.effects = {}
  /\ r.text # Retraction /\ Last(r.text) = "claim" /\ ~WriteCalled(r.trace)
       => r.stop = "max_turns" /\ Len(r.trace) >= Len(r.text)

(* The writes a trace calls done are done, and a write that had an effect  *)
(* is in it, at its place.                                                 *)
WritesIn(trace, oks) ==
  { [ at |-> i, name |-> trace[i].name ] :
      i \in { j \in DOMAIN trace : trace[j].name \in WRITE_TOOLS
                                 /\ trace[j].ok \in oks } }

TraceTrue(r) ==
  /\ WritesIn(r.trace, {TRUE}) \subseteq r.effects
  /\ r.effects \subseteq WritesIn(r.trace, BOOLEAN)

(* The conversation so far was left by this program.                       *)
ASSUME ChatAssumption ==
  /\ Answers \subseteq Turn
  /\ MAX_TURNS \in Nat \ {0} /\ DEFAULT_HISTORY_LIMIT \in Nat \ {0}
  /\ Providers # <<>> /\ Providers \in Seq(ToSet(Providers))
  /\ Reliable \subseteq ToSet(Providers)
  /\ NoText \notin Chats \cup { "claim", "plain" }
  /\ Retraction \notin Seq(TurnText)
  /\ Past \in Seq(Row)
  /\ \A r \in ToSet(Past) : r.role = "assistant" => GuardHolds(r) /\ TraceTrue(r)
  /\ Faults \in BOOLEAN /\ Leaves \subseteq Chats /\ Clears \in BOOLEAN

VARIABLES
  history,  \* the rows of chat_message, oldest first
  pc, job   \* each chat: where it is, what its loop carries

vars == << history, pc, job >>

(* What the texts of a conversation are told apart by.                     *)
Spoken == TurnText \cup Speakers \cup { "reply", "corrective" }

Job == [ turn  : 0 .. MAX_TURNS,
         provider : DOMAIN Providers,
         messages : Seq(Message(Spoken)),
         text  : Seq(TurnText) \cup {Retraction},  \* full_assistant_text
         calls : Seq(Tools),                        \* still to be dispatched
         results : Seq(Nat),                        \* tool_result_blocks
         trace : Seq(ToolTrace),
         effects : SUBSET Effect,
         stop  : { "none", "end_turn", "max_turns" } ]

NewJob == [ turn |-> 0, provider |-> 1, messages |-> <<>>, text |-> <<>>,
            calls |-> <<>>, results |-> <<>>, trace |-> <<>>, effects |-> {}, stop |-> "none" ]

UserTurn(c) == [ role |-> "user", by |-> c ]

AssistantTurn(c) ==
  [ role |-> "assistant", by |-> c, text |-> job[c].text,
    trace |-> job[c].trace, stop |-> job[c].stop,
    effects |-> job[c].effects ]

Init ==
  /\ history = Past
  /\ pc  = [ c \in Chats |-> "idle" ]
  /\ job = [ c \in Chats |-> NewJob ]

-----------------------------------------------------------------------------
Goto(c, label) == pc' = [ pc EXCEPT ![c] = label ]

(* The loop is dropped with all it carries.                                *)
End(c, label) == /\ Goto(c, label)
                 /\ job' = [ job EXCEPT ![c] = NewJob ]

(* A user turn that cannot be saved is only logged; the conversation that  *)
(* cannot be read ends the request.                                        *)
SaveUserTurn(c) ==
  /\ pc[c] = "idle"
  /\ \/ history' = Append(history, UserTurn(c))
     \/ Faults /\ UNCHANGED history
  /\ Goto(c, "list")
  /\ UNCHANGED job

Said(r) ==
  IF r.role = "user" THEN UserMessage(<< Text(r.by) >>)
  ELSE AssistantMessage(<< Text(IF r.text # Retraction /\ ToSet(r.text) \subseteq {NoText}
                                 THEN NoText ELSE "reply") >>)

(* list_for_user: the last rows, oldest first.                             *)
ListForUser(rows, limit) ==
  SubSeq(rows, IF Len(rows) > limit THEN Len(rows) - limit + 1 ELSE 1, Len(rows))

(* The message is in the rows, unless it could not be saved, or the        *)
(* history was cleared: it is taken off the end only if it is there.  The  *)
(* code compares role and text, here it is whose message it is.  They      *)
(* differ for the same text sent before, the last row and not answered:    *)
(* the code takes that off when this message could not be saved.           *)
(* Mutant: whatever is last is taken off.                                  *)
BeforeAny(rows, c) == IF rows = <<>> THEN rows ELSE Front(rows)

Before(rows, c) ==
  IF rows # <<>> /\ Last(rows) = UserTurn(c) THEN Front(rows) ELSE rows

ListHistory(c) ==
  /\ pc[c] = "list"
  /\ \/ LET rows == Before(ListForUser(history, DEFAULT_HISTORY_LIMIT), c)
        IN  job' = [ job EXCEPT ![c].messages =
                       Append([ i \in DOMAIN rows |-> Said(rows[i]) ],
                              UserMessage(<< Text(c) >>)) ]
        /\ Goto(c, "turn")
     \/ Faults /\ End(c, "gone")
  /\ UNCHANGED history

-----------------------------------------------------------------------------
(* ProviderChain::completion_stream: the next provider is asked when one   *)
(* does not take the request, the first one again in the next turn.  There *)
(* is no falling back once a provider has begun to answer.                 *)
ProviderAnswers(c) ==
  /\ pc[c] = "turn"
  /\ job' = [ job EXCEPT ![c].provider = 1 ]
  /\ Goto(c, "stream")
  /\ UNCHANGED history

ProviderFails(c) ==
  /\ Faults /\ pc[c] = "turn"
  /\ Providers[job[c].provider] \notin Reliable
  /\ IF job[c].provider < Len(Providers)
       THEN job' = [ job EXCEPT ![c].provider = @ + 1 ] /\ UNCHANGED pc
       ELSE End(c, "refused")
  /\ UNCHANGED history

(* The read of a chunk fails: nothing is saved.                            *)
StreamBreaks(c) ==
  /\ Faults /\ pc[c] = "stream"
  /\ End(c, "gone")
  /\ UNCHANGED history

-----------------------------------------------------------------------------
(* detect_fabricated_action.                                               *)
(* Mutant: the guard only trusts a trace that is not empty.                *)
FabricatedUntraced(claims, trace) == claims /\ trace = <<>>
Fabricated(claims, trace)         == claims /\ ~WriteCalled(trace)

(* A turn of text alone that claims what was not done is put back to the   *)
(* model, in what remains of the turns.  It never enters the reply, and    *)
(* its thinking is not put back with it.                                   *)
PutBack(c, said) ==
  /\ pc[c] = "stream" /\ said.calls = <<>>
  /\ Fabricated(said.text = "claim", job[c].trace)
  /\ job[c].turn + 1 < MAX_TURNS
  /\ job' = [ job EXCEPT
                ![c].turn = @ + 1,
                ![c].messages = @ \o << AssistantMessage(<< Text(said.text) >>),
                                        UserMessage(<< Text("corrective") >>) >> ]
  /\ Goto(c, "turn")
  /\ UNCHANGED history

(* The loop ends with a turn that calls no tool; in the last turn a false  *)
(* claim has the whole reply replaced.                                     *)
EndTurn(c, said) ==
  LET fabricated == Fabricated(said.text = "claim", job[c].trace)
  IN  /\ pc[c] = "stream" /\ said.calls = <<>>
      /\ fabricated => job[c].turn + 1 = MAX_TURNS
      /\ job' = [ job EXCEPT ![c].stop = "end_turn",
                             ![c].text = IF fabricated THEN Retraction
                                                       ELSE Append(@, said.text),
                             ![c].messages = <<>> ]
      /\ Goto(c, "persist")
      /\ UNCHANGED history

(* A turn that calls tools is part of the reply as it stands.              *)
ToolTurn(c, said) ==
  LET ids == CallIds(job[c].trace, said.calls)
  IN  /\ pc[c] = "stream" /\ said.calls # <<>>
      /\ job' = [ job EXCEPT
                    ![c].text  = Append(@, said.text),
                    ![c].calls = said.calls,
                    ![c].messages =
                       Append(@, ToolTurnMessage(said.text, said.thinks, ids)) ]
      /\ Goto(c, "tools")
      /\ UNCHANGED history

(* dispatch_chat_tool.  A write may be refused (no policy, not valid); if  *)
(* the connection to the store is lost it may fail and yet be done.        *)
Outcomes(name) ==
  IF name \in WRITE_TOOLS
    THEN { [ ok |-> TRUE, done |-> TRUE ], [ ok |-> FALSE, done |-> FALSE ] }
           \cup (IF Faults THEN { [ ok |-> FALSE, done |-> TRUE ] } ELSE {})
    ELSE { [ ok |-> ok, done |-> FALSE ] : ok \in { TRUE, ~Faults } }

(* What follows a call: the next of the turn, the next turn, the end.      *)
(* Mutant: the turns are counted from 0 to MAX_TURNS.                      *)
NextLabelLate(calls, turn) ==
  CASE calls # <<>>     -> "tools"
    [] turn > MAX_TURNS -> "persist"
    [] OTHER            -> "turn"

(* Mutant: out of turns the loop returns without saving.                   *)
NextLabelUnsaved(calls, turn) ==
  CASE calls # <<>>     -> "tools"
    [] turn = MAX_TURNS -> "done"
    [] OTHER            -> "turn"

NextLabel(calls, turn) ==
  CASE calls # <<>>     -> "tools"
    [] turn = MAX_TURNS -> "persist"
    [] OTHER            -> "turn"

(* Mutant: a refused write is traced as if it had worked.                  *)
TracedAsDone(trace, name, ok) == Append(trace, [ name |-> name, ok |-> TRUE ])

Traced(trace, name, ok) == Append(trace, [ name |-> name, ok |-> ok ])

(* The results go into one message, after the last call.                   *)
(* Mutant: a message for each result.                                      *)
AnsweredEach(messages, results, calls) == Append(messages, ResultsMessage(results))

Answered(messages, results, calls) ==
  IF calls = <<>> THEN Append(messages, ResultsMessage(results)) ELSE messages

CallTool(c, outcome) ==
  LET j     == job[c]
      name  == Head(j.calls)
      calls == Tail(j.calls)
      turn  == j.turn + (IF calls = <<>> THEN 1 ELSE 0)
      label == NextLabel(calls, turn)
      trace == Traced(j.trace, name, outcome.ok)
      results == Append(j.results, Len(trace))
      call  == [ at |-> Len(trace), name |-> name ]
  IN  /\ job' = [ job EXCEPT
                    ![c].calls = calls,
                    ![c].turn  = turn,
                    ![c].trace = trace,
                    ![c].results = IF calls = <<>> THEN <<>> ELSE results,
                    ![c].messages = IF label = "persist" THEN <<>>
                                    ELSE Answered(@, results, calls),
                    ![c].effects = IF outcome.done THEN @ \cup {call} ELSE @,
                    ![c].stop  = IF label = "persist" THEN "max_turns" ELSE @ ]
      /\ Goto(c, label)
      /\ UNCHANGED history

CallTools(c) ==
  /\ pc[c] = "tools"
  /\ \E outcome \in Outcomes(Head(job[c].calls)) : CallTool(c, outcome)

(* persist_assistant_turn, after the stop event is out; that the reply     *)
(* could not be saved is only logged.                                      *)
Persist(c) ==
  /\ pc[c] = "persist"
  /\ \/ history' = Append(history, AssistantTurn(c)) /\ End(c, "done")
     \/ Faults /\ UNCHANGED history /\ End(c, "gone")

-----------------------------------------------------------------------------
(* The client goes away; a reply being saved may have got into the table.  *)
Leave(c) ==
  /\ c \in Leaves /\ pc[c] \in { "list", "turn", "stream", "tools", "persist" }
  /\ \/ UNCHANGED history
     \/ pc[c] = "persist" /\ history' = Append(history, AssistantTurn(c))
  /\ End(c, "gone")

ClearHistory ==
  /\ Clears
  /\ history' = <<>>
  /\ UNCHANGED << pc, job >>

Step(c) ==
  \/ ListHistory(c)
  \/ ProviderAnswers(c) \/ ProviderFails(c) \/ StreamBreaks(c)
  \/ \E said \in Answers : PutBack(c, said) \/ EndTurn(c, said) \/ ToolTurn(c, said)
  \/ CallTools(c)
  \/ Persist(c)

Next == ClearHistory \/ \E c \in Chats : SaveUserTurn(c) \/ Step(c) \/ Leave(c)

Spec == Init /\ [][Next]_vars

(* The model answers and the calls of the loop return.                     *)
FairSpec == Spec /\ \A c \in Chats : WF_vars(Step(c))

-----------------------------------------------------------------------------
(* Every variable keeps its type; the rows are the turns of chats.         *)
TypeOK ==
  /\ history \in Seq(Row)
  /\ pc  \in [ Chats -> { "idle", "list", "turn", "stream", "tools",
                          "persist", "done", "gone", "refused" } ]
  /\ job \in [ Chats -> Job ]

Replies == { r \in ToSet(history) : r.role = "assistant" }

(* What the guard does promise of the replies that are saved.  Its own     *)
(* text, "nothing was changed", never denies a write that was done, even   *)
(* one that was answered with an error.  And of the others one that ends   *)
(* in a claim without any write called for has run out of turns, each of   *)
(* its texts with a tool called: only a turn without calls is looked at.   *)
(* It is not promised that such a claim is never saved: it is, at the end  *)
(* of a reply out of turns, and before the end of any.                     *)
GuardKeepsItsWord == \A r \in Replies : GuardHolds(r)

(* The trace saved with a reply is true of every call the chat made,       *)
(* whatever failed: the writes it calls done are done, and a write that    *)
(* had an effect is in it, at its place.                                   *)
TraceIsTrue == \A r \in Replies : TraceTrue(r)

(* A client that stays gets a reply that is saved, unless the stream, the  *)
(* store or every provider fails, however often the guard puts the text    *)
(* back and however long the model keeps calling tools.                    *)
EveryChatIsAnswered ==
  \A c \in Chats :
     pc[c] = "list" ~>
       \/ \E r \in Replies : r.by = c
       \/ pc[c] = "gone"
       \/ pc[c] = "refused" /\ Reliable = {}

(* Each request to a provider is one it can take, in either wire format,   *)
(* after any series of tool turns and texts put back: each call has its    *)
(* result, right after it and once.                                        *)
RequestsAreWellFormed ==
  \A c \in Chats :
     pc[c] = "turn" => /\ AnthropicAccepts(job[c].messages)
                       /\ OpenAiAccepts(AnthropicToOpenAi(job[c].messages))

(* A request carries the end of the conversation so far, without a gap,    *)
(* and then the message, once, whether or not it could be saved and        *)
(* whatever was cleared before or after.  (When the owner repeats a text   *)
(* that was not answered, and it cannot be saved, the code leaves a gap    *)
(* of that one row, which says the same: see Before.)                      *)
ConversationIsWhole ==
  \A c \in Chats :
     pc[c] \in { "turn", "stream", "tools" } =>
       \E n \in 0 .. Len(Past) :
          IsPrefix([ i \in 1 .. n |-> Said(Past[Len(Past) - n + i]) ]
                     \o << UserMessage(<< Text(c) >>) >>, job[c].messages)
=============================================================================
