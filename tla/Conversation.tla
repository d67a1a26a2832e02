---------------------------- MODULE Conversation ----------------------------
(***************************************************************************)
(* The conversation a language model is asked to continue: ChatMessage and *)
(* ContentBlock of src/core/llm/types.rs, which is also what Anthropic is  *)
(* sent, and what anthropic_to_openai_messages                             *)
(* (src/core/llm/openai_compatible.rs) makes of it for the others.         *)
(*                                                                         *)
(* Of a text counts who said it, or that it is empty (NoText); of a call   *)
(* its id; of thoughts, a tool's input and its output, that they are       *)
(* there.  The system prompt goes first and is left out.                   *)
(***************************************************************************)
EXTENDS Integers, SequencesExt, Selection

CONSTANTS
  NoText,
  Faults   \* may what a turn needs fail: the model, a tool, a store, a chain?

Text(t)        == [ type |-> "text", text |-> t ]
Thinking       == [ type |-> "thinking" ]
ToolUse(id)    == [ type |-> "tool_use", id |-> id ]
ToolResult(id) == [ type |-> "tool_result", id |-> id ]

Message(T) ==
  [ role : { "user", "assistant" },
    content : Seq( [ type : { "text" }, text : T ] \cup [ type : { "thinking" } ]
                   \cup [ type : { "tool_use", "tool_result" }, id : Nat ] ) ]

UserMessage(content)      == [ role |-> "user", content |-> content ]
AssistantMessage(content) == [ role |-> "assistant", content |-> content ]

(* The blocks of a type, in the order of the message.                      *)
OfType(m, type) ==
  Selected(m.content, { k \in DOMAIN m.content : m.content[k].type = type })

IdsOf(m, type)  == LET own == OfType(m, type) IN [ i \in DOMAIN own |-> own[i].id ]
HasText(m)      == \E i \in DOMAIN m.content :
                     m.content[i].type = "text" /\ m.content[i].text # NoText

(* The message of a turn with tools: thinking before text before tools.    *)
If(here, block) == IF here THEN << block >> ELSE <<>>

ToolTurnMessage(text, thinks, ids) ==
  AssistantMessage( If(thinks, Thinking)
                    \o If(text # NoText, Text(text))
                    \o [ i \in DOMAIN ids |-> ToolUse(ids[i]) ] )

ResultsMessage(ids) == UserMessage([ i \in DOMAIN ids |-> ToolResult(ids[i]) ])

(* The ids of calls: each is a new one.                                    *)
CallIds(trace, calls) == [ i \in DOMAIN calls |-> Len(trace) + i ]

-----------------------------------------------------------------------------
(* The "role: tool" form: results are messages of their own.               *)
OpenAiMessage(m) ==
  [ role |-> m.role, content |-> HasText(m), tool_calls |-> IdsOf(m, "tool_use"),
    tool_call_id |-> <<>>, reasoning_content |-> OfType(m, "thinking") # <<>> ]

ToolMessage(id) ==
  [ role |-> "tool", content |-> TRUE, tool_calls |-> <<>>,
    tool_call_id |-> << id >>, reasoning_content |-> FALSE ]

OpenAiMessages(m) ==
  LET results == IdsOf(m, "tool_result")
  IN  IF m.role = "user" /\ results # <<>>
        THEN [ i \in DOMAIN results |-> ToolMessage(results[i]) ]
               \o If(HasText(m), OpenAiMessage(m))
        ELSE << OpenAiMessage(m) >>

AnthropicToOpenAi(messages) ==
  FlattenSeq([ i \in DOMAIN messages |-> OpenAiMessages(messages[i]) ])

-----------------------------------------------------------------------------
(* What both interfaces ask of tool calls: the results of a message's      *)
(* calls, all of them and no others, come next.  Anthropic wants them in   *)
(* one message, and the thinking of a message before all else.             *)
AnthropicAccepts(messages) ==
  /\ \A i \in DOMAIN messages :
       /\ messages[i].content # <<>>
       /\ \A k \in DOMAIN messages[i].content :
            messages[i].content[k].type = "thinking" => k = 1
       /\ IdsOf(messages[i], "tool_result") # <<>> => i > 1
  /\ \A i \in 1 .. Len(messages) - 1 :
       IdsOf(messages[i], "tool_use") = IdsOf(messages[i + 1], "tool_result")
  /\ Last(messages).role = "user"

OpenAiAccepts(wire) ==
  LET Results(i) == { k \in i + 1 .. Len(wire) :
                        \A j \in i + 1 .. k : wire[j].role = "tool" }
  IN  /\ \A i \in DOMAIN wire :
           wire[i].role # "tool" =>
             wire[i].tool_calls =
               [ k \in 1 .. Cardinality(Results(i)) |-> wire[i + k].tool_call_id[1] ]
      /\ wire[1].role # "tool"
=============================================================================
