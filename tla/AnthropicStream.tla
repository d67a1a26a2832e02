--------------------------- MODULE AnthropicStream ---------------------------
(***************************************************************************)
(* parse_anthropic_sse of src/core/llm/stream_parser.rs: what becomes of   *)
(* one answer of an Anthropic model.  It comes in content blocks, one open *)
(* at a time; the arguments of a tool call come in pieces while its block  *)
(* is open; message_delta gives a reason to stop, message_stop ends it.    *)
(*                                                                         *)
(* An event is whole before the parser looks at it.  A call is the same    *)
(* record as in OpenAiStream: has it a name, and its arguments piece by    *)
(* piece.                                                                  *)
(***************************************************************************)
EXTENDS Integers, SequencesExt, Selection

CONSTANTS
  Args,         \* pieces of arguments
  MaxBlocks,    \* bound: blocks of an answer
  MaxPieces     \* bound: pieces of all its tool calls

VARIABLES
  current_block, \* AnthropicAccumulator
  finished,      \* its tool_calls
  out,           \* the kinds of the deltas passed on
  tool_calls,    \* the calls handed over
  ended,         \* message_delta, message_stop
  blocks         \* all the blocks the model has sent so far

vars == << current_block, finished, out, tool_calls, ended, blocks >>

(* "other" stands for every type of block the parser does not know.        *)
BlockType == { "text", "thinking", "tool_use", "other" }
Call      == [ named : BOOLEAN, arguments : Seq(Args) ]
NewCall(named) == [ named |-> named, arguments |-> <<>> ]
Block     == [ type : BlockType, call : Call ]
NoBlock   == [ type |-> "none", call |-> NewCall(FALSE) ]

Init ==
  /\ current_block = NoBlock /\ finished = <<>>
  /\ out = <<>> /\ tool_calls = <<>> /\ ended = "no"
  /\ blocks = <<>>

-----------------------------------------------------------------------------
(* What the model sends: blocks that are opened, filled and closed.        *)
Open == blocks # <<>> /\ Last(blocks).open

Opened(type, named) ==
  Append(blocks, [ type |-> type, call |-> NewCall(named), open |-> TRUE ])

Extended(piece) ==
  [ blocks EXCEPT ![Len(blocks)].call.arguments = Append(@, piece) ]

Closed == [ blocks EXCEPT ![Len(blocks)].open = FALSE ]

Pieces == FoldLeft(LAMBDA n, b : n + Len(b.call.arguments), 0, blocks)

-----------------------------------------------------------------------------
(* A block of a type it does not know leaves the parser where it was.      *)
ContentBlockStart(type, named) ==
  /\ ended = "no" /\ ~Open /\ Len(blocks) < MaxBlocks
  /\ current_block' = IF type = "other" THEN current_block
                      ELSE [ type |-> type, call |-> NewCall(named) ]
  /\ blocks' = Opened(type, named)
  /\ UNCHANGED << finished, out, tool_calls, ended >>

(* text_delta, thinking_delta: passed on, whatever block is open.          *)
TextDelta(type) ==
  /\ ended = "no" /\ Open /\ type = Last(blocks).type /\ type \in { "text", "thinking" }
  /\ Len(out) < MaxPieces
  /\ out' = Append(out, type)
  /\ UNCHANGED << current_block, finished, tool_calls, ended, blocks >>

(* input_json_delta, which blocks of other types may have as well.         *)
InputJsonDelta(piece) ==
  /\ ended = "no" /\ Open /\ Last(blocks).type \in { "tool_use", "other" }
  /\ Pieces < MaxPieces
  /\ current_block' = IF current_block.type = "tool_use"
                        THEN [ current_block EXCEPT !.call.arguments = Append(@, piece) ]
                        ELSE current_block
  /\ blocks' = Extended(piece)
  /\ UNCHANGED << finished, out, tool_calls, ended >>

(* current_block.take().                                                   *)
(* Mutant: the block is read and left where it is.                         *)
TakenKept ==
  /\ finished' = IF current_block.type = "tool_use"
                   THEN Append(finished, current_block.call) ELSE finished
  /\ UNCHANGED current_block

Taken ==
  /\ finished' = IF current_block.type = "tool_use"
                   THEN Append(finished, current_block.call) ELSE finished
  /\ current_block' = NoBlock

ContentBlockStop ==
  /\ ended = "no" /\ Open
  /\ Taken
  /\ blocks' = Closed
  /\ UNCHANGED << out, tool_calls, ended >>

-----------------------------------------------------------------------------
NamedCalls(calls) == Selected(calls, { i \in DOMAIN calls : calls[i].named })

FlushTools ==
  /\ tool_calls' = tool_calls \o NamedCalls(finished)
  /\ finished' = <<>>

(* tool_use, end_turn and max_tokens hand the calls over; what any other   *)
(* reason leaves behind, message_stop does.                                *)
MessageDelta(known) ==
  /\ ended = "no" /\ ~Open
  /\ IF known THEN FlushTools ELSE UNCHANGED << finished, tool_calls >>
  /\ ended' = IF known THEN "reason" ELSE "other_reason"
  /\ UNCHANGED << current_block, out, blocks >>

MessageStop ==
  /\ ended \in { "reason", "other_reason" }
  /\ FlushTools
  /\ ended' = "stopped"
  /\ UNCHANGED << current_block, out, blocks >>

Next ==
  \/ \E type \in BlockType, named \in BOOLEAN :
        (named => type = "tool_use") /\ ContentBlockStart(type, named)
  \/ \E type \in BlockType : TextDelta(type)
  \/ \E piece \in Args : InputJsonDelta(piece)
  \/ ContentBlockStop
  \/ \E known \in BOOLEAN : MessageDelta(known)
  \/ MessageStop

Spec == Init /\ [][Next]_vars

-----------------------------------------------------------------------------
(* Every variable keeps its type; what is collected is what will be handed *)
(* over, and nothing is left of an answer that is over.                    *)
TypeOK ==
  /\ current_block \in Block \cup {NoBlock}
  /\ finished \in Seq(Call) /\ tool_calls \in Seq(Call)
  /\ out \in Seq({ "text", "thinking" })
  /\ ended \in { "no", "reason", "other_reason", "stopped" }
  /\ ended = "stopped" => finished = <<>> /\ current_block = NoBlock

(* The calls the model has made, in its order.                             *)
CallsMade ==
  LET made == Selected(blocks, { i \in DOMAIN blocks : /\ blocks[i].type = "tool_use"
                                                      /\ ~blocks[i].open
                                                      /\ blocks[i].call.named })
  IN  [ i \in DOMAIN made |-> made[i].call ]

(* At each moment the calls handed over and those kept for it are those of *)
(* the closed tool blocks, each once, in their order and with just their   *)
(* own arguments, whatever text, thoughts and unknown blocks come between; *)
(* at the end all of them are handed over, for whatever reason it ended.   *)
CallsComeOnce ==
  /\ tool_calls \o NamedCalls(finished) = CallsMade
  /\ ended = "stopped" => tool_calls = CallsMade
=============================================================================
