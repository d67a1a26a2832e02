---------------------------- MODULE OpenAiStream -----------------------------
(***************************************************************************)
(* parse_openai_sse and split_inline_think of                              *)
(* src/core/llm/stream_parser.rs: what becomes of one answer of an         *)
(* OpenAI-style model.  The content comes in deltas cut anywhere, also in  *)
(* the middle of a <think> or </think>; the tool calls come in pieces,     *)
(* each for an index; the answer ends with a finish_reason and [DONE].     *)
(*                                                                         *)
(* A block is a whole "data:" line: the transport's cuts are put together  *)
(* before anything looks inside.  reasoning_content is passed on as it     *)
(* stands and touches nothing here.  The pieces of a call's arguments are  *)
(* kept as a sequence, and its id left out.                                *)
(***************************************************************************)
EXTENDS Integers, SequencesExt, Selection

CONSTANTS
  Chars, OPEN, CLOSE,   \* the characters, "<think>" and "</think>"
  MaxCut, MaxChars,     \* of one content delta, of the answer
  Indices, Args,        \* of tool calls; pieces of arguments
  MaxToolDeltas

ASSUME StreamAssumption ==
  /\ OPEN \in Seq(Chars) /\ CLOSE \in Seq(Chars)
  /\ OPEN # <<>> /\ CLOSE # <<>>
  /\ Indices \subseteq Nat /\ Indices # {} /\ IsFiniteSet(Indices)
  /\ MaxCut \in Nat /\ MaxChars \in Nat /\ MaxToolDeltas \in Nat

VARIABLES
  pending_text, in_think_block, partial_tools,  \* OpenAiAccumulator
  out,        \* the deltas passed on, character by character
  tool_calls, \* the calls handed over
  ended,      \* finish_reason, [DONE]
  content, tool_deltas   \* all the model has sent so far

vars == << pending_text, in_think_block, partial_tools, out, tool_calls, ended,
           content, tool_deltas >>

Delta   == [ thinking : BOOLEAN, char : Chars ]
Partial == [ named : BOOLEAN, arguments : Seq(Args) ]

Init ==
  /\ pending_text = <<>> /\ in_think_block = FALSE /\ partial_tools = <<>>
  /\ out = <<>> /\ tool_calls = <<>> /\ ended = "no"
  /\ content = <<>> /\ tool_deltas = <<>>

-----------------------------------------------------------------------------
Deltas(text, think) == [ i \in DOMAIN text |-> [ thinking |-> think, char |-> text[i] ] ]

Marker(think) == IF think THEN CLOSE ELSE OPEN

(* buf.find(marker): how many characters precede the first one.            *)
Finds(buf, marker) ==
  { i \in 0 .. Len(buf) - Len(marker) : SubSeq(buf, i + 1, i + Len(marker)) = marker }

Before(buf, marker) == SubSeq(buf, 1, Min(Finds(buf, marker)))
After(buf, marker) ==
  SubSeq(buf, Min(Finds(buf, marker)) + Len(marker) + 1, Len(buf))

TailOf(buf, n) == SubSeq(buf, Len(buf) - n + 1, Len(buf))

(* The ends of buf a marker could begin with.                              *)
Beginnings(buf, marker) ==
  { n \in 1 .. Len(marker) - 1 : n <= Len(buf) /\ IsPrefix(TailOf(buf, n), marker) }

(* Mutant: a marker of which the last character alone is missing gets by.  *)
HoldShort(buf, marker) ==
  Max({0} \cup { n \in Beginnings(buf, marker) : n < Len(marker) - 1 })

(* Mutant: what precedes it is held back with it.                          *)
HoldAll(buf, marker) == IF Beginnings(buf, marker) = {} THEN 0 ELSE Len(buf)

(* How much is held back: the longest of them.                             *)
Hold(buf, marker) == Max({0} \cup Beginnings(buf, marker))

(* split_inline_think: what is passed on, what is held, the mode.          *)
SplitInlineThink[s \in Seq(Chars) \X BOOLEAN] ==
  LET buf    == s[1]
      think  == s[2]
      marker == Marker(think)
      rest   == SplitInlineThink[<< After(buf, marker), ~think >>]
      hold   == Hold(buf, marker)
  IN  IF Finds(buf, marker) # {}
        THEN [ out   |-> Deltas(Before(buf, marker), think) \o rest.out,
               held  |-> rest.held,
               think |-> rest.think ]
        ELSE [ out   |-> Deltas(SubSeq(buf, 1, Len(buf) - hold), think),
               held  |-> TailOf(buf, hold),
               think |-> think ]

Content(piece) ==
  LET split == SplitInlineThink[<< pending_text \o piece, in_think_block >>]
  IN  /\ ended = "no" /\ Len(content) + Len(piece) <= MaxChars
      /\ out' = out \o split.out
      /\ pending_text' = split.held
      /\ in_think_block' = split.think
      /\ content' = content \o piece
      /\ UNCHANGED << partial_tools, tool_calls, ended, tool_deltas >>

-----------------------------------------------------------------------------
(* One piece of a tool call goes into the slot of its index; slots up to   *)
(* it are made as needed.  A later name overwrites an earlier one          *)
(* (stream_parser.rs:109-111): which name is left out, only that there is  *)
(* one, and so is a provider that sends an empty name after the real one,  *)
(* which would leave the slot without.                                     *)
NoPartial == [ named |-> FALSE, arguments |-> <<>> ]

Slots(tools, idx) ==
  [ i \in 1 .. (IF Len(tools) > idx THEN Len(tools) ELSE idx + 1) |->
      IF i <= Len(tools) THEN tools[i] ELSE NoPartial ]

Filled(slot, d) ==
  [ named |-> slot.named \/ d.named, arguments |-> slot.arguments \o d.arguments ]

ToolDelta(d) ==
  /\ ended = "no" /\ Len(tool_deltas) < MaxToolDeltas
  /\ partial_tools' = [ Slots(partial_tools, d.index) EXCEPT ![d.index + 1] =
                          Filled(@, d) ]
  /\ tool_deltas' = Append(tool_deltas, d)
  /\ UNCHANGED << pending_text, in_think_block, out, tool_calls, ended, content >>

NamedCalls(tools) == Selected(tools, { i \in DOMAIN tools : tools[i].named })

(* flush_tools empties the slots.                                          *)
FlushTools ==
  /\ tool_calls' = tool_calls \o NamedCalls(partial_tools)
  /\ partial_tools' = <<>>

(* finish_reason is tool_calls, stop or length.                            *)
Finish ==
  /\ ended = "no"
  /\ out' = out \o Deltas(pending_text, in_think_block)
  /\ pending_text' = <<>>
  /\ FlushTools
  /\ ended' = "finished"
  /\ UNCHANGED << in_think_block, content, tool_deltas >>

(* [DONE] without one of those reasons hands over the calls and keeps the  *)
(* held text to itself.                                                    *)
Done ==
  /\ ended # "done"
  /\ FlushTools
  /\ ended' = "done"
  /\ UNCHANGED << pending_text, in_think_block, out, content, tool_deltas >>

Pieces == UNION { [ 1 .. n -> Chars ] : n \in 1 .. MaxCut }

ToolDeltas == [ index : Indices, named : BOOLEAN, arguments : { <<>> } \cup { <<a>> : a \in Args } ]

Next ==
  \/ \E piece \in Pieces : Content(piece)
  \/ \E d \in ToolDeltas : ToolDelta(d)
  \/ Finish
  \/ Done

Spec == Init /\ [][Next]_vars

-----------------------------------------------------------------------------
(* Every variable keeps its type.                                          *)
TypeOK ==
  /\ pending_text \in Seq(Chars) /\ Len(pending_text) < Len(Marker(in_think_block))
  /\ in_think_block \in BOOLEAN
  /\ partial_tools \in Seq(Partial)
  /\ out \in Seq(Delta) /\ tool_calls \in Seq(Partial)
  /\ ended \in { "no", "finished", "done" }

(* The content in one piece, split at its markers.                         *)
WholeSplit[s \in Seq(Chars) \X BOOLEAN] ==
  LET text   == s[1]
      think  == s[2]
      marker == Marker(think)
  IN  IF Finds(text, marker) = {} THEN Deltas(text, think)
      ELSE Deltas(Before(text, marker), think)
             \o WholeSplit[<< After(text, marker), ~think >>]

(* Wherever the deltas are cut, what is passed on as text and as thinking  *)
(* is that of the whole content: no marker leaks into the text, no         *)
(* character is lost, doubled or late by more than a marker.               *)
CutsDoNotMatter ==
  out \o Deltas(pending_text, in_think_block) = WholeSplit[<< content, FALSE >>]

(* The pieces sent for an index, put together.                             *)
Sent(idx) ==
  LET own == Selected(tool_deltas, { i \in DOMAIN tool_deltas : tool_deltas[i].index = idx })
  IN  [ named     |-> \E i \in DOMAIN own : own[i].named,
        arguments |-> FlattenSeq([ i \in DOMAIN own |-> own[i].arguments ]) ]

(* Each tool call is handed over once, complete and in the order of the    *)
(* indices, however its pieces mix with those of others, and the [DONE]    *)
(* after the finish_reason hands nothing over again.                       *)
CallsAreWhole ==
  ended # "no" =>
    tool_calls = NamedCalls([ i \in 1 .. Max(Indices) + 1 |-> Sent(i - 1) ])
=============================================================================
