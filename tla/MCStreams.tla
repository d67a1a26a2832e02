------------------------------ MODULE MCStreams ------------------------------
(* One answer in either format: stream_chat_agent makes both accumulators  *)
(* for a turn and feeds the one the provider's format asks for.  Markers   *)
(* have three characters: one begins like the other, and both can be cut   *)
(* at each place.                                                          *)
EXTENDS OpenAiStream

CONSTANTS MaxBlocks, MaxPieces

VARIABLES
  format,
  current_block, finished, blocks, aout, acalls, aended   \* AnthropicStream

Anthropic == INSTANCE AnthropicStream
  WITH out <- aout, tool_calls <- acalls, ended <- aended

avars == << current_block, finished, blocks, aout, acalls, aended >>

MCOpen  == << "<", "t", ">" >>
MCClose == << "<", "/", ">" >>

MCInit ==
  /\ Init
  /\ Anthropic!Init
  /\ format \in { "OpenAiSse", "AnthropicSse" }

(* Bound: text and calls do not touch each other's state, so an answer is  *)
(* either much text, or little text and then calls.                        *)
OpenAiNext ==
  \/ tool_deltas = <<>> /\ \E piece \in Pieces : Content(piece)
  \/ Len(content) <= 1 /\ \E d \in ToolDeltas : ToolDelta(d)
  \/ Finish
  \/ Done

MCNext ==
  /\ UNCHANGED format
  /\ \/ format = "OpenAiSse" /\ OpenAiNext /\ UNCHANGED avars
     \/ format = "AnthropicSse" /\ Anthropic!Next /\ UNCHANGED vars

MCSpec == MCInit /\ [][MCNext]_<< vars, avars, format >>

(* Every variable keeps its type.                                          *)
StreamTypeOK == TypeOK /\ Anthropic!TypeOK

(* In either format each call is handed over once, with just its own       *)
(* arguments, however its pieces are mixed with others, whatever blocks    *)
(* come between and whatever ended the answer.                             *)
CallsComeOnce == CallsAreWhole /\ Anthropic!CallsComeOnce
=============================================================================
