------------------------------ MODULE Dialects ------------------------------
(* Wire formats and their normalization, as pure operators: the SSE and the   *)
(* AWS event-stream framing, the four provider adapters, the terminal parse   *)
(* of a JSON body, and the meter. A frame is what one framed message says,    *)
(* its JSON abstracted to the fields the adapters read.                       *)
EXTENDS Integers, Sequences, SequencesExt

CONSTANTS None,      \* an absent JSON field
          JsonCap    \* JSON_BODY_CAP, in cells of the wire

When(c, s) == IF c THEN s ELSE <<>>

(***************************************************************************)
(* Canonical events.                                                       *)
(***************************************************************************)
Start == [type |-> "start"]
Delta(n) == [type |-> "delta", chars |-> n]
Usage(u) == [type |-> "usage", in |-> u[1], out |-> u[2]]
End(s) == [type |-> "end", stop |-> s]
Bad(code) == [type |-> "error", code |-> code]

(***************************************************************************)
(* Framing. A wire is a sequence of cells that chunks may split anywhere.  *)
(* Both parsers return what is complete and keep the rest.                 *)
(***************************************************************************)
\* parse_block: a block without data and event lines says nothing; an event
\* line alone is a message with empty data.
ParseBlock(block) ==
  LET data == SelectSeq(block, LAMBDA c : c.cell = "data")
      event == \E i \in DOMAIN block : block[i].cell = "event"
  IN IF data # <<>> THEN <<data[1].frame>>
     ELSE When(event, <<[name |-> "empty", text |-> 0, stop |-> FALSE, usage |-> None]>>)

Terminators(buf) == {i \in 1 .. Len(buf) - 1 : buf[i].cell = "nl" /\ buf[i + 1].cell = "nl"}

RECURSIVE Blocks(_)
Blocks(buf) ==
  IF Terminators(buf) = {} THEN [frames |-> <<>>, rest |-> buf, err |-> FALSE]
  ELSE LET pos == CHOOSE i \in Terminators(buf) : \A j \in Terminators(buf) : i <= j
           tail == Blocks(SubSeq(buf, pos + 2, Len(buf)))
       IN [tail EXCEPT !.frames = ParseBlock(SubSeq(buf, 1, pos - 1)) \o @]

ForgetsPartialBlock(buf, bytes) ==
  [Blocks(buf \o SelectSeq(bytes, LAMBDA c : c.cell # "cr")) EXCEPT !.rest = <<>>]

\* SseParser::feed: carriage returns are dropped, so CRLF streams frame alike.
SseFeed(buf, bytes) == Blocks(buf \o SelectSeq(bytes, LAMBDA c : c.cell # "cr"))

\* FrameDecoder::feed: a too short length is an error that leaves the buffer as
\* it is; a frame that fails its checksum was taken out before, and the frames
\* decoded ahead of it in the same call are lost with the error.
RECURSIVE FrameFeed(_)
FrameFeed(buf) ==
  IF buf = <<>> THEN [frames |-> <<>>, rest |-> buf, err |-> FALSE]
  ELSE IF buf[1].cell = "short" THEN [frames |-> <<>>, rest |-> buf, err |-> TRUE]
  ELSE IF Len(buf) < 2 THEN [frames |-> <<>>, rest |-> buf, err |-> FALSE]
  ELSE IF buf[2].cell = "corrupt"
    THEN [frames |-> <<>>, rest |-> SubSeq(buf, 3, Len(buf)), err |-> TRUE]
  ELSE LET tail == FrameFeed(SubSeq(buf, 3, Len(buf)))
       IN IF tail.err THEN tail ELSE [tail EXCEPT !.frames = <<buf[2].frame>> \o @]

(***************************************************************************)
(* Adapters: one frame to canonical events. The state is the adapter's own *)
(* fields: started, ended, and what it holds back for a later frame.       *)
(***************************************************************************)
NewAdapter == [started |-> FALSE, ended |-> FALSE, stop |-> FALSE, input |-> None]

Silent(a) == [a |-> a, out |-> <<>>]
Fails(a, code) == [a |-> a, out |-> <<Bad(code)>>]

OpenAiEndsAtFinish(a, f) ==
  CASE f.name = "done" -> Silent(a)
    [] f.name \in {"bad", "empty"} -> Fails(a, "bad_chunk")
    [] OTHER ->
       [a |-> [a EXCEPT !.started = TRUE, !.stop = @ \/ f.stop],
        out |-> When(~a.started, <<Start>>) \o When(f.text > 0, <<Delta(f.text)>>)
                \o When(f.stop, <<End(TRUE)>>)
                \o When(f.usage # None, <<Usage(f.usage)>>)]

\* The end is held until [DONE]: usage comes after the frame that finishes.
OpenAi(a, f) ==
  CASE f.name = "done" ->
       [a |-> [a EXCEPT !.ended = TRUE, !.stop = IF a.ended THEN @ ELSE FALSE],
        out |-> When(~a.ended, <<End(a.stop)>>)]
    [] f.name \in {"bad", "empty"} -> Fails(a, "bad_chunk")
    [] OTHER ->
       [a |-> [a EXCEPT !.started = TRUE, !.stop = @ \/ f.stop],
        out |-> When(~a.started, <<Start>>) \o When(f.text > 0, <<Delta(f.text)>>)
                \o When(f.usage # None, <<Usage(f.usage)>>)]

\* The input count of message_start is attached to every later usage frame.
Anthropic(a, f) ==
  CASE f.name = "bad" -> Fails(a, "bad_chunk")
    [] f.name = "message_start" ->
       LET in == IF f.usage = None THEN None ELSE f.usage[1]
       IN [a |-> [a EXCEPT !.input = in],
           out |-> <<Start>> \o When(in # None, <<Usage(f.usage)>>)]
    [] f.name = "content_block_start" ->
       [a |-> a, out |-> When(f.text > 0, <<Delta(f.text)>>)]
    [] f.name = "content_block_delta" -> [a |-> a, out |-> <<Delta(f.text)>>]
    [] f.name = "message_delta" ->
       [a |-> [a EXCEPT !.stop = @ \/ f.stop],
        out |-> When(f.usage # None, <<Usage(<<a.input, f.usage[2]>>)>>)]
    [] f.name = "message_stop" -> [a |-> [a EXCEPT !.stop = FALSE], out |-> <<End(a.stop)>>]
    [] f.name = "error" -> Fails(a, "error")
    [] OTHER -> Silent(a)   \* ping, content_block_stop, and empty data

\* Usage comes in metadata, after messageStop: the end is held until then.
Bedrock(a, f) ==
  CASE f.name = "bad" -> Fails(a, "bad_payload")
    [] f.name = "messageStart" ->
       [a |-> [a EXCEPT !.started = TRUE], out |-> When(~a.started, <<Start>>)]
    [] f.name = "contentBlockDelta" -> [a |-> a, out |-> <<Delta(f.text)>>]
    [] f.name = "messageStop" -> Silent([a EXCEPT !.stop = f.stop])
    [] f.name = "metadata" ->
       [a |-> [a EXCEPT !.ended = TRUE, !.stop = IF a.ended THEN @ ELSE FALSE],
        out |-> When(f.usage # None, <<Usage(f.usage)>>) \o When(~a.ended, <<End(a.stop)>>)]
    [] OTHER -> Silent(a)

\* No sentinel: the frame that finishes ends the message, after its own usage.
Vertex(a, f) ==
  IF f.name \in {"bad", "empty"} THEN Fails(a, "bad_chunk")
  ELSE [a |-> [a EXCEPT !.started = TRUE, !.ended = @ \/ f.stop],
        out |-> When(~a.started, <<Start>>) \o When(f.text > 0, <<Delta(f.text)>>)
                \o When(f.usage # None, <<Usage(f.usage)>>)
                \o When(f.stop /\ ~a.ended, <<End(TRUE)>>)]

Normalize(kind, a, f) ==
  CASE kind = "OpenAi" -> OpenAi(a, f)
    [] kind = "Anthropic" -> Anthropic(a, f)
    [] kind = "Bedrock" -> Bedrock(a, f)
    [] kind = "Vertex" -> Vertex(a, f)

\* Adapter::feed over one chunk: frame, then normalize frame by frame.
NewTap == [buf |-> <<>>, a |-> NewAdapter]

StreamFeed(kind, t, bytes) ==
  LET got == IF kind = "Bedrock" THEN FrameFeed(t.buf \o bytes) ELSE SseFeed(t.buf, bytes)
      Step(acc, f) == LET n == Normalize(kind, acc.a, f)
                      IN [a |-> n.a, out |-> acc.out \o n.out]
      all == FoldLeft(Step, [a |-> t.a, out |-> <<>>], got.frames)
  IN IF got.err THEN [t |-> [t EXCEPT !.buf = got.rest], out |-> <<Bad("bad_frame")>>]
     ELSE [t |-> [buf |-> got.rest, a |-> all.a], out |-> all.out]

(***************************************************************************)
(* JsonBodyTap: the body is held whole up to the cap and parsed at the end. *)
(* A document is [shape, usage, cells]; the wire carries its cells.        *)
(***************************************************************************)
NewJsonTap == [buf |-> <<>>, overflowed |-> FALSE]

AccumulatesPastCap(t, bytes) == [t EXCEPT !.buf = @ \o bytes]

JsonFeed(t, bytes) ==
  CASE t.overflowed -> t
    [] ~t.overflowed /\ Len(t.buf) + Len(bytes) > JsonCap ->
       [buf |-> <<>>, overflowed |-> TRUE]
    [] OTHER -> [t EXCEPT !.buf = @ \o bytes]

\* A truncated document does not parse; an array is only Vertex's, and its
\* usage is the last element's; an error envelope is the provider's own error.
JsonFinish(kind, t) ==
  LET whole == t.buf # <<>> /\ Len(t.buf) = t.buf[1].doc.cells
      doc == t.buf[1].doc
  IN CASE t.overflowed -> <<Bad("json_body_overflow")>>
       [] ~t.overflowed /\ (~whole \/ doc.shape = "garbage") -> <<Bad("json_body_parse")>>
       [] ~t.overflowed /\ whole /\ doc.shape = "array" /\ kind # "Vertex" ->
          <<Bad("json_body_shape")>>
       [] ~t.overflowed /\ whole /\ doc.shape = "error" -> <<Bad("provider")>>
       [] OTHER -> <<Start>> \o When(doc.usage \notin {None, <<None, None>>}, <<Usage(doc.usage)>>)
                   \o <<End(TRUE)>>

GatewayHoles == {"json_body_overflow", "json_body_parse", "json_body_shape"}

(***************************************************************************)
(* Meter: characters estimate, usage counts are taken as they come.        *)
(***************************************************************************)
NewMeter == [chars |-> 0, in |-> None, out |-> None]

Or(new, old) == IF new = None THEN old ELSE new

Observe(m, e) ==
  CASE e.type = "delta" -> [m EXCEPT !.chars = @ + e.chars]
    [] e.type = "usage" -> [m EXCEPT !.in = Or(e.in, @), !.out = Or(e.out, @)]
    [] OTHER -> m

ObserveAll(m, events) == FoldLeft(Observe, m, events)
=============================================================================
