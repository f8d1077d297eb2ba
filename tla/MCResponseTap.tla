--------------------------- MODULE MCResponseTap ---------------------------
(* Model-checking instance of ResponseTap: what the four providers answer.    *)
EXTENDS ResponseTap

F(name, text, stop, usage) == [name |-> name, text |-> text, stop |-> stop, usage |-> usage]
Plain(name) == F(name, 0, FALSE, None)

Scripts(kind) ==
  CASE kind = "OpenAi" ->
         {<<F("chunk", 2, FALSE, None), F("chunk", 0, TRUE, None),
            F("chunk", 0, FALSE, <<3, 5>>), Plain("done")>>,
          <<Plain("bad"), F("chunk", 1, TRUE, None), Plain("done"), Plain("done")>>}
    [] kind = "Anthropic" ->
         {<<F("message_start", 0, FALSE, <<3, 1>>), F("content_block_start", 0, FALSE, None),
            F("content_block_delta", 2, FALSE, None),
            F("message_delta", 0, TRUE, <<None, 5>>), Plain("message_stop")>>,
          <<F("message_start", 0, FALSE, None), Plain("error")>>}
    [] kind = "Bedrock" ->
         {<<Plain("messageStart"), F("contentBlockDelta", 2, FALSE, None),
            F("messageStop", 0, TRUE, None), F("metadata", 0, FALSE, <<3, 5>>)>>,
          <<Plain("messageStart"), Plain("bad"), F("messageStop", 0, TRUE, None)>>}
    [] kind = "Vertex" ->
         {<<F("chunk", 2, FALSE, None), F("chunk", 1, FALSE, <<3, None>>),
            F("chunk", 0, TRUE, <<3, 5>>)>>,
          <<F("chunk", 1, TRUE, None), Plain("bad")>>}

\* Line ends as the providers send them, and a comment line in between.
Sse(f) == IF f.name \in {"content_block_delta", "done"}
          THEN <<[cell |-> "event"], [cell |-> "cr"], [cell |-> "nl"], [cell |-> "data", frame |-> f],
                 [cell |-> "cr"], [cell |-> "nl"], [cell |-> "cr"], [cell |-> "nl"]>>
          ELSE <<[cell |-> "data", frame |-> f], [cell |-> "nl"], [cell |-> "nl"],
                 [cell |-> "comment"], [cell |-> "nl"], [cell |-> "nl"]>>
Framed(f) == <<[cell |-> "prelude"], [cell |-> "message", frame |-> f]>>

WireOf(kind, script) ==
  FoldLeft(LAMBDA w, f : w \o (IF kind = "Bedrock" THEN Framed(f) ELSE Sse(f)), <<>>, script)

ReportedBy(script) ==
  LET pairs == SelectSeq(script, LAMBDA f : f.usage # None)
      Pick(i) == LET some == SelectSeq(pairs, LAMBDA f : f.usage[i] # None)
                 IN IF some = <<>> THEN None ELSE some[Len(some)].usage[i]
  IN IF pairs = <<>> THEN None ELSE <<Pick(1), Pick(2)>>

Ok(type) == [status |-> "2xx", type |-> type, coded |-> FALSE]

Kinds == {"OpenAi", "Anthropic", "Bedrock", "Vertex"}

Streams ==
  UNION {{[kind |-> k, head |-> Ok(StreamType(k)), wire |-> WireOf(k, s), reports |-> ReportedBy(s)] :
            s \in Scripts(k)} : k \in Kinds}

\* An event stream with a frame whose length or checksum is wrong, ahead of an
\* intact one that reports usage.
Damaged ==
  {[kind |-> "Bedrock", head |-> Ok("eventstream"), reports |-> <<3, 5>>,
    wire |-> Framed(Plain("messageStart")) \o d \o Framed(F("metadata", 0, FALSE, <<3, 5>>))] :
     d \in {<<[cell |-> "short"]>>, <<[cell |-> "prelude"], [cell |-> "corrupt"]>>}}

Documents ==
  {[shape |-> sh, usage |-> u, cells |-> n] :
     sh \in {"object", "array", "error", "garbage"}, u \in {None, <<3, None>>, <<3, 5>>}, n \in {2, 4}}

Bodies ==
  {[kind |-> k, head |-> Ok("json"), wire |-> [i \in 1 .. d.cells |-> [cell |-> "json", doc |-> d]],
    reports |-> IF d.shape \in {"object", "array"} THEN d.usage ELSE None] :
     k \in {"OpenAi", "Vertex"}, d \in Documents}

\* Heads the tap cannot or need not read: errors, audio, a coded body, the
\* other framing.
Others ==
  UNION {{[kind |-> "OpenAi", head |-> h, wire |-> WireOf("OpenAi", s), reports |-> ReportedBy(s)] :
            h \in {Ok("eventstream"), [Ok("sse") EXCEPT !.coded = TRUE]}} : s \in Scripts("OpenAi")}
  \cup {[kind |-> "Bedrock", head |-> h, wire |-> <<[cell |-> "data"]>>, reports |-> None] :
           h \in {[Ok("json") EXCEPT !.status = "4xx"], Ok("audio")}}

AllResponses == Streams \cup Damaged \cup Bodies \cup Others
=============================================================================
