---------------------------- MODULE ResponseTap ----------------------------
(* One proxied response: its heads, its body in chunks of any size, and its   *)
(* single settlement, from the body's end or from an abort. The head decides  *)
(* how the body is read (decide_tap); the body goes through Dialects.         *)
EXTENDS Dialects

CONSTANTS Responses,   \* {[kind, head, wire, reports]}: what a provider answers
          MaxInfos     \* bound on informational heads before the response

VARIABLES reply,       \* the response being read (an element of Responses)
          infos,       \* informational heads seen
          tap,         \* ctx.tap: "none", "stream", "json"
          bound,       \* ctx.adapter: "dialect", "terminal", or "dropped"
          wire,        \* cells not yet delivered
          t,           \* the adapter's state: StreamFeed's or JsonFeed's
          events,      \* history: the canonical events emitted
          meter, error, phase, disposition

vars == <<reply, infos, tap, bound, wire, t, events, meter, error, phase, disposition>>

Hole == "meter_degraded"

\* bind_request: the dialect's adapter is bound before any head arrives.
Init ==
  /\ reply \in Responses
  /\ infos = 0 /\ tap = "none" /\ bound = "dialect" /\ wire = reply.wire
  /\ t = NewTap /\ events = <<>> /\ meter = NewMeter
  /\ error = None /\ phase = "head" /\ disposition = None

(***************************************************************************)
(* decide_tap: status, content coding and content type, in this order.     *)
(***************************************************************************)
StreamType(kind) == IF kind = "Bedrock" THEN "eventstream" ELSE "sse"

DecideTap(head, kind) ==
  CASE head.coded -> "degraded"
    [] ~head.coded /\ head.status # "2xx" -> "absent"
    [] ~head.coded /\ head.status = "2xx" /\ head.type = StreamType(kind) -> "stream"
    [] ~head.coded /\ head.status = "2xx" /\ head.type = "json" -> "json"
    [] ~head.coded /\ head.status = "2xx" /\ head.type # StreamType(kind)
         /\ head.type \in {"eventstream", "sse"} -> "degraded"
    [] OTHER -> "absent"

\* The match on the plan, for one head.
Dispatch(head) ==
  LET plan == DecideTap(head, reply.kind)
  IN /\ tap' = IF plan \in {"stream", "json"} THEN plan ELSE "none"
     /\ bound' = CASE plan = "stream" -> bound
                   [] plan = "json" -> "terminal"
                   [] OTHER -> "dropped"
     /\ t' = IF plan = "json" THEN NewJsonTap ELSE t
     /\ error' = IF plan = "degraded" THEN Hole ELSE error

SkipsHead(head) == UNCHANGED <<tap, bound, t, error>>
DispatchesEveryHead(head) == Dispatch(head)

\* upstream_response_filter on a 1xx head: not the response, so nothing.
InformationalHead(head) == SkipsHead(head)

Informational ==
  /\ phase = "head" /\ infos < MaxInfos
  /\ infos' = infos + 1
  /\ InformationalHead([status |-> "1xx", type |-> "none", coded |-> FALSE])
  /\ UNCHANGED <<reply, wire, events, meter, phase, disposition>>

ResponseHead ==
  /\ phase = "head"
  /\ Dispatch(reply.head)
  /\ phase' = "body"
  /\ UNCHANGED <<reply, infos, wire, events, meter, disposition>>

(***************************************************************************)
(* response_body_filter: the adapter is fed, the meter observes.           *)
(***************************************************************************)
Chunk(n) ==
  /\ phase = "body"
  /\ wire' = SubSeq(wire, n + 1, Len(wire))
  /\ LET bytes == SubSeq(wire, 1, n)
         fed == IF bound = "dialect" THEN StreamFeed(reply.kind, t, bytes)
                ELSE [t |-> IF bound = "terminal" THEN JsonFeed(t, bytes) ELSE t,
                      out |-> <<>>]
     IN /\ t' = fed.t
        /\ events' = events \o fed.out
        /\ meter' = ObserveAll(meter, fed.out)
  /\ UNCHANGED <<reply, infos, tap, bound, error, phase, disposition>>

\* settle_stream: finish the adapter, observe, stamp a gateway hole, decide the
\* disposition; on a capped route a JSON body without usage is a hole too.
Settle(abort) ==
  LET last == IF bound = "terminal" THEN JsonFinish(reply.kind, t) ELSE <<>>
      m == ObserveAll(meter, last)
      billed == m.in # None \/ m.out # None
      stamped == IF \E i \in DOMAIN last : last[i].type = "error" /\ last[i].code \in GatewayHoles
                 THEN Hole ELSE error
  IN /\ events' = events \o last
     /\ meter' = m
     /\ error' = IF tap = "json" /\ ~billed /\ stamped = None THEN Hole ELSE stamped
     /\ disposition' = CASE abort # None -> abort
                         [] abort = None /\ billed -> "completed_frame"
                         [] OTHER -> "completed_no_frame"
     /\ phase' = "settled"
     /\ UNCHANGED <<reply, infos, tap, bound, wire, t>>

EndOfStream == phase = "body" /\ wire = <<>> /\ Settle(None)

\* logging, for a response that never reached its end.
Abort == phase \in {"head", "body"} /\ \E why \in {"client_abort", "upstream_cut"} : Settle(why)

Done == phase = "settled" /\ UNCHANGED vars

Next ==
  \/ Informational
  \/ ResponseHead
  \/ \E n \in 1 .. Len(wire) : Chunk(n)
  \/ EndOfStream
  \/ Abort
  \/ Done

Spec == Init /\ [][Next]_vars

(***************************************************************************)
(* Properties.                                                             *)
(***************************************************************************)
Consumed == SubSeq(reply.wire, 1, Len(reply.wire) - Len(wire))

\* Every frame passes its checks. A frame that fails them loses what the same
\* chunk decoded before it, and a too short one stays in the buffer for good.
Intact == \A i \in DOMAIN reply.wire : reply.wire[i].cell \notin {"short", "corrupt"}

\* The state the tap holds stays bounded: a stream keeps one unterminated block
\* or frame, a JSON body at most the cap.
TypeOK ==
  /\ phase \in {"head", "body", "settled"} /\ infos \in 0 .. MaxInfos
  /\ bound \in {"dialect", "terminal", "dropped"}
  /\ IF bound = "terminal" THEN Len(t.buf) <= JsonCap
     ELSE Intact => IF reply.kind = "Bedrock" THEN Len(t.buf) <= 1 ELSE Terminators(t.buf) = {}
  /\ error \in {None, Hole}
  /\ disposition \in {None, "client_abort", "upstream_cut", "completed_frame", "completed_no_frame"}

\* The incremental parsers: however TCP splits the bytes of a stream, the events
\* are those of the same bytes in one piece (the tests try three chunk sizes).
ChunkingInvisible ==
  tap = "stream" /\ bound = "dialect" /\ Intact => events = StreamFeed(reply.kind, NewTap, Consumed).out

\* event.rs: the start comes first, the end last and once, and every usage
\* frame before the end, though two providers send usage after they finish.
OrderingContract ==
  LET At(type) == {i \in DOMAIN events : events[i].type = type}
  IN Intact =>
     /\ \A i \in At("end") : i = Len(events) \/ events[i + 1].type = "error"
     /\ \A i \in At("start") : \A j \in DOMAIN events : j < i => events[j].type = "error"
     /\ \A i \in At("delta") \cup At("usage") : \E j \in At("start") : j < i

\* A 2xx whose usage arrived whole is billed exactly that, or the hole is
\* stamped. Left out are event streams with a frame that fails its checks: usage
\* decoded in the same chunk, or sent after a too short frame, is neither billed
\* nor stamped (NoSilentZero).
UsageBilledOrLoud ==
  phase = "settled" /\ disposition \in {"completed_frame", "completed_no_frame"}
    /\ reply.reports # None /\ Intact =>
      \/ <<meter.in, meter.out>> = reply.reports /\ disposition = "completed_frame"
      \/ error = Hole

\* "No unmetered 2xx is a silent zero" (gatewayd/src/proxy.rs:144), of every body
\* that was read to its end. False of the code: settlement stamps json_body
\* errors, and no bad_frame (README, section 5).
NoSilentZero ==
  phase = "settled" /\ disposition \in {"completed_frame", "completed_no_frame"}
    /\ reply.reports # None => meter.in # None \/ meter.out # None \/ error = Hole
=============================================================================
