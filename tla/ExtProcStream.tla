---------------------------- MODULE ExtProcStream -----------------------------
(***************************************************************************)
(* One ExtProc stream (src/src/server.rs): its per-stream state, the        *)
(* message loop and dispatch. The peer is arbitrary here: it may send any   *)
(* message at any time, end or break the stream, and stop receiving.        *)
(* Module EnvoyStream composes the same stream with a conforming Envoy.     *)
(***************************************************************************)
EXTENDS Handlers

CONSTANTS
  Chains,   \* the filter chains a run considers
  Configs,  \* the protocol configurations Envoy may send
  Lens      \* the body lengths Envoy may send

\* What body_capabilities and the response mode selector say of a chain. Only
\* a chain with response body filters asks for a buffered response.
ChainType ==
  {c \in [needs : [Sides -> BOOLEAN], selected : BOOLEAN, writer : BOOLEAN,
          stream_buffer : BOOLEAN, selector : Selectors] :
     /\ c.writer => c.selected
     /\ c.stream_buffer => c.needs["response"]}

ConfigType == [mode : [Sides -> BodyModes], send_body_without_waiting : BOOLEAN]

DefaultConfig == [mode |-> [side \in Sides |-> "buffered"],
                  send_body_without_waiting |-> FALSE]

ASSUME StreamAssumption ==
  /\ Chains \subseteq ChainType
  /\ Configs \subseteq ConfigType
  /\ Lens \subseteq Nat

VARIABLES
  chain,     \* the pipeline, shared by all streams and never changed
  state,     \* StreamState
  first_message_processed,
  status,    \* "running", or how the stream ended
  out        \* the responses to the last message

vars == <<chain, state, first_message_processed, status, out>>

-----------------------------------------------------------------------------
(* State.                                                                   *)

EosType == [headers : BOOLEAN, body : BOOLEAN]
HookType == [headers : 0..2, eos : 0..2, selected : 0..2, mutated : BOOLEAN]

StateType ==
  [carried_context : {Drained, "stream", "buffer"},
   headers : [Sides -> BOOLEAN],            \* request, response are Some
   body : [Sides -> Nat],                   \* request_body, response_body
   streamed_request_bytes : Nat,
   body_receipt : [Sides -> BOOLEAN],
   filters_executed : [Sides -> BOOLEAN],
   headers_sent : [Sides -> BOOLEAN],
   eos : [Sides -> EosType],
   mode : [Sides -> BodyModes],
   send_body_without_waiting : BOOLEAN,
   deferred : [Sides -> Mutations],
   order : [Sides -> {Unseen} \cup Steps],
   local_reply : BOOLEAN,
   buffered_request_body_processed : BOOLEAN,
   hooks : [Sides -> HookType]]             \* filter calls so far

Both(x) == [side \in Sides |-> x]

\* StreamState::default
NewState ==
  [carried_context |-> "stream", headers |-> Both(FALSE), body |-> Both(0),
   streamed_request_bytes |-> 0, body_receipt |-> Both(FALSE),
   filters_executed |-> Both(FALSE), headers_sent |-> Both(FALSE),
   eos |-> Both([headers |-> FALSE, body |-> FALSE]),
   mode |-> DefaultConfig.mode,
   send_body_without_waiting |-> DefaultConfig.send_body_without_waiting,
   deferred |-> Both({}), order |-> Both(Unseen), local_reply |-> FALSE,
   buffered_request_body_processed |-> FALSE,
   hooks |-> Both([headers |-> 0, eos |-> 0, selected |-> 0, mutated |-> FALSE])]

-----------------------------------------------------------------------------
(* Messages.                                                                *)

Message(side, step, eos, len, guard) ==
  [side |-> side, step |-> step, eos |-> eos, len |-> len, guard |-> guard]

\* Only request headers are searched for guardrail selections, of which a selector
\* that is off sees no more than whether they are ambiguous; only bodies carry
\* bytes, and trailers have no end_of_stream flag.
RequestGuards == IF chain.selector = "off" THEN {"none", "ambiguous"} ELSE Guards

HeadersMessages(side) ==
  {Message(side, Headers, eos, 0, guard) : eos \in BOOLEAN,
     guard \in IF side = "request" THEN RequestGuards ELSE {"none"}}
BodyMessages(side) == {Message(side, Body, eos, len, "none") : eos \in BOOLEAN, len \in Lens}
TrailersMessage(side) == Message(side, Trailers, FALSE, 0, "none")

MessageType ==
  [side : Sides, step : Steps, eos : BOOLEAN, len : Nat, guard : Guards]

\* The outcomes filters can have on a message. Without a filter of a kind, or
\* where the message runs none of that kind, there is none to act; only a writer
\* changes the body it selects, and only a chain with response body filters
\* asks for a buffered response. What stops at the header filters runs no others.
FilterOutcomes(c, s, m) ==
  {f \in
    [header : IF s.filters_executed[m.side] \/ OutOfOrder(s, m) THEN {"continue"}
              ELSE {h \in HeaderOutcomes : h = "buffer" => c.needs["response"]},
     body : IF m.step = Headers \/ ~c.needs[m.side] \/ OutOfOrder(s, m) THEN {"keep"}
            ELSE BodyOutcomes,
     selected : IF m.side = "response" \/ ~c.selected \/ OutOfOrder(s, m) THEN {"keep"}
                ELSE {b \in BodyOutcomes : b \in {"clear", "grow"} => c.writer}] :
    f.header \in {"reject", "error"} => f.body = "keep" /\ f.selected = "keep"}

-----------------------------------------------------------------------------
(* The message loop.                                                        *)

\* The protocol_config field of a message: absent, with a body mode the parser
\* refuses, or a configuration.
Absent == [kind |-> "absent", config |-> DefaultConfig]
Unsupported == [kind |-> "unsupported", config |-> DefaultConfig]
Supported(config) == [kind |-> "supported", config |-> config]

\* Mutant: a later message may change the configuration.
AcceptedFieldsLate == {Absent} \cup {Supported(config) : config \in Configs}

\* apply_protocol_config refuses a late field and, with
\* config_from_first_message, an unsupported mode.
AcceptedFields ==
  {Absent} \cup IF first_message_processed THEN {} ELSE {Supported(config) : config \in Configs}

RefusedFields ==
  {Unsupported} \cup IF first_message_processed THEN {Supported(config) : config \in Configs} ELSE {}

Configured(s, field) ==
  IF field.kind = "absent" THEN s
  ELSE [s EXCEPT !.mode = field.config.mode,
                 !.send_body_without_waiting = field.config.send_body_without_waiting]

\* Mutant: a local reply is handled like any other response.
DispatchRequestFiltersLocalReply(c, s, f, m) ==
  LET advanced == Advance(s, m)
  IN IF BodyNotExpected(s, m) \/ OutOfOrder(s, m) THEN Fail(s, "invalid_argument")
     ELSE CASE m.step = Trailers -> HandleTrailers(c, advanced, f, m.side)
            [] m.step = Headers /\ m.side = "request" -> HandleRequestHeaders(c, advanced, f, m)
            [] m.step = Body /\ m.side = "request" -> HandleRequestBody(c, advanced, f, m)
            [] m.step = Headers /\ m.side = "response" -> HandleResponseHeaders(c, advanced, f, m)
            [] OTHER -> HandleResponseBody(c, advanced, f, m)

\* dispatch_request
DispatchRequest(c, s, f, m) ==
  LET advanced == Advance(s, m)
  IN IF BodyNotExpected(s, m) \/ OutOfOrder(s, m) THEN Fail(s, "invalid_argument")
     ELSE IF advanced.local_reply THEN LocalReplyPassthrough(advanced, m)
     ELSE CASE m.step = Trailers -> HandleTrailers(c, advanced, f, m.side)
            [] m.step = Headers /\ m.side = "request" -> HandleRequestHeaders(c, advanced, f, m)
            [] m.step = Body /\ m.side = "request" -> HandleRequestBody(c, advanced, f, m)
            [] m.step = Headers /\ m.side = "response" -> HandleResponseHeaders(c, advanced, f, m)
            [] OTHER -> HandleResponseBody(c, advanced, f, m)

\* release_buffers_after_immediate
ReleaseBuffers(s) == [s EXCEPT !.body = Both(0), !.streamed_request_bytes = 0]

Running == status = "running"

\* The responses are sent one by one. The loop ends with the handler's error,
\* after an immediate response, or when the peer no longer receives.
Finish(r) ==
  \/ /\ r.err # "none"
     /\ state' = r.state
     /\ status' = r.err
     /\ out' = <<>>
  \/ /\ r.err = "none"
     /\ ~HasImmediate(r.out)
     /\ state' = r.state
     /\ status' = status
     /\ out' = r.out
  \/ /\ HasImmediate(r.out)
     /\ state' = ReleaseBuffers(r.state)
     /\ status' = "immediate"
     /\ out' = r.out
  \/ \E sent \in 0..(Len(r.out) - 1) :
     /\ state' = r.state
     /\ status' = "ok"
     /\ out' = SubSeq(r.out, 1, sent)

Receive(m, field, f) ==
  /\ Running
  /\ first_message_processed' = TRUE
  /\ Finish(DispatchRequest(chain, Configured(state, field), f, m))
  /\ UNCHANGED chain

ReceiveAny(m) ==
  \E f \in FilterOutcomes(chain, state, m) : \E field \in AcceptedFields : Receive(m, field, f)

ReceiveHeaders(side) == \E m \in HeadersMessages(side) : ReceiveAny(m)

ReceiveBody(side) == \E m \in BodyMessages(side) : ReceiveAny(m)

ReceiveTrailers(side) == ReceiveAny(TrailersMessage(side))

\* A message whose request field is unset is skipped.
ReceiveEmpty ==
  \E field \in AcceptedFields :
    /\ Running
    /\ first_message_processed' = TRUE
    /\ state' = Configured(state, field)
    /\ out' = <<>>
    /\ UNCHANGED <<chain, status>>

\* A message whose protocol_config is refused ends the stream, whatever else it
\* carries.
RefuseConfig ==
  /\ Running
  /\ RefusedFields # {}
  /\ status' = "invalid_argument"
  /\ out' = <<>>
  /\ UNCHANGED <<chain, state, first_message_processed>>

\* The inbound stream ends, or fails in transport.
InboundEnds(end) ==
  /\ Running
  /\ status' = end
  /\ out' = <<>>
  /\ UNCHANGED <<chain, state, first_message_processed>>

Init ==
  /\ chain \in Chains
  /\ state = NewState
  /\ first_message_processed = FALSE
  /\ status = "running"
  /\ out = <<>>

Next ==
  \/ \E side \in Sides : ReceiveHeaders(side) \/ ReceiveBody(side) \/ ReceiveTrailers(side)
  \/ ReceiveEmpty
  \/ RefuseConfig
  \/ InboundEnds("ok")
  \/ InboundEnds("internal")

Spec == Init /\ [][Next]_vars

-----------------------------------------------------------------------------
(* Properties.                                                              *)

Statuses ==
  {"running", "ok", "immediate", "invalid_argument", "internal", "resource_exhausted"}

ResponseType ==
  [kind : {"headers", "body", "trailers", "immediate"}, side : Sides,
   mutation : Mutations, content : {"keep", "replace", "stream"}, len : Nat,
   eos : BOOLEAN, override : BOOLEAN]

\* Type correctness of the stream task and its StreamState.
TypeOK ==
  /\ chain \in Chains
  /\ state \in StateType
  /\ first_message_processed \in BOOLEAN
  /\ status \in Statuses
  /\ out \in Seq(ResponseType)

\* The carried filter context is back in its slot whenever the stream waits for
\* the next message, whichever phases, early returns and rejections came before:
\* the "cross-phase context missing" error of hydrate cannot be reached.
ContextIntact == Running => state.carried_context # Drained

\* Header filters of a direction run at most once per stream, although four
\* paths can run them (early, at headers end of stream, at body end of stream
\* and at trailers), and before the body filters of that direction get their
\* end-of-stream call.
HeaderFiltersOnceFirst ==
  \A side \in Sides :
    /\ state.hooks[side].headers <= 1
    /\ state.hooks[side].eos > 0 => state.hooks[side].headers = 1
=============================================================================
