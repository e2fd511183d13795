------------------------------- MODULE Pipeline -------------------------------
(***************************************************************************)
(* Filter execution and response assembly (src/src/pipeline.rs), written as *)
(* operators from a stream state to a result                                *)
(*   state  the stream state afterwards                                     *)
(*   out    the responses to send                                           *)
(*   err    "none", or the gRPC status the handler returns                  *)
(*                                                                          *)
(* Parameters: c is what the filter chain can do and how guardrails are     *)
(* selected, s the stream state, f the outcome of the filters that this     *)
(* message runs. The filters themselves are external: f ranges over every   *)
(* outcome the pipeline distinguishes.                                      *)
(*                                                                          *)
(* Every operator that builds a filter context first takes the carried      *)
(* context out of its slot (Hydrate) and puts it back at the end            *)
(* (Dehydrate); a return in between leaves the slot drained. The slot is    *)
(* always empty when Dehydrate fills it, because the same operator drained  *)
(* it, so the second error of dehydrate has no counterpart here.            *)
(***************************************************************************)
EXTENDS Protocol, Response

CONSTANTS
  Limit,             \* max_body_accumulation; a limit above all that is sent
                     \* stands for None
  SelectedLimit,     \* selected_upstream_request_body_limit
  StreamBufferLimit  \* max_bytes of a StreamBuffer response

ASSUME LimitAssumption ==
  /\ Limit \in Nat
  /\ SelectedLimit \in Nat
  /\ StreamBufferLimit \in Nat

-----------------------------------------------------------------------------
(* The filters.                                                             *)

\* "mutate": the header filters change headers; "buffer": one of them asks
\* for the complete response body (StreamBuffer); "reject" stands for Reject
\* and TerminalResponse, which immediate_from_action treats alike.
HeaderOutcomes == {"continue", "mutate", "buffer", "reject", "error"}
BodyOutcomes == {"keep", "clear", "grow", "reject", "error"}
Outcomes == [header : HeaderOutcomes, body : BodyOutcomes, selected : BodyOutcomes]

\* What a body filter leaves of len bytes.
Rewritten(outcome, len) ==
  CASE outcome = "clear" -> 0
    [] outcome = "grow" -> len + 1
    [] OTHER -> len

\* A direction's record of its filter calls. Counters go up to "twice or more".
More(n) == IF n < 2 THEN n + 1 ELSE 2

HeaderCall(h, f) ==
  [h EXCEPT !.headers = More(@), !.mutated = @ \/ f.header = "mutate"]
EosCall(h) == [h EXCEPT !.eos = More(@)]
SelectedCall(h) == [h EXCEPT !.selected = More(@)]

-----------------------------------------------------------------------------
(* Results.                                                                 *)

Reply(s, out) == [state |-> s, out |-> out, err |-> "none"]
Fail(s, err) == [state |-> s, out |-> <<>>, err |-> err]
Stops(r) == r.err # "none" \/ HasImmediate(r.out)

\* A hook's outcome as an early return, or none of it (immediate_from_action).
HookResult(s, outcome) ==
  CASE outcome = "error" -> Fail(s, "internal")
    [] outcome = "reject" -> Reply(s, <<Immediate>>)
    [] OTHER -> Reply(s, <<>>)

-----------------------------------------------------------------------------
(* The carried context: its slot holds "drained" for None, otherwise the    *)
(* response_body_mode it carries.                                           *)

Drained == "drained"

Hydrate(s) == [s EXCEPT !.carried_context = Drained]

\* The context put back is the one taken out of state `before`, updated by
\* the header filters if they ran in it.
Dehydrate(s, before, f, headers_ran) ==
  [s EXCEPT !.carried_context =
     IF headers_ran /\ f.header = "buffer" THEN "buffer" ELSE before.carried_context]

-----------------------------------------------------------------------------
(* Hooks.                                                                   *)

\* execute_request, execute_response
ExecuteHeaderFilters(s, side, f) ==
  HookResult([s EXCEPT !.hooks[side] = HeaderCall(@, f)], f.header)

\* What header filters that ran in this context ask for.
HeaderMutation(ran, f) == IF ran /\ f.header = "mutate" THEN {"filter"} ELSE {}

\* run_body_filters and run_resp_body_filters skip an empty chunk that is not
\* the last; a chain without body filters leaves every body alone.
BodyFiltersRun(c, side, len, eos) == c.needs[side] /\ (len > 0 \/ eos)

BodyFilterLen(c, side, f, len, eos) ==
  IF BodyFiltersRun(c, side, len, eos) THEN Rewritten(f.body, len) ELSE len

RunBodyFilters(c, s, side, f, len, eos) ==
  IF BodyFiltersRun(c, side, len, eos)
    THEN HookResult([s EXCEPT !.hooks[side] = IF eos THEN EosCall(@) ELSE @], f.body)
    ELSE Reply(s, <<>>)

\* run_selected_upstream_body_filters
RunSelectedUpstreamBodyFilters(c, s, f) ==
  LET len == Rewritten(f.selected, s.body["request"])
      ran == [s EXCEPT !.body["request"] = len,
                       !.hooks["request"] = SelectedCall(@)]
  IN IF ~c.selected THEN Reply(s, <<>>)
     ELSE IF f.selected \notin {"reject", "error"} /\ c.writer /\ len > Limit
       THEN Reply(ran, <<Immediate>>)
     ELSE HookResult(ran, f.selected)

\* run_request_body_filters_at_eos
RunRequestBodyFiltersAtEos(c, s, f, phase, ordinary) ==
  LET len == s.body["request"]
      ran == IF ordinary
               THEN RunBodyFilters(c, [s EXCEPT !.body["request"] =
                                         BodyFilterLen(c, "request", f, len, TRUE)],
                                   "request", f, len, TRUE)
               ELSE Reply(s, <<>>)
  IN IF phase = Headers THEN Reply(s, <<>>)
     ELSE IF Stops(ran) THEN ran
     ELSE RunSelectedUpstreamBodyFilters(c, ran.state, f)

-----------------------------------------------------------------------------
(* Response assembly.                                                       *)

\* with_content_length
WithContentLength(mutation, len, original) ==
  IF len # original THEN mutation \cup {"length"} ELSE mutation

\* build_request_for_phase, build_response_for_phase: FULL_DUPLEX_STREAMED has
\* held the headers response back until now.
BuildForPhase(side, phase, mutation, len, mode, eos) ==
  IF phase = Headers THEN <<HeadersResponse(side, mutation)>>
  ELSE IF mode = "fds"
    THEN <<HeadersResponse(side, mutation)>>
           \o BodyResponses(side, TRUE, len, 0, {}, mode, eos)
  ELSE BodyResponses(side, TRUE, len, 0, mutation, mode, eos)

\* build_bodyless_selected_request_response
BuildBodyless(s, mutation, original) ==
  IF s.body["request"] > 0 THEN Reply(s, <<Immediate>>)
  ELSE Reply([s EXCEPT !.headers_sent["request"] = TRUE],
             <<HeadersResponse("request",
                 WithContentLength(mutation, s.body["request"], original))>>)

\* build_request
BuildRequest(s, phase, mutation, original, eos) ==
  IF phase = Body /\ s.eos["request"].headers THEN BuildBodyless(s, mutation, original)
  ELSE Reply(s, BuildForPhase("request", phase,
                  WithContentLength(mutation, s.body["request"], original),
                  s.body["request"], s.mode["request"], eos))

-----------------------------------------------------------------------------
(* Pipelines.                                                               *)

\* A pipeline for a direction needs the request, and the response direction
\* the response headers too.
MissingHeaders(s, side) ==
  ~s.headers["request"] \/ (side = "response" /\ ~s.headers["response"])

\* Mutant: the filters run again with the body.
ExecuteRequestFiltersAgain(s, f) ==
  LET ran == ExecuteHeaderFilters(s, "request", f)
  IN IF Stops(ran) THEN ran
     ELSE Reply([ran.state EXCEPT !.filters_executed["request"] = TRUE], <<>>)

\* execute_request_filters_if_needed
ExecuteRequestFiltersIfNeeded(s, f) ==
  LET ran == ExecuteHeaderFilters(s, "request", f)
  IN IF s.filters_executed["request"] THEN Reply(s, <<>>)
     ELSE IF Stops(ran) THEN ran
     ELSE Reply([ran.state EXCEPT !.filters_executed["request"] = TRUE], <<>>)

SelectedInputExceedsLimit(c, s, phase) ==
  phase = Body /\ c.selected /\ s.body["request"] > SelectedLimit

\* run_request_pipeline_inner
RunRequestPipelineInner(c, s, f, phase, eos, ordinary) ==
  LET runs == ~s.filters_executed["request"]
      ran == ExecuteRequestFiltersIfNeeded(Hydrate(s), f)
      filtered == RunRequestBodyFiltersAtEos(c, ran.state, f, phase, ordinary)
  IN IF MissingHeaders(s, "request") THEN Fail(s, "invalid_argument")
     ELSE IF s.carried_context = Drained THEN Fail(s, "internal")
     ELSE IF Stops(ran) THEN ran
     ELSE IF SelectedInputExceedsLimit(c, ran.state, phase)
       THEN Reply(ran.state, <<Immediate>>)
     ELSE IF Stops(filtered) THEN filtered
     ELSE BuildRequest(Dehydrate(filtered.state, s, f, runs), phase,
                       HeaderMutation(runs, f), s.body["request"], eos)

RunRequestPipeline(c, s, f, phase, eos) ==
  RunRequestPipelineInner(c, s, f, phase, eos, TRUE)

\* run_bodyless_selected_upstream_pipeline
RunBodylessSelectedUpstreamPipeline(c, s, f) ==
  RunRequestPipelineInner(c, s, f, Body, TRUE, FALSE)

\* execute_response_pipeline_and_body_filters
ExecuteResponsePipeline(c, s, f, phase, runs) ==
  LET len == s.body["response"]
      ran == IF runs THEN ExecuteHeaderFilters(s, "response", f) ELSE Reply(s, <<>>)
  IN IF Stops(ran) \/ phase = Headers THEN ran
     ELSE RunBodyFilters(c, [ran.state EXCEPT !.body["response"] =
                               BodyFilterLen(c, "response", f, len, TRUE)],
                         "response", f, len, TRUE)

\* run_response_pipeline. The response headers are taken out of the state; a
\* body phase also sends the mutation parked at header time.
RunResponsePipeline(c, s, f, phase, eos) ==
  LET runs == phase = Headers \/ ~s.filters_executed["response"]
      taken == [s EXCEPT !.headers["response"] = FALSE]
      ran == ExecuteResponsePipeline(c, Hydrate(taken), f, phase, runs)
      parked == Dehydrate(ran.state, s, f, runs)
      deferred == IF phase = Body THEN parked.deferred["response"] ELSE {}
      done == [parked EXCEPT !.deferred["response"] = IF phase = Body THEN {} ELSE @]
      len == done.body["response"]
  IN IF MissingHeaders(s, "response") THEN Fail(s, "invalid_argument")
     ELSE IF s.carried_context = Drained THEN Fail(taken, "internal")
     ELSE IF Stops(ran) THEN ran
     ELSE Reply(done, BuildForPhase("response", phase,
                        WithContentLength(deferred \cup HeaderMutation(runs, f), len,
                                          s.body["response"]),
                        len, s.mode["response"], eos))

-----------------------------------------------------------------------------
(* Early header filters.                                                    *)

\* MutationDelivery: "send" now, "ack" now and send the mutation with the
\* body (DeferWithResponse), or stay "silent" (DeferSilent).
Deliver(s, side, mutation, delivery) ==
  IF delivery = "send" THEN Reply(s, <<HeadersResponse(side, mutation)>>)
  ELSE Reply([s EXCEPT !.deferred[side] = mutation],
             IF delivery = "ack" THEN <<HeadersResponse(side, {})>> ELSE <<>>)

\* run_request_header_filters_early
RunRequestHeaderFiltersEarly(s, f, delivery) ==
  LET ran == ExecuteHeaderFilters(Hydrate(s), "request", f)
      done == [ran.state EXCEPT !.filters_executed["request"] = TRUE]
  IN IF MissingHeaders(s, "request") THEN Deliver(s, "request", {}, delivery)
     ELSE IF s.carried_context = Drained THEN Fail(s, "internal")
     ELSE IF Stops(ran) THEN ran
     ELSE Deliver(Dehydrate(done, s, f, TRUE), "request", HeaderMutation(TRUE, f), delivery)

\* run_response_header_filters_early. Without body messages a filter that
\* asked for the complete body cannot be served.
RunResponseHeaderFiltersEarly(s, f, delivery) ==
  LET ran == ExecuteHeaderFilters(Hydrate(s), "response", f)
      done == Dehydrate([ran.state EXCEPT !.filters_executed["response"] = TRUE], s, f, TRUE)
  IN IF MissingHeaders(s, "response")
       THEN Deliver(s, "response", {}, delivery)
     ELSE IF s.carried_context = Drained THEN Fail(s, "internal")
     ELSE IF Stops(ran) THEN ran
     ELSE IF s.mode["response"] = "none" /\ done.carried_context = "buffer"
       THEN Reply(ran.state, <<Immediate>>)
     ELSE Deliver(done, "response", HeaderMutation(TRUE, f), delivery)

-----------------------------------------------------------------------------
(* Streamed chunks.                                                         *)

\* Mutant: the parked mutation is left behind.
DeferredHeaderResponsePlain(s, side) == HeadersResponse(side, {})

\* deferred_header_response
DeferredHeaderResponse(s, side) == HeadersResponse(side, s.deferred[side])

\* take_first_chunk followed by deferred_header_response
SendDeferredHeaders(s, side) ==
  [s EXCEPT !.headers_sent[side] = TRUE,
            !.deferred[side] = IF s.headers_sent[side] THEN @ ELSE {}]

DeferredHeaders(s, side) ==
  IF s.headers_sent[side] THEN <<>> ELSE <<DeferredHeaderResponse(s, side)>>

\* passthrough_chunk
PassthroughChunk(s, m) ==
  Reply(SendDeferredHeaders(s, m.side),
        DeferredHeaders(s, m.side)
          \o BodyResponses(m.side, m.len > 0, m.len, m.len, {}, s.mode[m.side], m.eos))

\* buffer_response_chunk: with StreamBuffer the bytes are withheld until the
\* last chunk, which then stands for the whole body.
Withheld(s, m) == m.side = "response" /\ s.carried_context = "buffer"

WithheldTotal(s, m) == s.body["response"] + m.len

BufferResponseChunk(s, m) ==
  IF Withheld(s, m)
    THEN [s EXCEPT !.body["response"] = IF m.eos THEN 0 ELSE WithheldTotal(s, m)]
    ELSE s

\* Mutant: the filters see, and Envoy gets, every chunk as it comes.
ChunkLenAtOnce(s, m) == m.len

ChunkLen(s, m) ==
  IF ~Withheld(s, m) THEN m.len ELSE IF m.eos THEN WithheldTotal(s, m) ELSE 0

\* process_streamed_body_chunk. An emptied chunk is replaced by nothing, never
\* left for Envoy to forward; header mutations of body filters are dropped.
ProcessStreamedBodyChunk(c, s, f, m) ==
  LET chunk == ChunkLen(s, m)
      len == BodyFilterLen(c, m.side, f, chunk, m.eos)
      ran == RunBodyFilters(c, Hydrate(BufferResponseChunk(s, m)), m.side, f, chunk, m.eos)
  IN IF MissingHeaders(s, m.side) THEN Fail(s, "invalid_argument")
     ELSE IF s.carried_context = Drained THEN Fail(s, "internal")
     ELSE IF /\ Withheld(s, m)
             /\ WithheldTotal(s, m) > StreamBufferLimit \/ WithheldTotal(s, m) > Limit
       THEN Fail(Hydrate(s), "resource_exhausted")
     ELSE IF Stops(ran) THEN ran
     ELSE Reply(Dehydrate(ran.state, s, f, FALSE),
                BodyResponses(m.side, len > 0 \/ m.len > 0, len, m.len, {},
                              s.mode[m.side], m.eos))

\* Mutant: the context is not put back after the end-of-stream call.
FlushStreamedBodyFiltersDrains(c, s, f, side) ==
  LET ran == RunBodyFilters(c, Hydrate(s), side, f, 0, TRUE)
  IN IF side = "response" /\ s.body["response"] > 0 THEN Reply(s, <<Immediate>>)
     ELSE IF MissingHeaders(s, side) THEN Fail(s, "invalid_argument")
     ELSE IF s.carried_context = Drained THEN Fail(s, "internal")
     ELSE ran

\* flush_streamed_body_filters with run_trailing_body: trailers closed a
\* STREAMED body, so its filters get their end-of-stream call now. Bytes they
\* produce have no message to ride on.
FlushStreamedBodyFilters(c, s, f, side) ==
  LET ran == RunBodyFilters(c, Hydrate(s), side, f, 0, TRUE)
  IN IF side = "response" /\ s.body["response"] > 0 THEN Reply(s, <<Immediate>>)
     ELSE IF MissingHeaders(s, side) THEN Fail(s, "invalid_argument")
     ELSE IF s.carried_context = Drained THEN Fail(s, "internal")
     ELSE IF ran.err # "none" THEN ran
     ELSE Reply(Dehydrate(ran.state, s, f, FALSE), ran.out)
=============================================================================
