------------------------------- MODULE Handlers -------------------------------
(***************************************************************************)
(* The per-phase message handlers (src/src/handlers.rs), as operators from  *)
(* the chain c, the stream state s, the filter outcome f and the message m  *)
(* to a result of module Pipeline.                                          *)
(***************************************************************************)
EXTENDS Pipeline, ResponseMode

\* Mutant: the limit is applied to each message alone.
ExceedsBodyLimitPerMessage(current, incoming) == incoming > Limit

\* check_body_limit
ExceedsBodyLimit(current, incoming) == current + incoming > Limit

-----------------------------------------------------------------------------
(* Redelivery.                                                              *)

\* Mutant: a final chunk that is sent again is an error in every mode.
RedeliveredBodyRefused(s, m) == Fail(s, "invalid_argument")

\* check_and_mark followed by handle_body_redelivery: only in
\* FULL_DUPLEX_STREAMED does Envoy legally send a final chunk again.
RedeliveredBody(s, m) ==
  IF s.mode[m.side] = "fds" THEN Reply(s, <<>>) ELSE Fail(s, "invalid_argument")

-----------------------------------------------------------------------------
(* Local replies.                                                           *)

LocalReplyHeaders(s, m) ==
  LET marked == MarkHeaders(s, m)
  IN IF HeadersRedelivered(s, m) THEN Fail(s, "invalid_argument")
     ELSE IF ~m.eos /\ s.mode["response"] = "fds" THEN Reply(marked, <<>>)
     ELSE Reply([marked EXCEPT !.headers_sent["response"] = TRUE],
                <<HeadersResponse("response", {})>>)

LocalReplyBody(s, m) ==
  LET marked == MarkBody(s, m)
  IN IF BodyRedelivered(s, m) THEN RedeliveredBody(s, m)
     ELSE IF BodyAfterHeadersEos(s, m) THEN Fail(s, "invalid_argument")
     ELSE IF s.mode["response"] = "fds" THEN PassthroughChunk(marked, m)
     ELSE Reply(marked, BodyResponses("response", FALSE, 0, m.len, {},
                                      s.mode["response"], m.eos))

\* local_reply_passthrough; the phase order admits response messages only.
LocalReplyPassthrough(s, m) ==
  IF m.side = "request" THEN Fail(s, "internal")
  ELSE IF m.step = Headers THEN LocalReplyHeaders(s, m)
  ELSE IF m.step = Body THEN LocalReplyBody(s, m)
  ELSE Reply(s, <<TrailersResponse("response")>>)

-----------------------------------------------------------------------------
(* Request headers.                                                         *)

\* apply_response_mode_override: where Envoy can still honour it, a request
\* without output guardrails asks for a STREAMED response body.
OverridePossible(c, s, m) ==
  /\ s.mode["request"] # "fds"
  /\ s.mode["response"] \notin {"fds", "none"}
  /\ ~s.send_body_without_waiting
  /\ ~c.stream_buffer
  /\ ShouldStream(c.selector, m.guard)

IsRequestHeaders(r) == r.kind = "headers" /\ r.side = "request"

\* Mutant: the stream does not remember the override it sends.
ApplyResponseModeOverrideForgets(c, r, m) ==
  IF r.err = "none" /\ OverridePossible(c, r.state, m)
    THEN Reply(r.state, [i \in DOMAIN r.out |-> WithOverride(r.out[i])])
    ELSE r

ApplyResponseModeOverride(c, r, m) ==
  IF /\ r.err = "none"
     /\ OverridePossible(c, r.state, m)
     /\ \E i \in DOMAIN r.out : IsRequestHeaders(r.out[i])
    THEN Reply([r.state EXCEPT !.mode["response"] = "streamed"],
               [i \in DOMAIN r.out |-> WithOverride(r.out[i])])
    ELSE r

HandleEndStreamRequestHeaders(c, s, f) ==
  IF c.selected THEN RunBodylessSelectedUpstreamPipeline(c, s, f)
  ELSE RunRequestPipeline(c, s, f, Headers, TRUE)

\* Mutant: a mode the selected-upstream filters cannot work in is let through.
HandleUnsupportedSelectedOpen(s, f) == RunRequestHeaderFiltersEarly(s, f, "send")

\* handle_unsupported_selected_request_headers
HandleUnsupportedSelected(s, f) ==
  LET ran == RunRequestHeaderFiltersEarly(s, f, "silent")
  IN IF Stops(ran) THEN ran ELSE Reply(ran.state, <<Immediate>>)

HandleRequestHeadersWithBody(c, s, f) ==
  LET sent == [s EXCEPT !.headers_sent["request"] = TRUE]
      mode == s.mode["request"]
  IN IF mode \in {"none", "streamed"}
       THEN IF c.selected THEN HandleUnsupportedSelected(s, f)
            ELSE RunRequestHeaderFiltersEarly(sent, f, "send")
     ELSE IF mode = "buffered" THEN Reply(sent, <<HeadersResponse("request", {})>>)
     ELSE IF ~c.needs["request"] THEN RunRequestHeaderFiltersEarly(s, f, "silent")
     ELSE Reply(s, <<>>)

HandleRequestHeaders(c, s, f, m) ==
  LET marked == MarkHeaders(s, m)
      parsed == [marked EXCEPT !.headers["request"] = TRUE]
      fds == \E side \in Sides : s.mode[side] = "fds"
      handled == IF m.eos THEN HandleEndStreamRequestHeaders(c, parsed, f)
                 ELSE HandleRequestHeadersWithBody(c, parsed, f)
  IN IF HeadersRedelivered(s, m) THEN Fail(s, "invalid_argument")
     ELSE IF m.guard = "ambiguous" THEN Reply(marked, <<Immediate>>)
     ELSE IF \/ fds /\ HasSelectedGuardrail(c.selector, m.guard)
             \/ ~m.eos /\ s.mode["request"] = "fds" /\ c.selected
       THEN Reply(parsed, <<Immediate>>)
     ELSE ApplyResponseModeOverride(c, handled, m)

-----------------------------------------------------------------------------
(* Request body.                                                            *)

\* Mutant: a BUFFERED body without end_of_stream waits for more of it.
AccumulateRequestBodyWaits(c, s, f, m) ==
  LET added == [s EXCEPT !.body["request"] = @ + m.len]
  IN IF ExceedsBodyLimit(s.body["request"], m.len) THEN Reply(s, <<Immediate>>)
     ELSE IF ~m.eos THEN Reply(added, <<>>)
     ELSE RunRequestPipeline(c, added, f, Body, m.eos)

\* accumulate_request_body: a BUFFERED body is complete whatever its flag says.
AccumulateRequestBody(c, s, f, m) ==
  LET buffered == s.mode["request"] = "buffered"
      added == [s EXCEPT !.body["request"] = @ + m.len]
  IN IF ExceedsBodyLimit(s.body["request"], m.len) THEN Reply(s, <<Immediate>>)
     ELSE IF ~m.eos /\ ~buffered THEN Reply(added, <<>>)
     ELSE RunRequestPipeline(c, [added EXCEPT !.buffered_request_body_processed = buffered],
                             f, Body, m.eos)

\* The streamed paths of handle_request_body, behind
\* reject_streamed_request_over_limit.
ForwardRequestChunk(c, s, f, m) ==
  LET counted == [s EXCEPT !.streamed_request_bytes = @ + m.len]
  IN IF ExceedsBodyLimit(s.streamed_request_bytes, m.len) THEN Reply(s, <<Immediate>>)
     ELSE IF c.needs["request"] THEN ProcessStreamedBodyChunk(c, counted, f, m)
     ELSE PassthroughChunk(counted, m)

HandleRequestBody(c, s, f, m) ==
  LET seen == [s EXCEPT !.body_receipt["request"] = TRUE]
      marked == MarkBody(seen, m)
      mode == s.mode["request"]
  IN IF BodyRedelivered(s, m) THEN RedeliveredBody(seen, m)
     ELSE IF BodyAfterHeadersEos(s, m) THEN Fail(seen, "invalid_argument")
     ELSE IF mode = "streamed" \/ (mode = "fds" /\ ~c.needs["request"])
       THEN ForwardRequestChunk(c, marked, f, m)
     ELSE AccumulateRequestBody(c, marked, f, m)

-----------------------------------------------------------------------------
(* Response headers and body.                                               *)

HandleResponseHeaders(c, s, f, m) ==
  LET marked == MarkHeaders(s, m)
      parsed == [marked EXCEPT !.headers["response"] = TRUE]
      sent == [parsed EXCEPT !.headers_sent["response"] = TRUE]
      mode == s.mode["response"]
      delivery == IF mode = "fds" THEN "silent" ELSE "ack"
  IN IF HeadersRedelivered(s, m) THEN Fail(s, "invalid_argument")
     ELSE IF m.eos THEN RunResponsePipeline(c, parsed, f, Headers, TRUE)
     ELSE IF mode \in {"none", "streamed"} THEN RunResponseHeaderFiltersEarly(sent, f, "send")
     ELSE IF ~c.needs["response"] THEN RunResponseHeaderFiltersEarly(parsed, f, delivery)
     ELSE IF mode = "fds" THEN Reply(parsed, <<>>)
     ELSE Reply(parsed, <<HeadersResponse("response", {})>>)

AccumulateResponseBody(c, s, f, m) ==
  LET added == [s EXCEPT !.body["response"] = @ + m.len]
  IN IF ExceedsBodyLimit(s.body["response"], m.len) THEN Fail(s, "resource_exhausted")
     ELSE IF ~m.eos THEN Reply(added, <<>>)
     ELSE RunResponsePipeline(c, added, f, Body, TRUE)

HandleResponseBody(c, s, f, m) ==
  LET seen == [s EXCEPT !.body_receipt["response"] = TRUE]
      marked == MarkBody(seen, m)
      mode == s.mode["response"]
  IN IF BodyRedelivered(s, m) THEN RedeliveredBody(seen, m)
     ELSE IF BodyAfterHeadersEos(s, m) THEN Fail(seen, "invalid_argument")
     ELSE IF mode \in {"streamed", "fds"} /\ ~c.needs["response"] THEN PassthroughChunk(marked, m)
     ELSE IF mode = "streamed" THEN ProcessStreamedBodyChunk(c, marked, f, m)
     ELSE AccumulateResponseBody(c, marked, f, m)

-----------------------------------------------------------------------------
(* Trailers.                                                                *)

\* body_open: the headers are there and no end of stream closed the body.
BodyOpen(s, side) == s.headers[side] /\ ~s.eos[side].headers /\ ~s.eos[side].body

\* trailing_body_phase
TrailingBodyNeeded(c, side) == c.needs[side] \/ (side = "request" /\ c.selected)

\* Mutant: the body that trailers close is marked as the end of the stream.
RunTrailingBodyPipelineFinal(c, s, f, side) ==
  IF side = "request" THEN RunRequestPipeline(c, s, f, Body, TRUE)
  ELSE RunResponsePipeline(c, s, f, Body, TRUE)

\* run_trailing_body_pipeline
RunTrailingBodyPipeline(c, s, f, side) ==
  IF side = "request" THEN RunRequestPipeline(c, s, f, Body, FALSE)
  ELSE RunResponsePipeline(c, s, f, Body, FALSE)

\* run_trailing_fds_body: without any body message there is nothing to stream.
\* What the pipeline sends first is the headers response, all the rest are body
\* messages.
RunTrailingFdsBody(c, s, f, side) ==
  LET r == RunTrailingBodyPipeline(c, s, f, side)
  IN IF Stops(r) \/ s.body_receipt[side] \/ r.state.body[side] > 0 THEN r
     ELSE [r EXCEPT !.out = <<Head(@)>>]

\* run_trailing_body_pipeline followed by rejection_only: only an immediate
\* response is kept.
RunTrailingBufferedBody(c, s, f, side) ==
  LET r == RunTrailingBodyPipeline(c, s, f, side)
  IN IF Stops(r) THEN r ELSE [r EXCEPT !.out = <<>>]

\* flush_deferred_fds_headers
FlushDeferredFdsHeaders(s, side) ==
  Reply(SendDeferredHeaders(s, side), DeferredHeaders(s, side))

\* finalize_body_on_trailers
FinalizeBodyOnTrailers(c, s, f, side) ==
  LET closed == CloseBody(s, side)
      mode == s.mode[side]
      needed == TrailingBodyNeeded(c, side)
  IN IF ~BodyOpen(s, side) THEN Reply(s, <<>>)
     ELSE IF mode = "streamed" /\ needed THEN FlushStreamedBodyFilters(c, closed, f, side)
     ELSE IF mode = "fds" /\ needed THEN RunTrailingFdsBody(c, closed, f, side)
     ELSE IF mode = "fds" THEN FlushDeferredFdsHeaders(closed, side)
     ELSE IF mode = "buffered" /\ ~(side = "request" /\ s.buffered_request_body_processed)
       THEN RunTrailingBufferedBody(c, closed, f, side)
     ELSE Reply(closed, <<>>)

\* handle_trailers
HandleTrailers(c, s, f, side) ==
  LET r == FinalizeBodyOnTrailers(c, s, f, side)
  IN IF Stops(r) THEN r ELSE [r EXCEPT !.out = Append(@, TrailersResponse(side))]
=============================================================================
