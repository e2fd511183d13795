----------------------------- MODULE EnvoyProofs ------------------------------
(***************************************************************************)
(* A stream and the Envoy that opened it: no message of a conforming Envoy  *)
(* is refused, and each kind of body filter gets the calls that are due,    *)
(* for every chain, configuration, body length, limit and number of chunks. *)
(***************************************************************************)
EXTENDS ExchangeProofs, EnvoyStream

-----------------------------------------------------------------------------
(* What a message marks.                                                    *)

\* No end of stream was recorded, and no BUFFERED request body was processed.
Unmarked(s, t) ==
  /\ t.eos = s.eos
  /\ t.buffered_request_body_processed = s.buffered_request_body_processed

\* Nothing that runs filters records either: not the request pipeline,
LEMMA RequestPipelineUnmarked ==
  ASSUME NEW c \in ChainType, NEW s \in LiveState, NEW f \in Outcomes, NEW phase \in Steps,
         NEW eos \in BOOLEAN, NEW ordinary \in BOOLEAN, s.headers["request"]
  PROVE  Unmarked(s, RunRequestPipelineInner(c, s, f, phase, eos, ordinary).state)
<1> DEFINE r == RunRequestPipelineInner(c, s, f, phase, eos, ordinary)
<1>1. RequestEffect(c, s, r, f, phase, eos, ordinary)
  BY RequestPipelineCounted
<1> HIDE DEF r
<1>2. Unmarked(s, r.state)
  BY <1>1 DEF RequestEffect, Outer, Unmarked
<1> QED
  BY <1>2 DEF r

\* nor the response pipeline,
LEMMA ResponsePipelineUnmarked ==
  ASSUME NEW c \in ChainType, NEW s \in LiveState, NEW f \in Outcomes, NEW phase \in Steps,
         NEW eos \in BOOLEAN, ~MissingHeaders(s, "response")
  PROVE  Unmarked(s, RunResponsePipeline(c, s, f, phase, eos).state)
<1> DEFINE r == RunResponsePipeline(c, s, f, phase, eos)
<1>1. ResponseEffect(c, s, r, f, phase, eos)
  BY ResponsePipelineCounted
<1> HIDE DEF r
<1>2. Unmarked(s, r.state)
  BY <1>1 DEF ResponseEffect, Outer, Unmarked
<1> QED
  BY <1>2 DEF r

\* nor the early header filters,
LEMMA EarlyUnmarked ==
  ASSUME NEW s \in LiveState, NEW side \in Sides, NEW f \in Outcomes,
         NEW delivery \in {"send", "ack", "silent"}, ~MissingHeaders(s, side)
  PROVE  /\ side = "request" =>
              Unmarked(s, RunRequestHeaderFiltersEarly(s, f, delivery).state)
         /\ side = "response" =>
              Unmarked(s, RunResponseHeaderFiltersEarly(s, f, delivery).state)
<1> DEFINE q == RunRequestHeaderFiltersEarly(s, f, delivery)
           p == RunResponseHeaderFiltersEarly(s, f, delivery)
<1>1. /\ side = "request" => EarlyEffect(s, q, side, f, delivery)
      /\ side = "response" => EarlyEffect(s, p, side, f, delivery)
  BY EarlyCounted
<1> HIDE DEF q, p
<1>2. /\ side = "request" => Unmarked(s, q.state)
      /\ side = "response" => Unmarked(s, p.state)
  BY <1>1 DEF EarlyEffect, Outer, Unmarked
<1> QED
  BY <1>2 DEF q, p

\* nor what is done with one chunk.
LEMMA ChunkUnmarked ==
  ASSUME NEW c \in ChainType, NEW s \in LiveState, NEW f \in Outcomes, NEW m \in MessageType
  PROVE  /\ ~MissingHeaders(s, m.side) =>
              Unmarked(s, ProcessStreamedBodyChunk(c, s, f, m).state)
         /\ Unmarked(s, PassthroughChunk(s, m).state)
<1>1. s \in StateType /\ m.side \in Sides
  BY DEF LiveState, MessageType
<1>2. Unmarked(s, SendDeferredHeaders(s, m.side))
  BY <1>1 DEF Unmarked, SendDeferredHeaders, StateType
<1>3. PassthroughChunk(s, m).state = SendDeferredHeaders(s, m.side)
  BY DEF PassthroughChunk, Reply
<1>4. ASSUME ~MissingHeaders(s, m.side)
      PROVE  Unmarked(s, ProcessStreamedBodyChunk(c, s, f, m).state)
  <2> DEFINE r == ProcessStreamedBodyChunk(c, s, f, m)
  <2>1. StreamedEffect(c, s, r, m.side, m.eos)
    BY <1>4, StreamedChunkCounted
  <2> HIDE DEF r
  <2>2. Unmarked(s, r.state)
    BY <2>1 DEF StreamedEffect, Outer, Unmarked
  <2> QED
    BY <2>2 DEF r
<1> QED
  BY <1>2, <1>3, <1>4

\* The marks of headers, and of a body message.
HeadersMarked(s, t, m) ==
  /\ t.eos[m.side].headers <=> m.eos
  /\ ~t.eos[m.side].body
  /\ t.buffered_request_body_processed = s.buffered_request_body_processed

BodyMarked(s, t, m) ==
  /\ t.eos[m.side].headers <=> s.eos[m.side].headers
  /\ t.eos[m.side].body <=> s.eos[m.side].body \/ m.eos

\* What is run on marked headers leaves the marks.
LEMMA HeadersMarkedBy ==
  ASSUME NEW s, NEW t, NEW u, NEW m, Unended(s, m.side), Started(s, u, m.side, m.eos),
         Unmarked(u, t)
  PROVE  HeadersMarked(s, t, m)
BY DEF Unended, Started, Unmarked, HeadersMarked

\* handle_request_headers.
LEMMA RequestHeadersMarked ==
  ASSUME NEW c \in ChainType, NEW s \in LiveState, NEW f \in Outcomes, NEW m \in MessageType,
         m.side = "request", m.step = Headers, Unended(s, "request")
  PROVE  HeadersMarked(s, HandleRequestHeaders(c, s, f, m).state, m)
<1> DEFINE side == "request"
           marked == MarkHeaders(s, m)
           parsed == [marked EXCEPT !.headers["request"] = TRUE]
           sent == [parsed EXCEPT !.headers_sent["request"] = TRUE]
           mode == s.mode["request"]
           handled == IF m.eos THEN HandleEndStreamRequestHeaders(c, parsed, f)
                      ELSE HandleRequestHeadersWithBody(c, parsed, f)
           r == HandleRequestHeaders(c, s, f, m)
           Ok(x) == HeadersMarked(s, x, m)
<1>1. side \in Sides /\ Headers \in Steps /\ Body \in Steps /\ m.eos \in BOOLEAN
  BY DEF Sides, Steps, MessageType
<1>2. /\ marked \in LiveState /\ parsed \in LiveState /\ sent \in LiveState
      /\ Started(s, marked, side, m.eos)
      /\ Started(s, parsed, side, m.eos)
      /\ Started(s, sent, side, m.eos)
      /\ parsed.headers[side] /\ sent.headers[side]
  BY HeadersStarted
<1> HIDE DEF marked
<1>3. ~HeadersRedelivered(s, m)
  BY DEF HeadersRedelivered, Unended
<1>4. \/ r \in {Reply(marked, <<Immediate>>), Reply(parsed, <<Immediate>>)}
      \/ r = ApplyResponseModeOverride(c, handled, m)
  BY <1>3 DEF HandleRequestHeaders, marked
<1> HIDE DEF r, parsed
<1>5. ~MissingHeaders(parsed, side) /\ ~MissingHeaders(sent, side)
  BY <1>2 DEF MissingHeaders
<1>6. \A x : Unmarked(x, x)
  BY DEF Unmarked
<1> HIDE DEF sent, Ok
<1>7. \A t : \/ Unmarked(marked, t) \/ Unmarked(parsed, t) \/ Unmarked(sent, t) => Ok(t)
  BY <1>2, HeadersMarkedBy DEF Ok
<1>8. handled \in ResultType /\ Ok(handled.state)
  <2>1. CASE m.eos
    <3>1. ASSUME NEW phase \in Steps, NEW eos \in BOOLEAN, NEW ordinary \in BOOLEAN
          PROVE  LET x == RunRequestPipelineInner(c, parsed, f, phase, eos, ordinary)
                 IN x \in ResultType /\ Ok(x.state)
      <4> DEFINE x == RunRequestPipelineInner(c, parsed, f, phase, eos, ordinary)
      <4>1. x \in ResultType
        BY <1>2, RequestPipelineGood DEF LiveState, Good
      <4>2. Unmarked(parsed, x.state)
        BY <1>2, RequestPipelineUnmarked
      <4> HIDE DEF x
      <4>3. x \in ResultType /\ Ok(x.state)
        BY <1>7, <4>1, <4>2
      <4> QED
        BY <4>3 DEF x
    <3> DEFINE yes == TRUE
               no == FALSE
               p == RunRequestPipelineInner(c, parsed, f, Headers, yes, yes)
               q == RunRequestPipelineInner(c, parsed, f, Body, yes, no)
    <3>2. yes \in BOOLEAN /\ no \in BOOLEAN
      OBVIOUS
    <3>3. handled = p \/ handled = q
      BY <2>1 DEF HandleEndStreamRequestHeaders, RunRequestPipeline,
                  RunBodylessSelectedUpstreamPipeline
    <3> HIDE DEF yes, no, handled
    <3>4. p \in ResultType /\ Ok(p.state) /\ q \in ResultType /\ Ok(q.state)
      BY <1>1, <3>1, <3>2
    <3> HIDE DEF p, q
    <3> QED
      BY <3>3, <3>4
  <2>2. CASE ~m.eos
    <3> DEFINE open == RunRequestHeaderFiltersEarly(sent, f, "send")
               silent == RunRequestHeaderFiltersEarly(parsed, f, "silent")
               refused == Reply(silent.state, <<Immediate>>)
               ack == Reply(sent, <<HeadersResponse("request", {})>>)
               quiet == Reply(parsed, <<>>)
    <3>1. handled \in {open, silent, refused, ack, quiet}
      BY <2>2 DEF HandleRequestHeadersWithBody, HandleUnsupportedSelected, sent
    <3>2. open \in ResultType /\ silent \in ResultType
      BY <1>2, EarlyGood DEF LiveState, Good
    <3>3. Unmarked(sent, open.state) /\ Unmarked(parsed, silent.state)
      BY <1>1, <1>2, <1>5, EarlyUnmarked
    <3>4. /\ ack.state = sent /\ quiet.state = parsed /\ refused.state = silent.state
          /\ ack \in ResultType /\ quiet \in ResultType
      <4>1. {} \in Mutations
        BY DEF Mutations
      <4>2. <<HeadersResponse("request", {})>> \in Seq(ResponseType)
        BY <1>1, <4>1, HeadersOut
      <4> QED
        BY <1>2, <4>2 DEF Reply, ResultType, Errors, LiveState
    <3>5. refused \in ResultType
      BY <3>2, ImmediateGood DEF Good, ResultType
    <3> HIDE DEF open, silent, refused, ack, quiet, handled
    <3> QED
      BY <1>6, <1>7, <3>1, <3>2, <3>3, <3>4, <3>5
  <2> QED
    BY <2>1, <2>2
<1> HIDE DEF handled
<1>9. Ok(ApplyResponseModeOverride(c, handled, m).state)
  <2> DEFINE t == [handled.state EXCEPT !.mode["response"] = "streamed"]
             o == [i \in DOMAIN handled.out |-> WithOverride(handled.out[i])]
             x == ApplyResponseModeOverride(c, handled, m)
  <2>1. x = handled \/ x = Reply(t, o)
    BY DEF ApplyResponseModeOverride
  <2>2. Unmarked(handled.state, t)
    BY <1>8 DEF Unmarked, ResultType, StateType
  <2>3. Ok(t)
    BY <1>8, <2>2 DEF Ok, HeadersMarked, Unmarked
  <2>4. Reply(t, o).state = t
    BY DEF Reply
  <2> HIDE DEF x, t, o
  <2>5. Ok(x.state)
    BY <1>8, <2>1, <2>3, <2>4
  <2> QED
    BY <2>5 DEF x
<1>10. Ok(Reply(marked, <<Immediate>>).state) /\ Ok(Reply(parsed, <<Immediate>>).state)
  BY <1>6, <1>7 DEF Reply
<1>11. Ok(r.state)
  BY <1>4, <1>9, <1>10
<1> QED
  BY <1>11 DEF Ok, r

\* handle_response_headers.
LEMMA ResponseHeadersMarked ==
  ASSUME NEW c \in ChainType, NEW s \in LiveState, NEW f \in Outcomes, NEW m \in MessageType,
         m.side = "response", m.step = Headers, Unended(s, "response"), s.headers["request"]
  PROVE  HeadersMarked(s, HandleResponseHeaders(c, s, f, m).state, m)
<1> DEFINE side == "response"
           marked == MarkHeaders(s, m)
           parsed == [marked EXCEPT !.headers["response"] = TRUE]
           sent == [parsed EXCEPT !.headers_sent["response"] = TRUE]
           yes == TRUE
           r == HandleResponseHeaders(c, s, f, m)
           piped == RunResponsePipeline(c, parsed, f, Headers, yes)
           early == RunResponseHeaderFiltersEarly(sent, f, "send")
           acked == RunResponseHeaderFiltersEarly(parsed, f, "ack")
           silent == RunResponseHeaderFiltersEarly(parsed, f, "silent")
           quiet == Reply(parsed, <<>>)
           ack == Reply(parsed, <<HeadersResponse("response", {})>>)
           Ok(x) == HeadersMarked(s, x, m)
<1>1. side \in Sides /\ Headers \in Steps /\ yes \in BOOLEAN /\ "request" \in Sides \ {side}
  BY DEF Sides, Steps
<1>2. /\ marked \in LiveState /\ parsed \in LiveState /\ sent \in LiveState
      /\ Started(s, parsed, side, m.eos)
      /\ Started(s, sent, side, m.eos)
      /\ parsed.headers[side] /\ sent.headers[side]
  BY HeadersStarted
<1> HIDE DEF marked
<1>3. ~HeadersRedelivered(s, m)
  BY DEF HeadersRedelivered, Unended
<1>4. r \in {piped, early, acked, silent, quiet, ack}
  BY <1>3 DEF HandleResponseHeaders, marked
<1> HIDE DEF r, parsed, sent, yes, Ok
<1>5. ~MissingHeaders(parsed, side) /\ ~MissingHeaders(sent, side)
  BY <1>1, <1>2 DEF MissingHeaders, Started
<1>6. \A x : Unmarked(x, x)
  BY DEF Unmarked
<1>7. \A t : \/ Unmarked(parsed, t) \/ Unmarked(sent, t) => Ok(t)
  BY <1>2, HeadersMarkedBy DEF Ok
<1>8. Unmarked(parsed, piped.state)
  BY <1>1, <1>2, <1>5, ResponsePipelineUnmarked
<1>9. /\ Unmarked(sent, early.state) /\ Unmarked(parsed, acked.state)
      /\ Unmarked(parsed, silent.state)
  BY <1>1, <1>2, <1>5, EarlyUnmarked
<1>10. quiet.state = parsed /\ ack.state = parsed
  BY DEF Reply
<1> HIDE DEF piped, early, acked, silent, quiet, ack
<1>11. Ok(r.state)
  BY <1>4, <1>6, <1>7, <1>8, <1>9, <1>10
<1> QED
  BY <1>11 DEF Ok, r

\* What is run on a marked body leaves the marks.
LEMMA BodyMarkedBy ==
  ASSUME NEW s, NEW t, NEW u, NEW v, NEW m, Noted(s, u, m.side),
         u.eos[m.side].body <=> s.eos[m.side].body \/ m.eos,
         v.eos = u.eos, Unmarked(v, t)
  PROVE  BodyMarked(s, t, m)
BY DEF Noted, Unmarked, BodyMarked

\* handle_request_body.
LEMMA RequestBodyMarked ==
  ASSUME NEW c \in ChainType, NEW s \in LiveState, NEW f \in Outcomes, NEW m \in MessageType,
         m.side = "request", m.step = Body, Unended(s, "request"), s.headers["request"]
  PROVE  LET r == HandleRequestBody(c, s, f, m)
         IN /\ BodyMarked(s, r.state, m)
            /\ s.mode["request"] = "buffered" /\ ~Stops(r) =>
                 r.state.buffered_request_body_processed
<1> DEFINE side == "request"
           seen == [s EXCEPT !.body_receipt["request"] = TRUE]
           marked == MarkBody(seen, m)
           mode == s.mode["request"]
           r == HandleRequestBody(c, s, f, m)
           Ok(x) == /\ BodyMarked(s, x.state, m)
                    /\ mode = "buffered" /\ ~Stops(x) => x.state.buffered_request_body_processed
<1> SUFFICES Ok(r)
  OBVIOUS
<1>1. side \in Sides /\ s \in StateType /\ m.eos \in BOOLEAN /\ m.len \in Nat /\ Body \in Steps
  BY DEF Sides, LiveState, MessageType, Steps
<1>2. \/ r = ForwardRequestChunk(c, marked, f, m) /\ mode # "buffered"
      \/ r = AccumulateRequestBody(c, marked, f, m)
  BY DEF HandleRequestBody, BodyRedelivered, BodyAfterHeadersEos, Unended
<1>3. seen \in LiveState /\ seen \in StateType /\ Noted(s, seen, side) /\ seen.eos = s.eos
  BY <1>1, LiveUpdates, CountsNoted DEF LiveState
<1> HIDE DEF seen
<1>4. /\ marked \in LiveState /\ marked \in StateType /\ Noted(s, marked, side)
      /\ marked.eos[side].body <=> s.eos[side].body \/ m.eos
  <2>1. marked \in LiveState /\ marked \in StateType
    BY <1>1, <1>3, LiveUpdates DEF LiveState
  <2>2. /\ Noted(seen, marked, side)
        /\ marked.eos[side].body <=> seen.eos[side].body \/ m.eos
    BY <1>1, <1>3, MarksNoted
  <2> QED
    BY <1>1, <1>3, <2>1, <2>2, NotedBeside
<1> HIDE DEF marked, r
<1>5. ASSUME NEW v, v.eos = marked.eos, NEW t, Unmarked(v, t) PROVE BodyMarked(s, t, m)
  BY <1>4, <1>5, BodyMarkedBy
<1>6. \A x : Unmarked(x, x)
  BY DEF Unmarked
<1>7. Ok(Reply(marked, <<Immediate>>))
  <2> DEFINE x == Reply(marked, <<Immediate>>)
  <2>1. Stops(x) /\ x.state = marked
    BY <1>4, WaysToStop
  <2> HIDE DEF x
  <2>2. Ok(x)
    BY <1>5, <1>6, <2>1
  <2> QED
    BY <2>2 DEF x
<1>8. marked.headers["request"] /\ marked.mode = s.mode
  BY <1>4 DEF Noted
<1>9. ASSUME mode # "buffered" PROVE Ok(ForwardRequestChunk(c, marked, f, m))
  <2> DEFINE n == marked.streamed_request_bytes + m.len
             counted == [marked EXCEPT !.streamed_request_bytes = n]
             x == ForwardRequestChunk(c, marked, f, m)
             p == ProcessStreamedBodyChunk(c, counted, f, m)
             q == PassthroughChunk(counted, m)
  <2>1. n \in Nat
    BY <1>1, <1>4 DEF StateType
  <2>2. x \in {Reply(marked, <<Immediate>>), p, q}
    BY DEF ForwardRequestChunk
  <2> HIDE DEF n, x
  <2>3. counted.eos = marked.eos /\ counted.headers["request"]
    BY <1>1, <1>4, <1>8, CountsNoted DEF Noted
  <2>4. counted \in StateType /\ counted \in LiveState
    BY <1>4, <2>1 DEF StateType, LiveState, Live
  <2> HIDE DEF counted
  <2>5. ~MissingHeaders(counted, side)
    BY <2>3 DEF MissingHeaders
  <2>6. Unmarked(counted, p.state) /\ Unmarked(counted, q.state)
    BY <2>4, <2>5, ChunkUnmarked
  <2> HIDE DEF p, q
  <2>7. Ok(p) /\ Ok(q)
    BY <1>5, <1>9, <2>3, <2>6
  <2> HIDE DEF Ok
  <2>8. Ok(x)
    BY <1>7, <2>2, <2>7
  <2> QED
    BY <2>8 DEF x
<1>10. Ok(AccumulateRequestBody(c, marked, f, m))
  <2> DEFINE buffered == mode = "buffered"
             n == marked.body["request"] + m.len
             added == [marked EXCEPT !.body["request"] = n]
             run == [added EXCEPT !.buffered_request_body_processed = buffered]
             yes == TRUE
             x == AccumulateRequestBody(c, marked, f, m)
             p == RunRequestPipelineInner(c, run, f, Body, m.eos, yes)
             q == Reply(added, <<>>)
  <2>1. n \in Nat /\ buffered \in BOOLEAN /\ yes \in BOOLEAN
    BY <1>1, <1>4 DEF StateType
  <2>2. \/ x = Reply(marked, <<Immediate>>) \/ x = p
        \/ x = q /\ ~buffered
    BY <1>8 DEF AccumulateRequestBody, RunRequestPipeline
  <2>3. buffered <=> mode = "buffered"
    OBVIOUS
  <2> HIDE DEF n, x, yes, buffered
  <2>4. /\ added.eos = marked.eos /\ added.headers = marked.headers
        /\ added \in StateType /\ added \in LiveState
    BY <1>1, <1>4, <2>1 DEF StateType, LiveState, Live
  <2> HIDE DEF added
  <2>5. /\ run.eos = added.eos /\ run.headers = added.headers
        /\ run.buffered_request_body_processed = buffered
        /\ run \in LiveState
    BY <2>1, <2>4 DEF StateType, LiveState, Live
  <2> HIDE DEF run
  <2>6. Unmarked(run, p.state)
    BY <1>1, <1>8, <2>1, <2>4, <2>5, RequestPipelineUnmarked
  <2>7. q.state = added
    BY DEF Reply
  <2> HIDE DEF p, q
  <2>8. Ok(p)
    <3>1. BodyMarked(s, p.state, m)
      BY <1>5, <2>4, <2>5, <2>6
    <3>2. p.state.buffered_request_body_processed = buffered
      BY <2>5, <2>6 DEF Unmarked
    <3> QED
      BY <2>3, <3>1, <3>2
  <2>9. ~buffered => Ok(q)
    BY <1>5, <1>6, <2>3, <2>4, <2>7
  <2> HIDE DEF Ok
  <2>10. Ok(x)
    BY <1>7, <2>2, <2>8, <2>9
  <2> QED
    BY <2>10 DEF x
<1> HIDE DEF Ok
<1> QED
  BY <1>2, <1>9, <1>10

\* handle_response_body.
LEMMA ResponseBodyMarked ==
  ASSUME NEW c \in ChainType, NEW s \in LiveState, NEW f \in Outcomes, NEW m \in MessageType,
         m.side = "response", m.step = Body, Unended(s, "response"),
         s.headers["request"], s.headers["response"]
  PROVE  BodyMarked(s, HandleResponseBody(c, s, f, m).state, m)
<1> DEFINE side == "response"
           seen == [s EXCEPT !.body_receipt["response"] = TRUE]
           marked == MarkBody(seen, m)
           n == marked.body["response"] + m.len
           added == [marked EXCEPT !.body["response"] = n]
           yes == TRUE
           passed == PassthroughChunk(marked, m)
           streamed == ProcessStreamedBodyChunk(c, marked, f, m)
           piped == RunResponsePipeline(c, added, f, Body, yes)
           over == Fail(marked, "resource_exhausted")
           held == Reply(added, <<>>)
           r == HandleResponseBody(c, s, f, m)
           Ok(x) == BodyMarked(s, x, m)
<1>1. /\ side \in Sides /\ s \in StateType /\ m.eos \in BOOLEAN /\ m.len \in Nat /\ Body \in Steps
      /\ yes \in BOOLEAN
  BY DEF Sides, LiveState, MessageType, Steps
<1>2. r \in {passed, streamed, piped, over, held}
  BY DEF HandleResponseBody, AccumulateResponseBody, BodyRedelivered, BodyAfterHeadersEos, Unended
<1>3. seen \in LiveState /\ seen \in StateType /\ Noted(s, seen, side) /\ seen.eos = s.eos
  BY <1>1, LiveUpdates, CountsNoted DEF LiveState
<1> HIDE DEF seen, yes
<1>4. /\ marked \in LiveState /\ marked \in StateType /\ Noted(s, marked, side)
      /\ marked.eos[side].body <=> s.eos[side].body \/ m.eos
  <2>1. marked \in LiveState /\ marked \in StateType
    BY <1>1, <1>3, LiveUpdates DEF LiveState
  <2>2. /\ Noted(seen, marked, side)
        /\ marked.eos[side].body <=> seen.eos[side].body \/ m.eos
    BY <1>1, <1>3, MarksNoted
  <2> QED
    BY <1>1, <1>3, <2>1, <2>2, NotedBeside
<1> HIDE DEF marked, r, Ok
<1>5. ASSUME NEW v, v.eos = marked.eos, NEW t, Unmarked(v, t) PROVE Ok(t)
  BY <1>4, <1>5, BodyMarkedBy DEF Ok
<1>6. \A x : Unmarked(x, x)
  BY DEF Unmarked
<1>7. n \in Nat
  BY <1>1, <1>4 DEF StateType
<1> HIDE DEF n
<1>8. /\ added.eos = marked.eos /\ added.headers = marked.headers /\ added \in LiveState
  BY <1>1, <1>4, <1>7 DEF StateType, LiveState, Live
<1>9. ~MissingHeaders(marked, side) /\ ~MissingHeaders(added, side)
  BY <1>4, <1>8 DEF MissingHeaders, Noted
<1> HIDE DEF added
<1>10. Ok(passed.state) /\ Ok(streamed.state)
  <2>1. Unmarked(marked, passed.state) /\ Unmarked(marked, streamed.state)
    BY <1>4, <1>9, ChunkUnmarked
  <2> HIDE DEF passed, streamed
  <2> QED
    BY <1>5, <2>1
<1>11. Ok(piped.state)
  <2>1. Unmarked(added, piped.state)
    BY <1>1, <1>8, <1>9, ResponsePipelineUnmarked
  <2> HIDE DEF piped
  <2> QED
    BY <1>5, <1>8, <2>1
<1>12. Ok(over.state) /\ Ok(held.state)
  <2>1. over.state = marked /\ held.state = added
    BY DEF Fail, Reply
  <2> QED
    BY <1>5, <1>6, <1>8, <2>1
<1> HIDE DEF passed, streamed, piped, over, held
<1>13. Ok(r.state)
  BY <1>2, <1>10, <1>11, <1>12
<1> QED
  BY <1>13 DEF Ok, r

\* A final chunk that is sent again marks nothing.
LEMMA RedeliveryMarked ==
  ASSUME NEW c, NEW s \in StateType, NEW f, NEW m \in MessageType, s.eos[m.side].body
  PROVE  /\ m.side = "request" => BodyMarked(s, HandleRequestBody(c, s, f, m).state, m)
         /\ m.side = "response" => BodyMarked(s, HandleResponseBody(c, s, f, m).state, m)
<1> DEFINE seen == [s EXCEPT !.body_receipt[m.side] = TRUE]
<1>1. seen.eos = s.eos
  BY DEF StateType
<1> HIDE DEF seen
<1>2. RedeliveredBody(seen, m).state = seen
  BY DEF RedeliveredBody, Reply, Fail
<1>3. BodyMarked(s, seen, m)
  BY <1>1 DEF BodyMarked
<1>4. /\ m.side = "request" => HandleRequestBody(c, s, f, m) = RedeliveredBody(seen, m)
      /\ m.side = "response" => HandleResponseBody(c, s, f, m) = RedeliveredBody(seen, m)
  BY DEF HandleRequestBody, HandleResponseBody, BodyRedelivered, seen
<1> QED
  BY <1>2, <1>3, <1>4

\* The marks of a message that its direction expects.
Marked(s, r, m) ==
  /\ m.step = Headers => HeadersMarked(s, r.state, m)
  /\ m.step = Body => BodyMarked(s, r.state, m)
  /\ m.step = Body /\ m.side = "request" /\ s.mode["request"] = "buffered" /\ ~Stops(r) =>
       r.state.buffered_request_body_processed

\* dispatch_request, of a stream that is no local reply.
LEMMA DispatchMarked ==
  ASSUME NEW c \in ChainType, NEW s \in LiveState, NEW f \in Outcomes, NEW m \in MessageType,
         Waiting(s), NEW ws, Wiring(c, s, ws), ~OutOfOrder(s, m), ~BodyNotExpected(s, m),
         ~Advance(s, m).local_reply, Expected(s, m.side)
  PROVE  Marked(Advance(s, m), DispatchRequest(c, s, f, m), m)
<1> DEFINE a == Advance(s, m)
           side == m.side
           r == DispatchRequest(c, s, f, m)
           Ok(x) == Marked(a, x, m)
<1> SUFFICES Ok(r)
  OBVIOUS
<1>1. /\ side \in Sides /\ s \in StateType /\ a \in LiveState /\ a \in StateType
      /\ m.step \in {Headers, Body, Trailers}
  BY LiveUpdates DEF MessageType, LiveState, Steps
<1>2. a.eos = s.eos /\ a.mode = s.mode /\ a.headers = s.headers /\ a.order[side] = m.step
  BY <1>1, Advanced
<1>3. ~s.local_reply /\ (side = "response" => s.order["request"] # Unseen)
  BY <1>1, AdvanceKeeps
<1>4. r = CASE m.step = Trailers -> HandleTrailers(c, a, f, m.side)
            [] m.step = Headers /\ m.side = "request" -> HandleRequestHeaders(c, a, f, m)
            [] m.step = Body /\ m.side = "request" -> HandleRequestBody(c, a, f, m)
            [] m.step = Headers /\ m.side = "response" -> HandleResponseHeaders(c, a, f, m)
            [] OTHER -> HandleResponseBody(c, a, f, m)
  BY DEF DispatchRequest
<1>5. Wired(c, s, ws[side], side)
  BY <1>1, <1>3 DEF Wiring
<1>6. m.step = Headers <=> s.order[side] = Unseen
  BY <1>1, PhaseOrder
<1>7. m.step = Headers => Unended(a, side)
  BY <1>2, <1>5, <1>6 DEF Wired, Unended
<1>8. m.step # Headers \/ side = "response" => a.headers["request"]
  <2>1. m.step # Headers \/ side = "response" => s.order["request"] # Unseen
    BY <1>1, <1>3, <1>6 DEF Sides
  <2> QED
    BY <1>2, <2>1 DEF Waiting, Opened
<1>9. m.step = Body /\ Unended(a, side) => a.headers[side]
  <2>1. s.order[side] \in {Unseen, Headers, Body, Trailers}
    BY <1>1 DEF StateType, Steps
  <2>2. m.step = Body => s.order[side] \in {Headers, Body}
    BY <1>6, <2>1 DEF OutOfOrder, InvalidTransition, Unseen, Headers, Body, Trailers
  <2> QED
    BY <1>2, <1>5, <2>2 DEF Wired, Pending, Current, Unended
<1>10. Unended(a, side) \/ (a.eos[side].body /\ a.mode[side] = "fds")
  BY <1>2 DEF Expected, Unended
<1> HIDE DEF a, r
<1>11. CASE m.step = Trailers
  BY <1>11 DEF Marked, Headers, Body, Trailers
<1>12. CASE m.step = Headers
  <2>1. m.step # Body /\ m.step # Trailers
    BY <1>12 DEF Headers, Body, Trailers
  <2>2. side = "request" => r = HandleRequestHeaders(c, a, f, m)
    BY <1>4, <1>12, <2>1
  <2>3. side = "response" => r = HandleResponseHeaders(c, a, f, m)
    BY <1>4, <1>12, <2>1
  <2>4. side = "request" => HeadersMarked(a, r.state, m)
    BY <1>1, <1>7, <1>12, <2>2, RequestHeadersMarked
  <2>5. side = "response" => HeadersMarked(a, r.state, m)
    BY <1>1, <1>7, <1>8, <1>12, <2>3, ResponseHeadersMarked
  <2> QED
    BY <1>1, <2>1, <2>4, <2>5 DEF Marked, Sides
<1>13. CASE m.step = Body
  <2>1. m.step # Headers /\ m.step # Trailers
    BY <1>13 DEF Headers, Body, Trailers
  <2>2. side = "request" => r = HandleRequestBody(c, a, f, m)
    BY <1>4, <1>13, <2>1
  <2>3. side = "response" => r = HandleResponseBody(c, a, f, m)
    BY <1>4, <1>13, <2>1
  <2>4. CASE Unended(a, side)
    <3>1. side = "request" =>
            /\ BodyMarked(a, r.state, m)
            /\ a.mode["request"] = "buffered" /\ ~Stops(r) =>
                 r.state.buffered_request_body_processed
      BY <1>1, <1>8, <1>13, <2>1, <2>2, <2>4, RequestBodyMarked
    <3>2. side = "response" => BodyMarked(a, r.state, m)
      BY <1>1, <1>8, <1>9, <1>13, <2>1, <2>3, <2>4, ResponseBodyMarked
    <3> QED
      BY <1>1, <2>1, <3>1, <3>2 DEF Marked, Sides
  <2>5. CASE ~Unended(a, side)
    <3>1. a.eos[side].body /\ a.mode[side] # "buffered"
      BY <1>10, <2>5
    <3>2. BodyMarked(a, r.state, m)
      BY <1>1, <2>2, <2>3, <3>1, RedeliveryMarked DEF Sides
    <3> QED
      BY <2>1, <3>1, <3>2 DEF Marked
  <2> QED
    BY <2>4, <2>5
<1> QED
  BY <1>1, <1>11, <1>12, <1>13

-----------------------------------------------------------------------------
(* The calls that are due.                                                  *)

\* The body of a direction is complete: it ended, or was a BUFFERED request body.
Finished(s, side) ==
  ~Pending(s, side) \/ (side = "request" /\ s.buffered_request_body_processed)

\* Body filters had their end-of-stream call, and selected-upstream filters theirs,
\* when the body was complete and not before; and a BUFFERED request body was
\* processed only if there was one. n is the number of body messages so far.
Counts(c, s, side, n) ==
  LET h == s.hooks[side]
  IN /\ ~Finished(s, side) => h.eos = 0 /\ h.selected = 0
     /\ Finished(s, side) /\ ~s.eos[side].headers /\ s.mode[side] # "none" /\ c.needs[side] =>
          h.eos = 1
     /\ Finished(s, side) /\ side = "request" /\ c.selected => h.selected = 1
     /\ side = "request" /\ s.mode[side] = "buffered" /\ Pending(s, side) /\ n = 0 =>
          ~s.buffered_request_body_processed

\* No kind of filter got its call twice.
AtMostOnce(s) == \A side \in Sides : s.hooks[side].eos <= 1 /\ s.hooks[side].selected <= 1

\* What is known of a message of a conforming Envoy: it is expected, a BUFFERED body is
\* the only one, and trailers come to an open body.
Conforms(s, m, n) ==
  /\ ~OutOfOrder(s, m)
  /\ ~BodyNotExpected(s, m)
  /\ Expected(s, m.side)
  /\ m.step = Body /\ s.mode[m.side] = "buffered" => n = 0
  /\ m.step = Trailers => Unended(s, m.side)

\* A call that becomes due is the first of its kind.
LEMMA DueOnce ==
  ASSUME NEW c, NEW s \in StateType, NEW m \in MessageType, Waiting(s), NEW ws,
         Wiring(c, s, ws), ~s.local_reply, NEW n, Conforms(s, m, n),
         m.step # Headers => Counts(c, s, m.side, n)
  PROVE  LET h == s.hooks[m.side]
         IN /\ Ends(c, Advance(s, m), m) => h.eos = 0
            /\ Selects(c, Advance(s, m), m) => h.selected = 0
            /\ m.step = Headers => h.eos = 0 /\ h.selected = 0
            /\ m.step # Headers => s.order[m.side] \in {Headers, Body}
            /\ m.step = Body /\ Unended(s, m.side) => ~Finished(s, m.side)
<1> DEFINE a == Advance(s, m)
           side == m.side
           h == s.hooks[side]
           bp == s.buffered_request_body_processed
<1>1. side \in Sides /\ m.step \in {Headers, Body, Trailers}
      /\ s.order[side] \in {Unseen, Headers, Body, Trailers}
  BY DEF MessageType, StateType, Steps
<1>2. /\ a.eos = s.eos /\ a.mode = s.mode
      /\ a.buffered_request_body_processed = bp
  BY Advanced
<1> HIDE DEF a
<1>3. ~OutOfOrder(s, m) /\ (m.step = Body /\ s.mode[side] = "buffered" => n = 0)
  BY DEF Conforms
<1>4. m.step = Headers <=> s.order[side] = Unseen
  BY <1>3, PhaseOrder
<1>5. Wired(c, s, ws[side], side) /\ (bp => s.mode["request"] = "buffered")
  BY <1>1 DEF Wiring
<1>6. m.step = Headers => h.eos = 0 /\ h.selected = 0
  BY <1>1, <1>4, <1>5 DEF Wired, Waiting, Fresh
<1>7. m.step # Headers => s.order[side] \in {Headers, Body}
  BY <1>1, <1>3, <1>4 DEF OutOfOrder, InvalidTransition, Unseen, Headers, Body, Trailers
<1>8. m.step # Headers /\ Unended(s, side) => Pending(s, side)
  BY <1>7 DEF Pending
<1>9. m.step # Headers =>
        /\ ~Finished(s, side) => h.eos = 0 /\ h.selected = 0
        /\ side = "request" /\ s.mode[side] = "buffered" /\ Pending(s, side) /\ n = 0 => ~bp
  BY DEF Counts
<1>10. m.step = Body /\ Unended(s, side) => ~Finished(s, side)
  <2>1. Body # Headers
    BY DEF Body, Headers
  <2> QED
    BY <1>3, <1>5, <1>8, <1>9, <2>1 DEF Finished
<1>11. m.step = Trailers /\ Unended(s, side) /\ ~(side = "request" /\ bp) => ~Finished(s, side)
  <2>1. Trailers # Headers
    BY DEF Trailers, Headers
  <2> QED
    BY <1>8, <2>1 DEF Finished
<1>12. Unended(a, side) <=> Unended(s, side)
  BY <1>2 DEF Unended
<1>13. Ends(c, a, m) => Unended(s, side) /\
         \/ m.step = Body
         \/ m.step = Trailers /\ ~(side = "request" /\ bp)
  BY <1>2, <1>12 DEF Ends
<1>14. Selects(c, a, m) => Unended(s, side) /\
         \/ m.step = Headers
         \/ m.step = Body
         \/ m.step = Trailers /\ ~(side = "request" /\ bp)
  BY <1>2, <1>12 DEF Selects
<1>15. Ends(c, a, m) => h.eos = 0
  BY <1>1, <1>6, <1>9, <1>10, <1>11, <1>13
<1>16. Selects(c, a, m) => h.selected = 0
  BY <1>1, <1>6, <1>9, <1>10, <1>11, <1>14
<1> QED
  BY <1>6, <1>7, <1>10, <1>15, <1>16 DEF a

\* The calls after a message of a conforming Envoy to a stream that is no local reply.
LEMMA DispatchCounts ==
  ASSUME NEW c \in ChainType, NEW s \in LiveState, NEW f \in Outcomes, NEW m \in MessageType,
         Waiting(s), NEW ws \in [Sides -> WireType], Wiring(c, s, ws),
         ~Advance(s, m).local_reply, NEW n \in Nat, Conforms(s, m, n), AtMostOnce(s),
         m.step # Headers => Counts(c, s, m.side, n),
         ModesKept(s, DispatchRequest(c, s, f, m).state)
  PROVE  LET r == DispatchRequest(c, s, f, m)
             t == r.state
             k == IF m.step = Body THEN n + 1 ELSE n
         IN /\ AtMostOnce(t)
            /\ t.hooks["request"].selected >= s.hooks["request"].selected
            /\ ~Stops(r) => Counts(c, t, m.side, k)
            /\ ~Stops(r) /\ c.selected /\ m.side = "request" /\ m.step # Headers =>
                 t.hooks["request"].selected = 1
<1> DEFINE a == Advance(s, m)
           side == m.side
           r == DispatchRequest(c, s, f, m)
           t == r.state
           k == IF m.step = Body THEN n + 1 ELSE n
           ends == Ends(c, a, m)
           selects == Selects(c, a, m)
           h == s.hooks[side]
           g == t.hooks[side]
           bp == s.buffered_request_body_processed
<1>1. /\ side \in Sides /\ "request" \in Sides /\ s \in StateType /\ t \in StateType
      /\ m.step \in {Headers, Body, Trailers}
  BY DispatchGood DEF MessageType, LiveState, Good, ResultType, Sides, Steps
<1>2. /\ a.eos = s.eos /\ a.mode = s.mode /\ a.hooks = s.hooks /\ a.order[side] = m.step
      /\ a.buffered_request_body_processed = bp
      /\ \A o \in Sides \ {side} : a.order[o] = s.order[o]
  BY <1>1, Advanced
<1>3. ~s.local_reply
  BY <1>1, AdvanceKeeps DEF Conforms
<1>4. Handed(c, a, r, side, ws[side], ends, selects)
  BY DispatchHanded DEF Conforms
<1>5. Marked(a, r, m)
  BY DispatchMarked DEF Conforms
<1>6. /\ ends => h.eos = 0
      /\ selects => h.selected = 0
      /\ m.step = Headers => h.eos = 0 /\ h.selected = 0
      /\ m.step # Headers => s.order[side] \in {Headers, Body}
      /\ m.step = Body /\ Unended(s, side) => ~Finished(s, side)
  BY <1>1, <1>3, DueOnce
<1>7. Wired(c, s, ws[side], side)
      /\ (bp => s.mode["request"] = "buffered" /\ s.order["request"] # Unseen)
  BY <1>1, <1>3 DEF Wiring
<1> HIDE DEF a, r, t
<1>8. /\ Beside(a, t, side) /\ Tallied(h, g, ends, selects)
      /\ ~Stops(r) => (ends => g.eos = More(h.eos)) /\ (selects => g.selected = More(h.selected))
  BY <1>2, <1>4 DEF Handed, t
<1>9. /\ h.eos \in 0..1 /\ h.selected \in 0..1
      /\ \A d \in Sides : s.hooks[d].eos \in 0..1 /\ s.hooks[d].selected \in 0..1
  BY <1>1 DEF AtMostOnce, StateType, HookType
<1>10. More(0) = 1
  BY DEF More
<1>11. /\ g.eos \in 0..1 /\ g.selected \in 0..1 /\ g.selected >= h.selected
       /\ ~Stops(r) => /\ ends => g.eos = 1
                       /\ selects => g.selected = 1
       /\ ~ends => g.eos = h.eos
       /\ ~selects => g.selected = h.selected
  BY <1>6, <1>8, <1>9, <1>10 DEF Tallied
<1>12. \A d \in Sides \ {side} : t.hooks[d] = s.hooks[d]
  BY <1>2, <1>8 DEF Beside
<1>13. AtMostOnce(t)
  <2>1. ASSUME NEW d \in Sides PROVE t.hooks[d].eos <= 1 /\ t.hooks[d].selected <= 1
    <3>1. CASE d = side
      BY <1>11, <3>1
    <3>2. CASE d # side
      BY <1>9, <1>12, <3>2
    <3> QED
      BY <3>1, <3>2
  <2> QED
    BY <2>1 DEF AtMostOnce
<1>14. t.hooks["request"].selected >= s.hooks["request"].selected
  <2>1. CASE side = "request"
    BY <1>11, <2>1
  <2>2. CASE side # "request"
    BY <1>1, <1>9, <1>12, <2>2
  <2> QED
    BY <2>1, <2>2
<1> DEFINE needed == c.needs[side]
           mode == s.mode[side]
<1>15. /\ t.order[side] = m.step
       /\ m.step # Headers => t.mode[side] = mode
       /\ t.buffered_request_body_processed => bp \/ s.mode["request"] = "buffered"
  <2>1. m.step # Headers => s.order[side] # Unseen
    BY <1>6 DEF Unseen, Headers, Body
  <2> QED
    BY <1>1, <1>2, <1>8, <2>1 DEF Beside, ModesKept, t, r
<1>16. /\ ends <=> /\ Unended(s, side) /\ mode # "none" /\ needed
                   /\ \/ m.step = Body /\ (m.eos \/ (side = "request" /\ mode = "buffered"))
                      \/ m.step = Trailers /\ ~(side = "request" /\ bp)
       /\ selects <=> /\ Unended(s, side) /\ side = "request" /\ c.selected
                      /\ \/ m.step = Headers /\ m.eos
                         \/ m.step = Body /\ (m.eos \/ mode = "buffered")
                         \/ m.step = Trailers /\ mode # "none" /\ ~bp
  BY <1>2 DEF Ends, Selects, Unended
<1>17. m.step # Headers /\ Unended(s, side) /\ side = "request" /\ c.selected =>
         mode = "buffered"
  BY <1>6, <1>7 DEF Wired, Pending, Current
<1> HIDE DEF ends, selects, g, h, mode, needed, bp
<1>18. ASSUME ~Stops(r), m.step = Headers PROVE Counts(c, t, side, k)
  <2>1. /\ t.eos[side].headers <=> m.eos
        /\ ~t.eos[side].body
        /\ t.buffered_request_body_processed = bp
    BY <1>2, <1>5, <1>18 DEF Marked, HeadersMarked, t
  <2>2. s.order[side] = Unseen /\ Unended(s, side)
    <3>1. s.order[side] = Unseen
      BY <1>1, <1>18, PhaseOrder DEF Conforms
    <3> QED
      BY <1>7, <3>1 DEF Wired
  <2>3. side = "request" => ~t.buffered_request_body_processed
    BY <1>7, <2>1, <2>2
  <2>4. m.step # Body /\ m.step # Trailers
    BY <1>18 DEF Headers, Body, Trailers
  <2>5. Finished(t, side) <=> m.eos
    BY <1>15, <1>18, <2>1, <2>3 DEF Finished, Pending, Unended
  <2>6. g.eos = 0 /\ (~m.eos => g.selected = 0)
        /\ (m.eos /\ side = "request" /\ c.selected => g.selected = 1)
    BY <1>6, <1>11, <1>16, <1>18, <2>2, <2>4
  <2> QED
    BY <2>1, <2>3, <2>5, <2>6 DEF Counts, g
<1>19. ASSUME ~Stops(r), m.step = Body
       PROVE  /\ Counts(c, t, side, k)
              /\ c.selected /\ side = "request" => t.hooks["request"].selected = 1
  <2>1. m.step # Headers /\ m.step # Trailers /\ k # 0
    BY <1>19 DEF Headers, Body, Trailers
  <2>2. /\ t.eos[side].headers <=> s.eos[side].headers
        /\ t.eos[side].body <=> s.eos[side].body \/ m.eos
        /\ side = "request" /\ mode = "buffered" => t.buffered_request_body_processed
    BY <1>2, <1>5, <1>19 DEF Marked, BodyMarked, t, mode
  <2> HIDE DEF k
  <2>3. CASE Unended(s, side)
    <3>1. h.eos = 0 /\ h.selected = 0
      BY <1>6, <1>19, <2>1, <2>3 DEF Counts, h
    <3>2. Finished(t, side) <=> m.eos \/ (side = "request" /\ mode = "buffered")
      BY <1>7, <1>15, <1>19, <2>2, <2>3 DEF Finished, Pending, Unended, bp, mode
    <3>3. /\ ends <=> mode # "none" /\ needed /\ Finished(t, side)
          /\ selects <=> side = "request" /\ c.selected /\ Finished(t, side)
      BY <1>16, <1>19, <2>1, <2>3, <3>2
    <3>4. Counts(c, t, side, k)
      BY <1>11, <1>15, <1>19, <2>1, <3>1, <3>3 DEF Counts, g, needed
    <3>5. c.selected /\ side = "request" => g.selected = 1
      BY <1>11, <1>17, <1>19, <2>1, <2>3, <3>2, <3>3
    <3> QED
      BY <3>4, <3>5 DEF g
  <2>4. CASE ~Unended(s, side)
    <3>1. s.eos[side].body /\ t.eos[side].body
      BY <2>2, <2>4 DEF Conforms, Expected
    <3>2. Finished(s, side) /\ Finished(t, side) /\ ~Pending(t, side)
      BY <3>1 DEF Finished, Pending, Unended
    <3>3. g.eos = h.eos /\ g.selected = h.selected
      BY <1>11, <1>16, <2>4
    <3>4. /\ ~s.eos[side].headers /\ mode # "none" /\ needed => h.eos = 1
          /\ side = "request" /\ c.selected => h.selected = 1
      BY <2>1, <3>2 DEF Counts, h, mode, needed
    <3>5. Counts(c, t, side, k)
      BY <1>15, <2>1, <2>2, <3>2, <3>3, <3>4 DEF Counts, g, needed
    <3> QED
      BY <3>3, <3>4, <3>5 DEF g
  <2> QED
    BY <2>3, <2>4
<1>20. ASSUME ~Stops(r), m.step = Trailers
       PROVE  /\ Counts(c, t, side, k)
              /\ c.selected /\ side = "request" => t.hooks["request"].selected = 1
  <2>1. m.step # Headers /\ m.step # Body
    BY <1>20 DEF Headers, Body, Trailers
  <2>2. Unended(s, side) /\ ~s.eos[side].headers
    BY <1>20 DEF Conforms, Unended
  <2>3. Finished(t, side) /\ ~Pending(t, side)
    BY <1>15, <1>20, <2>1 DEF Finished, Pending
  <2>4. mode # "none" /\ needed => g.eos = 1
    <3>1. CASE side = "request" /\ bp
      <4>1. mode # "none" /\ needed => h.eos = 1
        BY <2>1, <2>2, <3>1 DEF Counts, Finished, h, mode, needed, bp
      <4> QED
        BY <1>11, <1>16, <2>1, <3>1, <4>1
    <3>2. CASE ~(side = "request" /\ bp)
      BY <1>11, <1>16, <1>20, <2>2, <3>2
    <3> QED
      BY <3>1, <3>2
  <2>5. side = "request" /\ c.selected => g.selected = 1
    <3>1. CASE bp
      <4>1. side = "request" /\ c.selected => h.selected = 1
        BY <2>1, <3>1 DEF Counts, Finished, h, bp
      <4> QED
        BY <1>11, <1>16, <2>1, <3>1, <4>1
    <3>2. CASE ~bp
      BY <1>11, <1>16, <1>17, <1>20, <2>1, <2>2, <3>2
    <3> QED
      BY <3>1, <3>2
  <2>6. Counts(c, t, side, k)
    BY <1>15, <2>1, <2>3, <2>4, <2>5 DEF Counts, g, needed
  <2> QED
    BY <2>5, <2>6 DEF g
<1> HIDE DEF k
<1> QED
  BY <1>1, <1>13, <1>14, <1>18, <1>19, <1>20 DEF r, t, k, side

-----------------------------------------------------------------------------
(* The stream of a conforming Envoy.                                        *)

\* Request bodies and trailers that reached the upstream.
ForwardedStages == {"body", "final", "trailers"}

\* The inductive invariant: a waiting stream has made the calls that are due and no
\* others, and none of its messages was refused.
EInv ==
  /\ chunks \in [Sides -> Nat]
  /\ status # "invalid_argument"
  /\ AtMostOnce(state)
  /\ Running /\ ~state.local_reply =>
       \A side \in Sides :
         state.order[side] # Unseen => Counts(chain, state, side, chunks[side])
  /\ chain.selected /\ wire["request"].stage \in ForwardedStages =>
       state.hooks["request"].selected = 1

\* What Envoy may send conforms, whether or not it configures the stream.
LEMMA SentConforms ==
  ASSUME StreamInv, WireInv, Running, NEW m \in MessageType, MaySend(m),
         NEW field \in AcceptedFields
  PROVE  /\ Conforms(Configured(state, field), m, chunks[m.side])
         /\ m.step # Headers => Configured(state, field) = state
         /\ m.step # Headers => state.order[m.side] # Unseen
<1> DEFINE s == Configured(state, field)
           side == m.side
           n == chunks[side]
<1>1. /\ side \in Sides /\ m.step \in {Headers, Body, Trailers}
      /\ state.order[side] \in {Unseen, Headers, Body, Trailers}
  BY DEF MessageType, StreamInv, IInv, TypeOK, StateType, Steps
<1>2. /\ s \in LiveState /\ Waiting(s) /\ s.order = state.order
      /\ first_message_processed => s = state
  BY ConfiguredWaiting
<1>3. /\ Wiring(chain, s, wire) /\ s.eos = state.eos /\ s.local_reply = state.local_reply
  BY ConfiguredWiring
<1> HIDE DEF s
<1>4. state.order[side] # Unseen => s = state
  BY <1>1, <1>2 DEF StreamInv
<1>5. s.order["request"] # Unseen => ~s.local_reply
  BY <1>2 DEF Waiting, Opened
<1>6. CASE m.step = Headers
  <2>1. state.order[side] = Unseen /\ (side = "request" => ~state.local_reply)
    BY <1>6 DEF MaySend, MaySendHeaders, Headers, Body, Trailers
  <2>2. ~OutOfOrder(s, m)
    <3>1. s.order[m.side] = Unseen /\ ~(m.side = "request" /\ s.local_reply)
      BY <1>2, <1>3, <2>1
    <3>2. ~InvalidTransition(s.order[m.side], m.step)
      BY <1>6, <3>1 DEF InvalidTransition
    <3> QED
      BY <3>1, <3>2 DEF OutOfOrder
  <2>3. ~(s.local_reply /\ side = "response")
    BY <1>2, <1>3, <2>1 DEF Wiring, LocalWired
  <2>4. Unended(s, side)
    BY <1>1, <1>2, <1>3, <2>1, <2>3 DEF Wiring, Wired
  <2>5. m.step # Body /\ m.step # Trailers
    BY <1>6 DEF Headers, Body, Trailers
  <2> QED
    BY <1>6, <2>2, <2>4, <2>5 DEF Conforms, BodyNotExpected, Expected, s
<1>7. CASE m.step = Body
  <2>1. m.step # Headers /\ m.step # Trailers
    BY <1>7 DEF Headers, Body, Trailers
  <2>2. MaySendBody(m)
    BY <1>7, <2>1 DEF MaySend
  <2>3. /\ state.mode[side] # "none"
        /\ \/ Open(side) /\ (state.mode[side] # "buffered" \/ n = 0)
           \/ state.mode[side] = "fds" /\ state.order[side] = Body /\ state.eos[side].body
    BY <2>2 DEF MaySendBody
  <2>4. state.order[side] \in {Headers, Body}
    BY <2>3 DEF Open
  <2>5. state.order[side] # Unseen /\ s = state
    BY <1>4, <2>4 DEF Unseen, Headers, Body
  <2>6. ~OutOfOrder(s, m)
    BY <1>5, <1>7, <2>4, <2>5 DEF OutOfOrder, InvalidTransition, Unseen, Headers, Body
  <2>7. Expected(s, side)
    BY <2>3, <2>5 DEF Expected, Unended, Open
  <2>8. ~BodyNotExpected(s, m) /\ (s.mode[side] = "buffered" => n = 0)
    BY <2>3, <2>5 DEF BodyNotExpected
  <2> QED
    BY <2>1, <2>5, <2>6, <2>7, <2>8 DEF Conforms, s
<1>8. CASE m.step = Trailers
  <2>1. m.step # Headers /\ m.step # Body
    BY <1>8 DEF Headers, Body, Trailers
  <2>2. Open(side)
    BY <2>1 DEF MaySend, MaySendTrailers
  <2>3. state.order[side] # Unseen /\ s = state
    BY <1>4, <2>2 DEF Open, Unseen, Headers, Body
  <2>4. ~OutOfOrder(s, m)
    BY <1>5, <1>8, <2>2, <2>3
    DEF OutOfOrder, InvalidTransition, Open, Unseen, Headers, Body, Trailers
  <2>5. Unended(s, side)
    BY <2>2, <2>3 DEF Unended, Open
  <2> QED
    BY <2>1, <2>3, <2>4, <2>5 DEF Conforms, Expected, BodyNotExpected, s
<1> QED
  BY <1>1, <1>6, <1>7, <1>8

\* No handler refuses it.
LEMMA ConformingAnswered ==
  ASSUME NEW c \in ChainType, NEW s \in LiveState, NEW f \in Outcomes, NEW m \in MessageType,
         Waiting(s), NEW ws \in [Sides -> WireType], Wiring(c, s, ws), NEW n, Conforms(s, m, n)
  PROVE  LET r == DispatchRequest(c, s, f, m)
         IN /\ Accepts(r)
            /\ Advance(s, m).local_reply =>
                 m.side = "response" /\ r.state.local_reply /\ r.state.hooks = s.hooks
<1> DEFINE a == Advance(s, m)
           r == DispatchRequest(c, s, f, m)
           side == m.side
<1>1. /\ s \in StateType /\ side \in Sides /\ a \in LiveState /\ ws["response"] \in WireType
  BY LiveUpdates DEF LiveState, MessageType, Sides
<1>2. ~OutOfOrder(s, m) /\ ~BodyNotExpected(s, m) /\ Expected(s, side)
  BY DEF Conforms
<1>3. a.eos = s.eos /\ a.mode = s.mode /\ a.hooks = s.hooks
  BY <1>1, Advanced
<1>4. Expected(a, side)
  BY <1>2, <1>3 DEF Expected, Unended
<1>5. CASE ~a.local_reply
  <2>1. Handed(c, a, r, side, ws[side], Ends(c, a, m), Selects(c, a, m))
    BY <1>2, <1>5, DispatchHanded
  <2> HIDE DEF a, r
  <2>2. Accepts(r)
    BY <1>4, <2>1 DEF Handed
  <2> QED
    BY <1>5, <2>2 DEF a, r
<1>6. CASE a.local_reply
  <2>1. side = "response" /\ LocalReady(a, m, ws["response"])
    BY <1>1, <1>2, <1>6, LocalComesIn
  <2>2. r = LocalReplyPassthrough(a, m)
    BY <1>2, <1>6 DEF DispatchRequest
  <2>3. m.step = Body => a.mode["response"] # "none"
    BY <1>2, <1>3, <2>1 DEF BodyNotExpected
  <2>4. LocalHanded(a, r, ws["response"])
    BY <1>1, <2>1, <2>2, <2>3, LocalReplyHanded
  <2> HIDE DEF a, r
  <2>5. Accepts(r) /\ r.state.local_reply /\ r.state.hooks = s.hooks
    BY <1>3, <1>4, <1>6, <2>1, <2>4 DEF LocalHanded, Beside
  <2> QED
    BY <2>1, <2>5 DEF a, r
<1> QED
  BY <1>5, <1>6

\* The calls of a direction that a message leaves alone are the ones that are due.
LEMMA OtherCounts ==
  ASSUME NEW c, NEW s, NEW t, NEW d, NEW n, Counts(c, s, d, n), t.order[d] = s.order[d],
         t.eos[d] = s.eos[d], t.hooks[d] = s.hooks[d], t.mode[d] = s.mode[d],
         d = "request" =>
           t.buffered_request_body_processed = s.buffered_request_body_processed
  PROVE  Counts(c, t, d, n)
BY DEF Counts, Finished, Pending, Unended

\* What is asked for is a body or trailers only once one of them came.
LEMMA ForwardedAsked ==
  ASSUME NEW s \in StateType, NEW side \in Sides, NEW from \in WireStages, NEW x \in WireStages,
         x \in Peer!UpTo(from, Asking(s, side)), x \in ForwardedStages
  PROVE  s.order[side] \in {Body, Trailers}
<1> DEFINE to == Asking(s, side)
<1>1. to \in WireStages /\ s.order[side] \in {Unseen, Headers, Body, Trailers}
  BY AskingType DEF StateType, Steps
<1>2. /\ s.order[side] = Unseen => to = "none"
      /\ s.order[side] = Headers => to = "headers"
  BY AskingType
<1> HIDE DEF to
<1>3. Peer!Rank[x] <= Peer!Rank[to]
  BY <1>1, UpToOrder DEF to
<1>4. to # "none" /\ to # "headers"
  BY <1>3, RankOf DEF ForwardedStages
<1> QED
  BY <1>1, <1>2, <1>4

\* One message of Envoy.
LEMMA SendEInv ==
  ASSUME StreamInv, WireInv, EInv, NEW m \in MessageType, Send(m), StreamInv', WireInv'
  PROVE  EInv'
<1>1. MaySend(m) /\ Observe(ReceiveAny(m)) /\ ReceiveAny(m)
      /\ chunks' = [chunks EXCEPT ![m.side] = IF m.step = Body THEN @ + 1 ELSE @]
  BY DEF Send, Observe
<1>2. PICK f \in Outcomes, field \in AcceptedFields :
           LET s == Configured(state, field)
               r == DispatchRequest(chain, s, f, m)
           IN /\ Running
              /\ chain \in ChainType
              /\ s \in LiveState
              /\ Waiting(s)
              /\ Dispatched(chain, s, r)
              /\ Good(r)
              /\ Finish(r)
              /\ chain' = chain
  BY <1>1, ReceiveDispatches
<1> DEFINE s == Configured(state, field)
           a == Advance(s, m)
           r == DispatchRequest(chain, s, f, m)
           side == m.side
           t == r.state
           n == chunks[side]
           k == IF m.step = Body THEN n + 1 ELSE n
<1>3. /\ Running /\ chain \in ChainType /\ s \in LiveState /\ Waiting(s) /\ Good(r) /\ Finish(r)
      /\ chain' = chain /\ ModesKept(s, t) /\ s \in StateType /\ r \in ResultType
      /\ t \in StateType /\ state \in StateType /\ state' \in StateType
  BY <1>2 DEF Dispatched, LiveState, Good, ResultType, StreamInv, IInv, TypeOK
<1>4. /\ Wiring(chain, s, wire) /\ s.order = state.order /\ s.eos = state.eos
      /\ s.local_reply = state.local_reply
  BY <1>3, ConfiguredWiring
<1>5. /\ Conforms(s, m, n) /\ (m.step # Headers => s = state)
      /\ (m.step # Headers => state.order[side] # Unseen)
  BY <1>1, <1>3, SentConforms
<1>6. /\ side \in Sides /\ "request" \in Sides /\ wire \in [Sides -> WireType]
      /\ wire' \in [Sides -> WireType] /\ chunks \in [Sides -> Nat] /\ n \in Nat /\ k \in Nat
      /\ m.step \in {Headers, Body, Trailers}
  BY DEF MessageType, WireInv, Sides, EInv, Steps
<1>7. s.hooks = state.hooks /\ (\A d \in Sides : state.order[d] # Unseen => s = state)
  <2>1. s.hooks = state.hooks /\ (first_message_processed => s = state)
    BY <1>3, ConfiguredWaiting
  <2> QED
    BY <1>3, <2>1 DEF StreamInv
<1>8. AtMostOnce(s)
  BY <1>7 DEF EInv, AtMostOnce
<1>9. Accepts(r) /\ (a.local_reply => side = "response" /\ t.local_reply /\ t.hooks = s.hooks)
  BY <1>3, <1>4, <1>5, <1>6, ConformingAnswered
<1>10. ~a.local_reply =>
         /\ AtMostOnce(t)
         /\ t.hooks["request"].selected >= s.hooks["request"].selected
         /\ ~Stops(r) => Counts(chain, t, side, k)
         /\ ~Stops(r) /\ chain.selected /\ side = "request" /\ m.step # Headers =>
              t.hooks["request"].selected = 1
  <2>1. ASSUME ~a.local_reply PROVE ~s.local_reply
    BY <1>3, <1>5, <2>1, AdvanceKeeps DEF Conforms
  <2>2. ASSUME ~a.local_reply, m.step # Headers PROVE Counts(chain, s, side, n)
    BY <1>3, <1>4, <1>5, <1>6, <2>1, <2>2 DEF EInv
  <2> QED
    BY <1>3, <1>4, <1>5, <1>6, <1>8, <2>2, DispatchCounts
<1>11. ~a.local_reply => Beside(a, t, side)
  BY <1>3, <1>4, <1>5, <1>6, DispatchHanded DEF Handed, Conforms
<1>12. /\ a.eos = s.eos /\ a.hooks = s.hooks
       /\ a.buffered_request_body_processed = s.buffered_request_body_processed
       /\ a.order[side] = m.step
       /\ \A d \in Sides \ {side} : a.order[d] = s.order[d]
  BY <1>3, Advanced
<1> HIDE DEF s, a, r, t
<1>13. /\ state'.hooks = t.hooks /\ state'.order = t.order /\ state'.eos = t.eos
       /\ state'.local_reply = t.local_reply
  BY <1>3, FinishState, ReleaseKeeps DEF t
<1>14. (chunks \in [Sides -> Nat])' /\ chunks'[side] = k
       /\ (\A d \in Sides \ {side} : chunks'[d] = chunks[d])
  BY <1>1, <1>6
<1>15. status' # "invalid_argument"
  BY <1>3, <1>9 DEF Finish, Accepts, Running
<1>16. AtMostOnce(t) /\ t.hooks["request"].selected >= s.hooks["request"].selected
  <2>1. s.hooks["request"].selected \in Nat
    <3>1. s.hooks["request"] \in HookType
      BY <1>3, <1>6 DEF StateType
    <3> QED
      BY <3>1 DEF HookType
  <2> QED
    BY <1>8, <1>9, <1>10, <2>1 DEF AtMostOnce
<1>17. AtMostOnce(state)'
  BY <1>13, <1>16 DEF AtMostOnce
<1>18. ASSUME Running', ~state'.local_reply, NEW d \in Sides, state'.order[d] # Unseen
       PROVE  Counts(chain', state', d, chunks'[d])
  <2>1. ~Stops(r) /\ state' = t
    BY <1>3, <1>18, FinishRunning DEF t
  <2>2. ~a.local_reply
    BY <1>9, <1>13, <1>18
  <2>3. CASE d = side
    BY <1>3, <1>10, <1>14, <2>1, <2>2, <2>3
  <2>4. CASE d # side
    <3>1. Beside(a, t, side)
      BY <1>11, <2>2
    <3>2. /\ t.order[d] = s.order[d] /\ t.eos[d] = s.eos[d] /\ t.hooks[d] = s.hooks[d]
          /\ d = "request" =>
               t.buffered_request_body_processed = s.buffered_request_body_processed
      BY <1>6, <1>12, <2>4, <3>1 DEF Beside, Sides
    <3>3. state.order[d] # Unseen /\ s = state
      BY <1>4, <1>7, <1>18, <2>1, <3>2
    <3>4. t.mode[d] = s.mode[d]
      BY <1>3, <3>3 DEF ModesKept
    <3>5. ~state.local_reply
      BY <1>3, <1>5, <2>2, <3>3, AdvanceKeeps DEF Conforms, a
    <3>6. Counts(chain, s, d, chunks[d])
      BY <1>3, <3>3, <3>5 DEF EInv
    <3>7. Counts(chain, t, d, chunks[d])
      BY <3>2, <3>4, <3>6, OtherCounts
    <3> QED
      BY <1>3, <1>14, <2>1, <2>4, <3>7
  <2> QED
    BY <2>3, <2>4
<1>19. (Running /\ ~state.local_reply =>
          \A d \in Sides : state.order[d] # Unseen => Counts(chain, state, d, chunks[d]))'
  BY <1>18 DEF Counts, Finished, Pending, Unended
<1>20. ASSUME chain.selected, wire'["request"].stage \in ForwardedStages
       PROVE  state'.hooks["request"].selected = 1
  <2>1. state'.hooks["request"].selected \in 0..1
        /\ state'.hooks["request"].selected >= state.hooks["request"].selected
    <3>1. state'.hooks["request"] \in HookType
      BY <1>3, <1>6 DEF StateType
    <3> QED
      BY <1>6, <1>7, <1>13, <1>16, <3>1 DEF AtMostOnce, HookType
  <2>2. CASE wire["request"].stage \in ForwardedStages
    <3>1. state.hooks["request"].selected = 1
      BY <1>20, <2>2 DEF EInv
    <3> QED
      BY <2>1, <3>1
  <2>3. CASE wire["request"].stage \notin ForwardedStages
    <3>1. Conversed(side)
      BY <1>1, ReceiveConversed
    <3>2. side = "request"
      BY <1>6, <1>20, <2>3, <3>1 DEF Conversed
    <3>3. wire'["request"].stage \in Peer!UpTo(wire["request"].stage, Asking(state', "request"))
      BY <3>1, <3>2 DEF Conversed
    <3>4. wire["request"].stage \in WireStages /\ wire'["request"].stage \in WireStages
      BY <1>6 DEF WireType
    <3>5. state'.order["request"] \in {Body, Trailers}
      BY <1>3, <1>6, <1>20, <3>3, <3>4, ForwardedAsked
    <3>6. ~a.local_reply
      BY <1>9, <3>2
    <3>7. m.step # Headers
      BY <1>11, <1>12, <1>13, <3>2, <3>5, <3>6 DEF Beside, Headers, Body, Trailers
    <3>8. ~Stops(r)
      <4>1. ASSUME Stops(r) PROVE FALSE
        <5>1. Silent(r)
          <6>1. Stops(r) => Silent(r)
            BY <1>3, <1>4, <1>5, <1>6, <3>6, DispatchHanded DEF Handed, Conforms, a, r
          <6> QED
            BY <4>1, <6>1
        <5>2. out' = <<>> \/ out' = <<Immediate>>
          <6>1. \/ out' = <<>> \/ out' = <<Immediate>>
                \/ ~Stops(r) /\ \E i \in 0..Len(r.out) : out' = SubSeq(r.out, 1, i)
            BY <1>3, <5>1, FinishSays
          <6> QED
            BY <4>1, <6>1
        <5>3. wire'["request"] = See(wire["request"], out', "request")
          BY <1>1, <1>6 DEF Observe
        <5>4. wire["request"] \in WireType
          BY <1>6
        <5>5. wire'["request"] = wire["request"]
          BY <1>6, <5>2, <5>3, <5>4, SeeSilent
        <5> QED
          BY <1>20, <2>3, <5>5
      <4> QED
        BY <4>1
    <3> QED
      BY <1>10, <1>13, <1>20, <3>2, <3>6, <3>7, <3>8
  <2> QED
    BY <2>2, <2>3
<1>21. (chain.selected /\ wire["request"].stage \in ForwardedStages =>
          state.hooks["request"].selected = 1)'
  BY <1>3, <1>20
<1> QED
  BY <1>14, <1>15, <1>17, <1>19, <1>21 DEF EInv

\* A new stream has made no calls.
LEMMA InitEInv == EInit => EInv
<1> SUFFICES ASSUME EInit PROVE EInv
  OBVIOUS
<1>1. /\ chunks = Both(0) /\ status = "running"
      /\ \A side \in Sides : /\ state.hooks[side].eos = 0 /\ state.hooks[side].selected = 0
                             /\ state.order[side] = Unseen
                             /\ wire[side].stage = "none"
  BY DEF EInit, OInit, Init, NewState, Both
<1>2. chunks \in [Sides -> Nat] /\ "request" \in Sides
  <2>1. Both(0) \in [Sides -> Nat]
    BY DEF Both
  <2> QED
    BY <1>1, <2>1 DEF Sides
<1>3. AtMostOnce(state)
  <2>1. ASSUME NEW side \in Sides
        PROVE  state.hooks[side].eos <= 1 /\ state.hooks[side].selected <= 1
    <3>1. state.hooks[side].eos = 0 /\ state.hooks[side].selected = 0
      BY <1>1, Zenon
    <3> QED
      BY <3>1
  <2> QED
    BY <2>1 DEF AtMostOnce
<1>4. \A side \in Sides : ~(state.order[side] # Unseen)
  BY <1>1
<1>5. wire["request"].stage \notin ForwardedStages
  BY <1>1, <1>2 DEF ForwardedStages
<1> QED
  BY <1>1, <1>2, <1>3, <1>4, <1>5 DEF EInv

\* A step of Envoy is one of the peers of an observed stream.
LEMMA EnvoySteps == [ENext]_evars => [ONext]_ovars
<1> SUFFICES ASSUME [ENext]_evars PROVE [ONext]_ovars
  OBVIOUS
<1>1. ASSUME NEW side \in Sides, SendHeaders(side) \/ SendBody(side) \/ SendTrailers(side)
      PROVE  ONext
  <2>1. \/ Observe(ReceiveHeaders(side))
        \/ Observe(ReceiveBody(side))
        \/ Observe(ReceiveTrailers(side))
    BY <1>1
    DEF SendHeaders, SendBody, SendTrailers, Send, Observe,
        ReceiveHeaders, ReceiveBody, ReceiveTrailers
  <2> QED
    BY <2>1 DEF ONext
<1>2. CASE Close
  BY <1>2 DEF Close, ONext
<1>3. CASE UNCHANGED evars
  BY <1>3 DEF evars
<1> QED
  BY <1>1, <1>2, <1>3 DEF ENext

\* Every step of Envoy preserves the invariant.
LEMMA NextEInv ==
  ASSUME StreamInv, WireInv, EInv, [ENext]_evars, StreamInv', WireInv'
  PROVE  EInv'
<1>1. ASSUME NEW side \in Sides, SendHeaders(side) \/ SendBody(side) \/ SendTrailers(side)
      PROVE  EInv'
  <2>1. PICK m \in MessageType : Send(m)
    BY <1>1, MessagesTyped DEF SendHeaders, SendBody, SendTrailers
  <2> QED
    BY <2>1, SendEInv
<1>2. CASE Close
  <2>1. UNCHANGED <<chain, state, chunks>> /\ out' = <<>> /\ status' = "ok"
        /\ wire' = [side \in Sides |-> See(wire[side], out', side)]
    BY <1>2 DEF Close, Observe, InboundEnds
  <2>2. wire["request"] \in WireType /\ "request" \in Sides
    BY DEF WireInv, Sides
  <2>3. wire'["request"] = wire["request"]
    BY <2>1, <2>2, SeeSilent
  <2>4. AtMostOnce(state)'
    BY <2>1 DEF EInv, AtMostOnce
  <2>5. (chain.selected /\ wire["request"].stage \in ForwardedStages =>
           state.hooks["request"].selected = 1)'
    BY <2>1, <2>3 DEF EInv
  <2> QED
    BY <2>1, <2>4, <2>5 DEF EInv, Running
<1>3. CASE UNCHANGED evars
  <2>1. UNCHANGED <<chain, state, status, wire, chunks>>
    BY <1>3 DEF evars, ovars, vars
  <2> QED
    BY <2>1 DEF EInv, AtMostOnce, Running, Counts, Finished, Pending, Unended
<1> QED
  BY <1>1, <1>2, <1>3 DEF ENext

\* A stream of Envoy is an observed stream: what is proved of any peer holds for it.
THEOREM EnvoyIsObserved == ESafe => OSpec
BY EnvoySteps, PTL DEF ESafe, EInit, OSpec

\* The calls that are due have been made whenever a stream of Envoy waits, for every
\* chain, mode, limit, body length and number of chunks.
THEOREM EnvoyInvariant == ESafe => []EInv
<1>1. EInit => EInv
  BY InitEInv
<1>2. (StreamInv /\ WireInv) /\ (StreamInv /\ WireInv)' /\ EInv /\ [ENext]_evars => EInv'
  BY NextEInv
<1>3. ESafe => [](StreamInv /\ WireInv)
  BY EnvoyIsObserved, ObservedInvariant, PTL
<1> QED
  BY <1>1, <1>2, <1>3, PTL DEF ESafe

\* The checks of check_and_advance, validate_body_message and check_and_mark refuse no
\* message of a conforming Envoy, and no handler misses headers it needs.
THEOREM ConformingNeverRefused == ESafe => []ConformingAccepted
<1>1. EInv => ConformingAccepted
  BY DEF EInv, ConformingAccepted
<1> QED
  BY <1>1, EnvoyInvariant, PTL

\* Body filters get exactly one end-of-stream call for a body that has ended, whether
\* a chunk or trailers ended it, in every mode in which Envoy sends bodies.
THEOREM BodyFiltersFinish == ESafe => []BodyFiltersFinishOnce
<1>1. EInv => BodyFiltersFinishOnce
  <2> SUFFICES ASSUME EInv, NEW side \in Sides
               PROVE  /\ state.hooks[side].eos <= 1
                      /\ Running /\ EndsWithBody(side) /\ chain.needs[side] =>
                           state.hooks[side].eos = 1
    BY DEF BodyFiltersFinishOnce
  <2>1. state.hooks[side].eos <= 1
    BY DEF EInv, AtMostOnce
  <2>2. ASSUME Running, EndsWithBody(side), chain.needs[side]
        PROVE  state.hooks[side].eos = 1
    <3>1. Counts(chain, state, side, chunks[side])
      BY <2>2 DEF EInv, EndsWithBody
    <3>2. Finished(state, side)
      BY <2>2 DEF EndsWithBody, Open, Finished, Pending, Unended
    <3> QED
      BY <2>2, <3>1, <3>2 DEF Counts, EndsWithBody
  <2> QED
    BY <2>1, <2>2
<1> QED
  BY <1>1, EnvoyInvariant, PTL

\* Selected-upstream filters see the request body exactly once before the request is
\* complete, and neither a request body nor request trailers pass before that.
THEOREM SelectedFiltersSeeBody == ESafe => []SelectedFiltersOnce
<1>1. StreamInv /\ EInv => SelectedFiltersOnce
  <2> SUFFICES ASSUME StreamInv, EInv PROVE SelectedFiltersOnce
    OBVIOUS
  <2>1. state.hooks["request"].selected <= 1
    BY DEF EInv, AtMostOnce, Sides
  <2>2. ASSUME Running, chain.selected, state.order["request"] # Unseen, ~Open("request")
        PROVE  state.hooks["request"].selected = 1
    <3>1. ~state.local_reply
      BY <2>2 DEF StreamInv, Waiting, Opened
    <3>2. Counts(chain, state, "request", chunks["request"])
      BY <2>2, <3>1 DEF EInv, Sides
    <3>3. Finished(state, "request")
      BY <2>2 DEF Open, Finished, Pending, Unended
    <3> QED
      BY <2>2, <3>2, <3>3 DEF Counts
  <2>3. chain.selected /\ wire["request"].stage \in {"body", "final", "trailers"} =>
          state.hooks["request"].selected = 1
    BY DEF EInv, ForwardedStages
  <2> QED
    BY <2>1, <2>2, <2>3 DEF SelectedFiltersOnce
<1>2. ESafe => [](StreamInv /\ WireInv)
  BY EnvoyIsObserved, ObservedInvariant, PTL
<1> QED
  BY <1>1, <1>2, EnvoyInvariant, PTL
=============================================================================
