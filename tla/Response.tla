------------------------------- MODULE Response -------------------------------
(***************************************************************************)
(* ProcessingResponse builders (src/src/response.rs). A response is a       *)
(* record                                                                   *)
(*   kind      "headers", "body", "trailers" or "immediate"                 *)
(*   side      the direction it answers                                     *)
(*   mutation  the header mutation it carries: {} for none, "filter" for    *)
(*             what header filters asked for, "length" for content-length   *)
(*   content   of a body response: "keep" lets Envoy forward the bytes it   *)
(*             holds, "replace" is BodyMutation::Body, "stream" is a        *)
(*             StreamedBodyResponse                                         *)
(*   len       the number of bytes Envoy forwards because of it             *)
(*   eos       end_of_stream of a StreamedBodyResponse                      *)
(*   override  mode_override asks for a STREAMED response body              *)
(***************************************************************************)
EXTENDS Naturals, Sequences

CONSTANT ChunkLimit   \* BODY_CHUNK_LIMIT

ASSUME ChunkLimitAssumption == ChunkLimit \in Nat \ {0}

Mutations == SUBSET {"filter", "length"}

Plain(kind, side, mutation) ==
  [kind |-> kind, side |-> side, mutation |-> mutation, content |-> "keep",
   len |-> 0, eos |-> FALSE, override |-> FALSE]

\* request_headers, response_headers
HeadersResponse(side, mutation) == Plain("headers", side, mutation)

\* request_trailers, response_trailers
TrailersResponse(side) == Plain("trailers", side, {})

\* An ImmediateResponse ends the exchange; which direction asked for it does
\* not show on the wire.
Immediate == Plain("immediate", "request", {})

IsImmediate(r) == r.kind = "immediate"
IsBody(r) == r.kind = "body"

\* set_response_mode_streamed on one response
WithOverride(r) ==
  [r EXCEPT !.override = @ \/ (r.kind = "headers" /\ r.side = "request")]

\* make_streamed_response
StreamedResponse(side, len, mutation, eos) ==
  [Plain("body", side, mutation) EXCEPT !.content = "stream", !.len = len, !.eos = eos]

\* body_responses_streamed: the body in pieces of at most ChunkLimit bytes.
\* The first piece carries the header mutation, only the last one may end the
\* stream, and an empty body is still one piece.
Pieces(len) == IF len = 0 THEN 1 ELSE (len + ChunkLimit - 1) \div ChunkLimit

\* Mutant: the last piece is taken one piece too far into the body.
PieceLenTooFar(len, i) == IF i < Pieces(len) THEN ChunkLimit ELSE len - i * ChunkLimit

PieceLen(len, i) == IF i < Pieces(len) THEN ChunkLimit ELSE len - (i - 1) * ChunkLimit

BodyResponsesStreamed(side, len, mutation, eos) ==
  [i \in 1..Pieces(len) |->
     StreamedResponse(side, PieceLen(len, i),
                      IF i = 1 THEN mutation ELSE {},
                      eos /\ i = Pieces(len))]

\* body_responses. body is Some(len) when Some is TRUE; a None body leaves the
\* original bytes, of which Envoy holds `held`, as they are. Streamed pieces
\* replace whatever Envoy held, so None means an empty piece there.
BodyResponses(side, some, len, held, mutation, mode, eos) ==
  IF mode = "fds"
    THEN BodyResponsesStreamed(side, IF some THEN len ELSE 0, mutation, eos)
    ELSE <<[Plain("body", side, mutation) EXCEPT
              !.content = IF some THEN "replace" ELSE "keep",
              !.len = IF some THEN len ELSE held]>>

\* Whether a reply ends the stream: process_messages stops after it.
HasImmediate(out) == \E i \in DOMAIN out : IsImmediate(out[i])
=============================================================================
