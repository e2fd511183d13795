------------------------------- MODULE Protocol -------------------------------
(***************************************************************************)
(* Sequencing rules of an ExtProc stream (src/src/protocol.rs): the order   *)
(* of the phases within each direction, the end-of-stream state of each     *)
(* phase, and the body messages a mode admits.                              *)
(*                                                                          *)
(* An inbound message is a record                                           *)
(*   side   "request" or "response"                                         *)
(*   step   Headers, Body or Trailers                                       *)
(*   eos    its end_of_stream flag                                          *)
(*   len    the number of body bytes it carries                             *)
(*   guard  what its headers say about guardrail selection                  *)
(* so message_order is the pair of its first two fields.                    *)
(***************************************************************************)
EXTENDS Naturals

Sides == {"request", "response"}

\* PhaseStep, with its derived order; Unseen is a tracker's None.
Unseen == 0
Headers == 1
Body == 2
Trailers == 3
Steps == {Headers, Body, Trailers}

\* The supported body modes (BufferedPartial is refused by the parser).
BodyModes == {"none", "streamed", "buffered", "fds"}

-----------------------------------------------------------------------------
(* PhaseOrderTracker: s.order[side] is the furthest step seen.              *)

InvalidTransition(previous, step) ==
  IF previous = Unseen
    THEN step # Headers
    ELSE step < previous \/ (step = previous /\ step # Body)

\* check_and_advance returns an error exactly when this holds.
OutOfOrder(s, m) ==
  \/ m.side = "request" /\ s.local_reply
  \/ InvalidTransition(s.order[m.side], m.step)

\* ... and otherwise moves the tracker here. A stream whose first message is
\* a response message carries a local reply of an earlier filter.
Advance(s, m) ==
  [s EXCEPT !.order[m.side] = m.step,
            !.local_reply = @ \/ (m.side = "response" /\ s.order["request"] = Unseen)]

\* validate_body_message: a body message in NONE mode is malformed.
BodyNotExpected(s, m) == m.step = Body /\ s.mode[m.side] = "none"

-----------------------------------------------------------------------------
(* EosTracker: s.eos[side].headers and s.eos[side].body are PhaseStates,    *)
(* TRUE for Completed.                                                      *)

\* check_and_mark finds the phase already completed: a re-delivery.
HeadersRedelivered(s, m) == s.eos[m.side].headers
BodyRedelivered(s, m) == s.eos[m.side].body

\* check_and_mark refuses a body message after headers that ended the stream.
BodyAfterHeadersEos(s, m) == ~s.eos[m.side].body /\ s.eos[m.side].headers

\* Mutant: the end of a body is not recorded.
MarkBodyNever(s, m) == s

\* check_and_mark records the end of stream of an active phase.
HeadersEnd(e, eos) == [e EXCEPT !.headers = @ \/ eos]
BodyEnds(e, eos) == [e EXCEPT !.body = @ \/ eos]

MarkHeaders(s, m) == [s EXCEPT !.eos[m.side] = HeadersEnd(@, m.eos)]
MarkBody(s, m) == [s EXCEPT !.eos[m.side] = BodyEnds(@, m.eos)]

\* mark_complete for a body phase that trailers close.
CloseBody(s, side) == [s EXCEPT !.eos[side] = BodyEnds(@, TRUE)]
=============================================================================
