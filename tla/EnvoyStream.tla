----------------------------- MODULE EnvoyStream ------------------------------
(***************************************************************************)
(* An ExtProc stream and the Envoy that opened it. Envoy is external; it is *)
(* modelled from what the code under src/ says of it:                       *)
(*  - the first message carries the protocol configuration, and the request *)
(*    headers open the stream unless an earlier filter replied;             *)
(*  - except in FULL_DUPLEX_STREAMED, or when it may send the body without  *)
(*    waiting for the headers response, Envoy waits for the response to a   *)
(*    message before it sends the next one of that direction;               *)
(*  - BUFFERED sends at most one body message, also when trailers follow    *)
(*    it, and none for an empty body that trailers close;                   *)
(*  - FULL_DUPLEX_STREAMED may send a final chunk again.                    *)
(* Envoy closes the stream once both directions are complete and answered.  *)
(***************************************************************************)
EXTENDS ObservedStream

CONSTANTS
  MaxChunks,               \* bound on the body messages of a direction
  ResponseBodyTrailers,    \* may trailers follow a BUFFERED response body?
  ParkedTrailers           \* may trailers directly follow the headers of a
                           \* FULL_DUPLEX_STREAMED local reply?

ASSUME EnvoyAssumption ==
  /\ MaxChunks \in Nat
  /\ ResponseBodyTrailers \in BOOLEAN
  /\ ParkedTrailers \in BOOLEAN

VARIABLES
  owed,    \* per direction, the kinds of response Envoy still waits for
  chunks   \* per direction, the body messages sent

evars == <<ovars, owed, chunks>>

-----------------------------------------------------------------------------
(* What a conforming Envoy may send.                                        *)

KindOf(step) == CASE step = Headers -> "headers" [] step = Body -> "body" [] OTHER -> "trailers"

\* No end of stream and no trailers yet in this direction.
Open(side) ==
  /\ state.order[side] \in {Headers, Body}
  /\ ~state.eos[side].headers
  /\ ~state.eos[side].body

MayContinue(side) ==
  \/ state.mode[side] = "fds"
  \/ owed[side] = {}
  \/ owed[side] = {"headers"} /\ state.send_body_without_waiting

MaySendHeaders(m) ==
  /\ state.order[m.side] = Unseen
  /\ m.side = "request" => ~state.local_reply

MaySendBody(m) ==
  /\ state.mode[m.side] # "none"
  /\ chunks[m.side] < MaxChunks
  /\ \/ Open(m.side) /\ MayContinue(m.side) /\ state.mode[m.side] # "buffered"
     \/ Open(m.side) /\ MayContinue(m.side) /\ chunks[m.side] = 0
        /\ (~m.eos /\ m.side = "response" => ResponseBodyTrailers)
     \/ /\ state.mode[m.side] = "fds"
        /\ state.order[m.side] = Body
        /\ state.eos[m.side].body
        /\ m.eos

MaySendTrailers(m) ==
  /\ Open(m.side)
  /\ MayContinue(m.side)
  /\ ParkedLocalReply /\ chunks[m.side] = 0 => ParkedTrailers

MaySend(m) ==
  CASE m.step = Headers -> MaySendHeaders(m)
    [] m.step = Body -> MaySendBody(m)
    [] OTHER -> MaySendTrailers(m)

\* A response settles its kind. In FULL_DUPLEX_STREAMED chunks are not answered
\* one by one: the final chunk, or the trailers, settle the body.
Settle(o, r) ==
  IF IsImmediate(r) THEN o
  ELSE [o EXCEPT ![r.side] =
          IF r.kind = "trailers" THEN @ \ {"trailers", "body"}
          ELSE IF r.kind = "body" /\ r.content = "stream" /\ ~r.eos THEN @
          ELSE @ \ {r.kind}]

Redelivery(m) == m.step = Body /\ state.eos[m.side].body

Send(m) ==
  /\ MaySend(m)
  /\ Observe(ReceiveAny(m))
  /\ status' # "ok"
  /\ owed' = FoldLeft(Settle,
               [owed EXCEPT ![m.side] = @ \cup IF Redelivery(m) THEN {} ELSE {KindOf(m.step)}],
               out')
  /\ chunks' = [chunks EXCEPT ![m.side] = IF m.step = Body THEN @ + 1 ELSE @]

SendHeaders(side) == \E m \in HeadersMessages(side) : Send(m)
SendBody(side) == \E m \in BodyMessages(side) : Send(m)
SendTrailers(side) == Send(TrailersMessage(side))

\* Both directions complete, or never started in the case of the request of a
\* local reply, and nothing left to wait for.
Complete(side) ==
  /\ ~Open(side)
  /\ owed[side] = {}
  /\ state.order[side] = Unseen => side = "request" /\ state.local_reply

Close ==
  /\ \A side \in Sides : Complete(side)
  /\ Observe(InboundEnds("ok"))
  /\ UNCHANGED <<owed, chunks>>

EInit == OInit /\ owed = Both({}) /\ chunks = Both(0)

ENext ==
  \/ \E side \in Sides : SendHeaders(side) \/ SendBody(side) \/ SendTrailers(side)
  \/ Close

ESafe == EInit /\ [][ENext]_evars

\* Some step of ENext is enabled: the stream task accepts every message while it
\* runs, so this only asks what Envoy may do.
CanAct ==
  /\ Running
  /\ \/ \A side \in Sides : Complete(side)
     \/ \E side \in Sides :
          \E m \in HeadersMessages(side) \cup BodyMessages(side) \cup {TrailersMessage(side)} :
            MaySend(m)

\* Weak fairness of ENext, with its enabling condition spelled out: Envoy and the
\* stream task keep going while they can, Envoy's bodies are finite and each
\* message is handled in one pass of the loop.
Fairness == []<>~CanAct \/ []<><<ENext>>_evars

ESpec == ESafe /\ Fairness

-----------------------------------------------------------------------------
(* Properties.                                                              *)

\* Every stream of a conforming Envoy comes to an end: no response it waits for
\* is withheld for ever, in any combination of body modes, with and without
\* selected-upstream filters; chains with guardrails or StreamBuffer and the two
\* situations of the findings are not in the run.
StreamEnds == <>~Running

\* Whenever the stream waits for a message, Envoy can send one or close: it never
\* waits for a response that only a message it may not send would bring.
NeverStalled == Running => CanAct

\* The sequencing checks never refuse a message of a conforming Envoy, and no
\* handler misses headers it needs.
ConformingAccepted == status # "invalid_argument"

\* Body filters get exactly one end-of-stream call for a body that has ended,
\* whether a chunk or trailers ended it, unless Envoy sends no bodies.
EndsWithBody(side) ==
  /\ state.order[side] # Unseen
  /\ ~Open(side)
  /\ ~state.eos[side].headers
  /\ state.mode[side] # "none"
  /\ ~state.local_reply

BodyFiltersFinishOnce ==
  \A side \in Sides :
    /\ state.hooks[side].eos <= 1
    /\ Running /\ EndsWithBody(side) /\ chain.needs[side] => state.hooks[side].eos = 1

\* Selected-upstream filters see the request body exactly once before the
\* request is complete, an empty one included, and in no mode does a request body
\* or do request trailers pass before that.
SelectedFiltersOnce ==
  /\ state.hooks["request"].selected <= 1
  /\ Running /\ chain.selected /\ state.order["request"] # Unseen /\ ~Open("request") =>
       state.hooks["request"].selected = 1
  /\ chain.selected /\ wire["request"].stage \in {"body", "final", "trailers"} =>
       state.hooks["request"].selected = 1
=============================================================================
