---------------------------- MODULE ObservedStream ----------------------------
(***************************************************************************)
(* The stream of module ExtProcStream with a history variable for what its  *)
(* peer has received of each direction, and the properties that relate the  *)
(* responses of several messages to each other.                             *)
(***************************************************************************)
EXTENDS ExtProcStream, SequencesExt

VARIABLE wire

ovars == <<vars, wire>>

\* How far the responses of a direction got, whether one of them came out of
\* order, and whether what the header filters asked for has arrived.
WireStages == {"none", "headers", "body", "final", "trailers"}
WireType == [stage : WireStages, disordered : BOOLEAN, mutated : BOOLEAN]

StageOf(r) == IF r.kind = "body" /\ r.eos THEN "final" ELSE r.kind

\* Headers, then body chunks of which only the last is final, then trailers.
Follows(stage, next) ==
  CASE next = "headers" -> stage = "none"
    [] next \in {"body", "final"} -> stage \in {"headers", "body"}
    [] OTHER -> stage \in {"headers", "body", "final"}

\* What one direction has received after the responses o: those that are its own
\* are taken in their order, the first of them after stage w.stage.
See(w, o, side) ==
  LET mine == {i \in DOMAIN o : ~IsImmediate(o[i]) /\ o[i].side = side}
      StageAfter(seen) == IF seen = {} THEN w.stage ELSE StageOf(o[Max(seen)])
  IN [stage |-> StageAfter(mine),
      disordered |-> \/ w.disordered
                     \/ \E i \in mine :
                          ~Follows(StageAfter({j \in mine : j < i}), StageOf(o[i])),
      mutated |-> w.mutated \/ \E i \in mine : "filter" \in o[i].mutation]

Observe(A) == A /\ wire' = [side \in Sides |-> See(wire[side], out', side)]

OInit ==
  /\ Init
  /\ wire = [side \in Sides |-> [stage |-> "none", disordered |-> FALSE, mutated |-> FALSE]]

ONext ==
  \/ \E side \in Sides : \/ Observe(ReceiveHeaders(side))
                         \/ Observe(ReceiveBody(side))
                         \/ Observe(ReceiveTrailers(side))
  \/ Observe(ReceiveEmpty)
  \/ Observe(RefuseConfig)
  \/ Observe(InboundEnds("ok"))
  \/ Observe(InboundEnds("internal"))

OSpec == OInit /\ [][ONext]_ovars

-----------------------------------------------------------------------------
(* Properties.                                                              *)

\* A local reply in FULL_DUPLEX_STREAMED whose headers are not the end of the
\* stream parks its headers response for the first body chunk.
ParkedLocalReply == state.local_reply /\ state.mode["response"] = "fds"

\* Every phase of a local reply continues: none of its responses overtakes the
\* response to an earlier phase.
LocalReplyPhasesContinue == state.local_reply => ~wire["response"].disordered

\* What the header filters asked for reaches Envoy before the direction is
\* closed, also when it was parked for a body chunk. The exception is a BUFFERED
\* body that trailers close, whose replies rejection_only drops.
DroppedAtTrailers(side) ==
  state.mode[side] = "buffered" /\ state.order[side] = Trailers

Closed(side) ==
  state.eos[side].headers \/ state.eos[side].body \/ state.order[side] = Trailers

MutationDelivered ==
  Running =>
    \A side \in Sides :
      Closed(side) /\ state.hooks[side].mutated =>
        wire[side].mutated \/ DroppedAtTrailers(side)

\* A local reply of an earlier filter runs no filter of this chain, is never
\* answered by an immediate response, and its body is neither held nor replaced.
LocalReplyUnfiltered ==
  state.local_reply =>
    /\ \A side \in Sides : state.hooks[side].headers = 0 /\ state.hooks[side].eos = 0
    /\ state.body["response"] = 0
    /\ status # "immediate"
    /\ \A i \in DOMAIN out : out[i].content # "replace" /\ out[i].mutation = {}

\* With body filters in a direction, Envoy is never told to forward bytes it
\* holds as they are; and while a filter waits for the complete response body,
\* no byte of a STREAMED response leaves before the end of the stream.
BufferedResponse ==
  /\ Running
  /\ chain.needs["response"]
  /\ state.carried_context = "buffer"
  /\ state.mode["response"] = "streamed"
  /\ ~state.eos["response"].body

NothingForwardedUnfiltered ==
  \A i \in DOMAIN out :
    /\ out[i].kind = "body" /\ chain.needs[out[i].side] /\ ~state.local_reply =>
         out[i].content # "keep" \/ out[i].len = 0
    /\ BufferedResponse /\ out[i].side = "response" => out[i].len = 0

\* Only the answer to a chunk that ended the stream claims to end it: a body
\* that trailers close is never marked final.
FinalOnlyAtEndOfStream ==
  \A i \in DOMAIN out :
    out[i].eos => /\ state.eos[out[i].side].body
                  /\ state.order[out[i].side] = Body

\* The bytes held for a stream stay within the accumulation limit as long as the
\* body filters have not rewritten them.
WithinLimit ==
  /\ state.streamed_request_bytes <= Limit
  /\ Running => \A side \in Sides : state.hooks[side].eos = 0 => state.body[side] <= Limit

\* The mode the stream assumes for response bodies and the one Envoy uses agree:
\* after the first message it changes only together with an override on the wire,
\* and whoever receives an override is treated as STREAMED from then on.
OverrideAgrees ==
  [][Running' =>
       LET overridden == \E i \in DOMAIN out' : out'[i].override
       IN /\ first_message_processed /\ state'.mode # state.mode => overridden
          /\ overridden => state'.mode["response"] = "streamed"]_ovars

\* The body modes are negotiated before they matter: once a phase of a direction
\* has been seen, its mode never changes again, neither by a late protocol_config
\* nor by the override that answers the request headers.
ModeSettled ==
  [][\A side \in Sides :
       state.order[side] # Unseen => state'.mode[side] = state.mode[side]]_ovars

\* Refinement mapping to module Exchange.  What came out of order is no stage of
\* the exchange.  A parked local reply counts as answered as it comes; what is
\* wrong with that is the subject of LocalReplyPhasesContinue.
Asked(side) ==
  CASE state.order[side] = Unseen -> "none"
    [] state.order[side] = Headers -> "headers"
    [] state.order[side] = Body -> IF state.eos[side].body THEN "final" ELSE "body"
    [] OTHER -> "trailers"

AnsweredStage(side) ==
  IF side = "response" /\ ParkedLocalReply THEN Asked(side)
  ELSE IF wire[side].disordered THEN "disordered"
  ELSE wire[side].stage

Peer == INSTANCE Exchange WITH
  asked <- [side \in Sides |-> Asked(side)],
  answered <- [side \in Sides |-> AnsweredStage(side)],
  over <- ~Running

\* The stream, with all its modes, buffers and deferred answers, implements the
\* exchange that its peer relies on: per direction one headers response, then body
\* responses of which none follows the final one, then one trailers response, none
\* of them before it was asked for, whichever of the early, deferred, accumulated
\* and trailer-closed paths produced them.
ImplementsExchange == Peer!Spec
=============================================================================
