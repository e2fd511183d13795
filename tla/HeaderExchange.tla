---------------------------- MODULE HeaderExchange ----------------------------
(***************************************************************************)
(* One message with headers, from Envoy to the filters and back: Envoy      *)
(* holds a header list and sends it, the adapter converts it, filters edit  *)
(* it one after the other, the edits are collected into a mutation, and     *)
(* Envoy applies the mutation to what it holds.  Or a filter replies itself *)
(* (Rejection, TerminalResponse) and Envoy sends that reply to the client.  *)
(* Which of the phases carries the answer is the subject of ExtProcStream.  *)
(***************************************************************************)
EXTENDS Adapter

CONSTANTS
  Messages,    \* what Envoy may send: pseudo-headers, fields, body length
  EditNames,   \* the names filters edit
  EditValues,  \* the values they write
  MaxEdits     \* bound on the edits of one message

ASSUME ExchangeAssumption ==
  /\ Messages \subseteq [pseudo : PseudoType, held : [Names -> Seq(Field)], len : Lengths]
  /\ EditNames \subseteq Names \ IllegalNames
  /\ EditValues \subseteq Legal
  /\ MaxEdits \in Nat

VARIABLES
  side,      \* the direction of the message
  trust,     \* trust_forwarded_for
  pseudo,    \* the pseudo-headers of the message
  held,      \* the header list Envoy holds
  stage,     \* how far the exchange got
  edits,     \* the number of edits
  request,   \* the converted request
  ctx,       \* the filter context
  original,  \* capture_original_headers
  body,      \* the length of the body, as sent and as the filters leave it
  reply,     \* what a filter replies itself
  answer,    \* the mutation, clear_route_cache and the body of a reply
  after      \* the header list of the exchange that goes on, or of the reply

vars == <<side, trust, pseudo, held, stage, edits, request, ctx, original, body,
          reply, answer, after>>

-----------------------------------------------------------------------------

NoHeaders == [n \in Names |-> <<>>]
NoRequest == [method |-> "GET", uri |-> RelativeUri("/"), headers |-> NoHeaders]
NoReply == [pairs |-> NoHeaders, headers |-> NoHeaders, body |-> Empty]
NoAnswer == [mutation |-> NoMutation, clear_route_cache |-> FALSE, body |-> Empty]

Init ==
  /\ side \in {"request", "response"}
  /\ trust \in BOOLEAN
  /\ \E m \in Messages : /\ pseudo = m.pseudo
                         /\ held = m.held
                         /\ body = [sent |-> m.len, left |-> m.len]
  /\ stage = "sent"
  /\ edits = 0
  /\ request = NoRequest
  /\ ctx = BuildFilterContext(NoHeaders, NoHeaders, FALSE)
  /\ original = NoHeaders
  /\ reply = NoReply
  /\ answer = NoAnswer
  /\ after = NoOptions

\* handle_request_headers or handle_response_headers stores the converted
\* message; the pipeline builds a context for it and, for a response, keeps a
\* copy of the headers.  A response runs in the context of its request, which
\* sent the same fields here.
Convert ==
  /\ stage = "sent"
  /\ stage' = "filters"
  /\ request' = EnvoyHeadersToRequest(pseudo, held)
  /\ original' = EnvoyHeadersToResponse(pseudo, held).headers
  /\ ctx' = BuildFilterContext(request'.headers, original', trust)
  /\ UNCHANGED <<side, trust, pseudo, held, edits, body, reply, answer, after>>

Edits ==
  /\ stage = "filters"
  /\ edits < MaxEdits
  /\ edits' = edits + 1

Edit(c) ==
  /\ Edits
  /\ ctx' = c
  /\ UNCHANGED <<side, trust, pseudo, held, stage, request, original, body, reply,
                 answer, after>>

\* Filters of a request append and remove values and rewrite the path; an
\* appended value is a string.
FilterAppends(n, v) ==
  /\ side = "request"
  /\ v \notin Opaque
  /\ Edit([ctx EXCEPT !.extra_request_headers[n] = Append(@, v)])

FilterSets(n, v) ==
  /\ side = "request"
  /\ Edit([ctx EXCEPT !.request_headers_to_set[n] = Append(@, v)])

FilterRemoves(n) ==
  /\ side = "request"
  /\ Edit([ctx EXCEPT !.request_headers_to_remove = @ \cup {n}])

FilterRewritesPath ==
  /\ side = "request"
  /\ Edit([ctx EXCEPT !.rewritten_path = "/"])

\* Filters of a response edit its header map.
FilterEditsResponse(n, values) ==
  /\ side = "response"
  /\ Edit([ctx EXCEPT !.response_header[n] = values])

\* Body filters change the length of the body.
FilterResizesBody(len) ==
  /\ Edits
  /\ body' = [body EXCEPT !.left = len]
  /\ UNCHANGED <<side, trust, pseudo, held, stage, request, ctx, original, reply,
                 answer, after>>

Collected ==
  WithContentLength(IF side = "request" THEN CollectRequestHeaderMutations(ctx)
                    ELSE CollectResponseHeaderMutationsDiff(ctx.response_header, original),
                    body.left, body.sent)

\* The answer: a mutation of nothing is sent as none.
Collect ==
  /\ stage = "filters"
  /\ stage' = "answered"
  /\ answer' = [mutation |-> Collected,
                clear_route_cache |-> side = "request" /\ MutationAffectsRouting(Collected),
                body |-> Empty]
  /\ UNCHANGED <<side, trust, pseudo, held, edits, request, ctx, original, body,
                 reply, after>>

\* immediate_from_action: the context and its edits are lost with the exchange.
FilterReplies(r) ==
  /\ stage = "filters"
  /\ stage' = "replied"
  /\ reply' = r
  /\ answer' = [mutation |-> ImmediateResponse(r), clear_route_cache |-> FALSE,
                body |-> ImmediateBody(r.body)]
  /\ ctx' = BuildFilterContext(request.headers, original, trust)
  /\ UNCHANGED <<side, trust, pseudo, held, edits, request, original, body, after>>

\* The path Envoy holds is not among its fields.
HeldValues(k) ==
  IF k \in Names THEN Map(FieldOctets, held[k])
  ELSE IF pseudo.path = None THEN <<>> ELSE <<pseudo.path>>

Apply ==
  /\ stage \in {"answered", "replied"}
  /\ stage' = IF stage = "answered" THEN "forwarded" ELSE "delivered"
  /\ after' = [k \in Keys |->
       EnvoyApplies(IF stage = "answered" THEN HeldValues(k) ELSE <<>>, answer.mutation, k)]
  /\ UNCHANGED <<side, trust, pseudo, held, edits, request, ctx, original, body,
                 reply, answer>>

\* The replies of a run: one name, with values in either part.
Values2 == {<<>>} \cup {<<v>> : v \in EditValues} \cup {<<v, w>> : v, w \in EditValues}

Replies ==
  {[pairs |-> [NoReply.pairs EXCEPT ![n] = s], headers |-> [NoReply.headers EXCEPT ![n] = t],
    body |-> v] :
     n \in EditNames, s \in {<<>>} \cup {<<w>> : w \in EditValues \ Opaque},
     t \in Values2, v \in EditValues}

Next ==
  \/ Convert
  \/ \E n \in EditNames, v \in EditValues : FilterAppends(n, v) \/ FilterSets(n, v)
  \/ \E n \in EditNames : FilterRemoves(n)
  \/ FilterRewritesPath
  \/ \E n \in EditNames, values \in Values2 : FilterEditsResponse(n, values)
  \/ \E len \in Lengths : FilterResizesBody(len)
  \/ Collect
  \/ \E r \in Replies : FilterReplies(r)
  \/ Apply

Spec == Init /\ [][Next]_vars

-----------------------------------------------------------------------------
(* Properties.                                                              *)

AnswerType ==
  [mutation : [set : [Keys -> Seq([field : Field, action : {"append", "overwrite"}])],
               remove : SUBSET Names],
   clear_route_cache : BOOLEAN,
   body : Octets]

\* Type correctness.  In particular no option ever puts bytes that are not
\* UTF-8 into the protobuf string, and every mutation keeps to fields of Names.
TypeOK ==
  /\ held \in [Names -> Seq(Field)]
  /\ stage \in {"sent", "filters", "answered", "replied", "forwarded", "delivered"}
  /\ ctx.response_header \in [Names -> Seq(Legal)]
  /\ original \in [Names -> Seq(Legal)]
  /\ answer \in AnswerType
  /\ after \in [Keys -> Seq(Octets \cup {pseudo.path})]

Forwards == stage = "forwarded"
Resized == body.left # body.sent

\* The names on which filters have the last word.
FilterNames == Names \ IF Resized THEN {ContentLength} ELSE {}

\* A response that filters have edited reaches the client as they left it: a name
\* whose values they changed carries exactly those values in their order, opaque
\* bytes included, and a name they did not change keeps what Envoy held, also the
\* values that were dropped on the way in (collect_response_header_mutations_diff).
ResponseRoundTrip ==
  Forwards /\ side = "response" =>
    \A n \in FilterNames :
      after[n] = IF ctx.response_header[n] = original[n] THEN HeldValues(n)
                 ELSE ctx.response_header[n]

\* What filters asked of a request takes effect, whatever the order in which they
\* asked: the last value set replaces everything, otherwise appended values follow
\* what is left of the original (collect_request_header_mutations).  The exception
\* is a set value that is not visible ASCII: to_str refuses it, and the header
\* replaces everything with an empty value instead.
RequestEditsTakeEffect ==
  Forwards /\ side = "request" =>
    \A n \in FilterNames :
      LET sets == ctx.request_headers_to_set[n]
          kept == IF n \in ctx.request_headers_to_remove THEN <<>> ELSE HeldValues(n)
      IN IF sets = <<>> THEN after[n] = kept \o ctx.extra_request_headers[n]
         ELSE after[n] = <<IF sets[Len(sets)] \in Ascii THEN sets[Len(sets)] ELSE Empty>>

\* The one content-length Envoy is left with is the length of the body it gets,
\* whatever filters set, appended or removed themselves (set_content_length).
LengthAgrees ==
  Forwards /\ Resized => after[ContentLength] = <<body.left>>

\* The route cache is cleared for every request whose routing headers Envoy may
\* change, and never for a body that only changed its length
\* (mutation_affects_routing).
RouteCacheCleared ==
  Forwards /\ side = "request" =>
    /\ \A k \in Keys \ {ContentLength} : after[k] # HeldValues(k) => answer.clear_route_cache
    /\ ctx = BuildFilterContext(request.headers, original, trust) => ~answer.clear_route_cache

\* Filters see every legal value that Envoy holds byte for byte, and attribute a
\* request to an address from x-forwarded-for only if that header is trusted
\* (append_header, extract_client_addr).
FiltersSeeWhatEnvoyHolds ==
  stage = "filters" =>
    /\ \A n \in Names \ IllegalNames :
         (\A i \in 1..Len(held[n]) : FieldOctets(held[n][i]) \in Legal) =>
           /\ original[n] = HeldValues(n)
           /\ held[n] # <<>> => request.headers[n] = HeldValues(n)
    /\ ~trust /\ ctx.client_addr # None =>
         \E i \in 1..Len(held[External]) : ctx.client_addr = FieldOctets(held[External][i])

\* What the tests of adapter.rs ask of a reply: headers from both the pair list
\* and the header map are emitted.
ReplyHeadersEmitted ==
  stage = "delivered" => \A n \in Names : after[n] = reply.pairs[n] \o reply.headers[n]
=============================================================================
