------------------------ MODULE ExtProcStreamProofs -------------------------
(***************************************************************************)
(* Type correctness and integrity of the carried context, for every set of  *)
(* chains, configurations and body lengths and every limit: results of      *)
(* pipelines and handlers are typed, and what lets the stream go on has put *)
(* the carried context back.                                                *)
(***************************************************************************)
EXTENDS ExtProcStream, SequenceTheorems, TLAPS

\* Results of handlers and pipelines.
Errors == {"none", "invalid_argument", "internal", "resource_exhausted"}

ResultType == [state : StateType, out : Seq(ResponseType), err : Errors]

\* A state whose carried context is in its slot.
Live(s) == s.carried_context # Drained

\* A result that is typed and, unless it ends the stream, leaves a live state.
Good(r) == r \in ResultType /\ (Stops(r) \/ Live(r.state))

-----------------------------------------------------------------------------
(* State updates.                                                           *)

\* check_and_advance leaves a typed state.
LEMMA AdvanceType ==
  ASSUME NEW s \in StateType, NEW m \in MessageType
  PROVE  Advance(s, m) \in StateType
BY DEF StateType, MessageType, Advance, Sides, Unseen, Steps

\* A PhaseState pair of the EosTracker may be replaced.
LEMMA SetEosType ==
  ASSUME NEW s \in StateType, NEW side \in Sides, NEW e \in EosType
  PROVE  [s EXCEPT !.eos[side] = e] \in StateType
BY DEF StateType

\* check_and_mark and mark_complete turn PhaseStates into PhaseStates.
LEMMA EndsType ==
  ASSUME NEW e \in EosType, NEW eos \in BOOLEAN
  PROVE  HeadersEnd(e, eos) \in EosType /\ BodyEnds(e, eos) \in EosType
BY DEF EosType, HeadersEnd, BodyEnds

\* check_and_mark leaves a typed state, for headers and for bodies.
LEMMA MarkType ==
  ASSUME NEW s \in StateType, NEW m \in MessageType
  PROVE  /\ MarkHeaders(s, m) \in StateType
         /\ MarkBody(s, m) \in StateType
<1>1. m.side \in Sides /\ m.eos \in BOOLEAN
  BY DEF MessageType
<1>2. s.eos[m.side] \in EosType
  BY <1>1 DEF StateType
<1> QED
  BY <1>1, <1>2, EndsType, SetEosType DEF MarkHeaders, MarkBody

\* mark_complete leaves a typed state.
LEMMA CloseBodyType ==
  ASSUME NEW s \in StateType, NEW side \in Sides
  PROVE  CloseBody(s, side) \in StateType
<1>1. s.eos[side] \in EosType
  BY DEF StateType
<1> QED
  BY <1>1, EndsType, SetEosType DEF CloseBody

\* Recording a filter call keeps the counters in range.
LEMMA CallType ==
  ASSUME NEW h \in HookType, NEW f \in Outcomes
  PROVE  /\ HeaderCall(h, f) \in HookType
         /\ EosCall(h) \in HookType
         /\ SelectedCall(h) \in HookType
<1>1. \A n \in 0..2 : More(n) \in 0..2
  BY DEF More
<1>2. (h.mutated \/ f.header = "mutate") \in BOOLEAN
  OBVIOUS
<1> QED
  BY <1>1, <1>2 DEF HookType, HeaderCall, EosCall, SelectedCall

\* The record of filter calls of a direction may be replaced.
LEMMA SetHooksType ==
  ASSUME NEW s \in StateType, NEW side \in Sides, NEW h \in HookType
  PROVE  [s EXCEPT !.hooks[side] = h] \in StateType
BY DEF StateType

\* Taking the carried context out leaves a typed state.
LEMMA HydrateType ==
  ASSUME NEW s \in StateType
  PROVE  Hydrate(s) \in StateType
BY DEF StateType, Hydrate

\* Putting the carried context back leaves a typed state.
LEMMA DehydrateType ==
  ASSUME NEW s \in StateType, NEW before \in StateType, NEW f \in Outcomes,
         NEW ran \in BOOLEAN
  PROVE  Dehydrate(s, before, f, ran) \in StateType
BY DEF StateType, Dehydrate

-----------------------------------------------------------------------------
(* Responses.                                                               *)

\* Every builder of response.rs starts from a typed response.
LEMMA PlainType ==
  ASSUME NEW kind \in {"headers", "body", "trailers", "immediate"},
         NEW side \in Sides, NEW mutation \in Mutations
  PROVE  Plain(kind, side, mutation) \in ResponseType
BY DEF Plain, ResponseType

\* body_responses_streamed: there is at least one piece, and the last one starts
\* inside the body, so no piece has a negative length.
LEMMA PieceLenType ==
  ASSUME NEW len \in Nat, NEW i \in 1..Pieces(len)
  PROVE  /\ Pieces(len) \in Nat \ {0}
         /\ PieceLen(len, i) \in Nat
<1> USE ChunkLimitAssumption
<1>1. CASE len = 0
  BY <1>1 DEF Pieces, PieceLen
<1>2. CASE len > 0
  <2> DEFINE n == (len + ChunkLimit - 1) \div ChunkLimit
  <2>1. /\ n \in Nat
        /\ n * ChunkLimit <= len + ChunkLimit - 1
        /\ len + ChunkLimit - 1 < n * ChunkLimit + ChunkLimit
    BY <1>2, SMTT(30)
  <2>2. n # 0
    BY <1>2, <2>1
  <2>3. Pieces(len) = n
    BY <1>2 DEF Pieces
  <2>4. CASE i < n
    BY <2>1, <2>2, <2>3, <2>4 DEF PieceLen
  <2>5. CASE i = n
    <3>1. PieceLen(len, i) = len - (n - 1) * ChunkLimit
      BY <2>3, <2>5 DEF PieceLen
    <3>2. (n - 1) * ChunkLimit = n * ChunkLimit - ChunkLimit
      BY <2>1
    <3> HIDE DEF n
    <3>3. n * ChunkLimit \in Nat
      BY <2>1
    <3> QED
      BY <3>1, <3>2, <3>3, <2>1, <2>2, <2>3
  <2> QED
    BY <2>1, <2>2, <2>3, <2>4, <2>5
<1> QED
  BY <1>1, <1>2

\* body_responses_streamed returns one or more responses.
LEMMA StreamedType ==
  ASSUME NEW side \in Sides, NEW len \in Nat, NEW mutation \in Mutations,
         NEW eos \in BOOLEAN
  PROVE  /\ BodyResponsesStreamed(side, len, mutation, eos) \in Seq(ResponseType)
         /\ Len(BodyResponsesStreamed(side, len, mutation, eos)) > 0
<1>1. \A n \in Nat, mu \in Mutations, e \in BOOLEAN :
         StreamedResponse(side, n, mu, e) \in ResponseType
  BY DEF StreamedResponse, Plain, ResponseType
<1>2. {} \in Mutations
  BY DEF Mutations
<1>3. 1 \in 1..Pieces(len)
  BY ChunkLimitAssumption DEF Pieces
<1>4. Pieces(len) \in Nat \ {0}
  BY <1>3, PieceLenType
<1>5. \A i \in 1..Pieces(len) :
        StreamedResponse(side, PieceLen(len, i), IF i = 1 THEN mutation ELSE {},
                         eos /\ i = Pieces(len)) \in ResponseType
  BY <1>1, <1>2, <1>4, PieceLenType
<1> QED
  BY <1>4, <1>5 DEF BodyResponsesStreamed

\* body_responses returns one or more responses.
LEMMA BodyResponsesType ==
  ASSUME NEW side \in Sides, NEW some \in BOOLEAN, NEW len \in Nat, NEW held \in Nat,
         NEW mutation \in Mutations, NEW mode \in BodyModes, NEW eos \in BOOLEAN
  PROVE  /\ BodyResponses(side, some, len, held, mutation, mode, eos) \in Seq(ResponseType)
         /\ Len(BodyResponses(side, some, len, held, mutation, mode, eos)) > 0
<1>1. CASE mode = "fds"
  BY <1>1, StreamedType DEF BodyResponses
<1>2. CASE mode # "fds"
  <2>1. [Plain("body", side, mutation) EXCEPT
              !.content = IF some THEN "replace" ELSE "keep",
              !.len = IF some THEN len ELSE held] \in ResponseType
    BY DEF Plain, ResponseType
  <2> QED
    BY <1>2, <2>1 DEF BodyResponses
<1> QED
  BY <1>1, <1>2

-----------------------------------------------------------------------------
(* Results and hooks.                                                       *)

\* A handler that returns Ok has a typed result.
LEMMA ReplyType ==
  ASSUME NEW s \in StateType, NEW o \in Seq(ResponseType)
  PROVE  /\ Reply(s, o) \in ResultType
         /\ Reply(s, o).state = s
         /\ Reply(s, o).out = o
BY DEF Reply, ResultType, Errors

\* A handler may answer nothing.
LEMMA QuietReply ==
  ASSUME NEW s \in StateType
  PROVE  Reply(s, <<>>) \in ResultType /\ Reply(s, <<>>).state = s
<1>1. <<>> \in Seq(ResponseType)
  OBVIOUS
<1> QED
  BY <1>1, ReplyType

\* An error status ends the stream.
LEMMA FailGood ==
  ASSUME NEW s \in StateType, NEW err \in Errors \ {"none"}
  PROVE  Fail(s, err) \in ResultType /\ Stops(Fail(s, err))
BY DEF Fail, ResultType, Stops

\* An immediate response ends the stream.
LEMMA ImmediateGood ==
  ASSUME NEW s \in StateType
  PROVE  /\ Reply(s, <<Immediate>>) \in ResultType
         /\ Stops(Reply(s, <<Immediate>>))
<1>1. Immediate \in ResponseType
  BY PlainType DEF Immediate, Sides, Mutations
<1>2. HasImmediate(<<Immediate>>)
  <2> 1 \in DOMAIN <<Immediate>> /\ IsImmediate(<<Immediate>>[1])
    BY DEF IsImmediate, Immediate, Plain
  <2> QED
    BY DEF HasImmediate
<1>3. <<Immediate>> \in Seq(ResponseType)
  BY <1>1
<1>4. Reply(s, <<Immediate>>) \in ResultType /\ Reply(s, <<Immediate>>).out = <<Immediate>>
  BY <1>3, ReplyType
<1> QED
  BY <1>2, <1>4 DEF Stops

\* immediate_from_action and the error path of a hook return typed results and
\* leave the state as the hook did.
LEMMA HookResultType ==
  ASSUME NEW s \in StateType, NEW outcome
  PROVE  /\ HookResult(s, outcome) \in ResultType
         /\ HookResult(s, outcome).state = s
<1>1. <<>> \in Seq(ResponseType)
  OBVIOUS
<1>2. CASE outcome = "error"
  BY <1>2, FailGood DEF HookResult, Fail, Errors
<1>3. CASE outcome = "reject"
  BY <1>3, ImmediateGood DEF HookResult, Reply
<1>4. CASE outcome \notin {"error", "reject"}
  BY <1>1, <1>4, ReplyType DEF HookResult
<1> QED
  BY <1>2, <1>3, <1>4

\* The length of an accumulated body may be replaced.
LEMMA SetBodyType ==
  ASSUME NEW s \in StateType, NEW side \in Sides, NEW n \in Nat
  PROVE  [s EXCEPT !.body[side] = n] \in StateType
BY DEF StateType

\* execute_request and execute_response return typed results.
LEMMA ExecuteHeaderFiltersType ==
  ASSUME NEW s \in StateType, NEW side \in Sides, NEW f \in Outcomes
  PROVE  ExecuteHeaderFilters(s, side, f) \in ResultType
<1>1. s.hooks[side] \in HookType
  BY DEF StateType
<1> QED
  BY <1>1, CallType, SetHooksType, HookResultType DEF ExecuteHeaderFilters

\* Body filters leave a body of some length.
LEMMA BodyFilterLenType ==
  ASSUME NEW c \in ChainType, NEW side \in Sides, NEW f \in Outcomes,
         NEW len \in Nat, NEW eos \in BOOLEAN
  PROVE  BodyFilterLen(c, side, f, len, eos) \in Nat
BY DEF BodyFilterLen, Rewritten

\* run_body_filters and run_resp_body_filters return typed results.
LEMMA RunBodyFiltersType ==
  ASSUME NEW c \in ChainType, NEW s \in StateType, NEW side \in Sides, NEW f \in Outcomes,
         NEW len \in Nat, NEW eos \in BOOLEAN
  PROVE  RunBodyFilters(c, s, side, f, len, eos) \in ResultType
<1>1. s.hooks[side] \in HookType
  BY DEF StateType
<1>2. (IF eos THEN EosCall(s.hooks[side]) ELSE s.hooks[side]) \in HookType
  BY <1>1, CallType
<1>3. [s EXCEPT !.hooks[side] = IF eos THEN EosCall(@) ELSE @] \in StateType
  BY <1>2, SetHooksType
<1>4. <<>> \in Seq(ResponseType)
  OBVIOUS
<1> QED
  BY <1>3, <1>4, HookResultType, ReplyType DEF RunBodyFilters

\* run_selected_upstream_body_filters returns a typed result.
LEMMA RunSelectedType ==
  ASSUME NEW c \in ChainType, NEW s \in StateType, NEW f \in Outcomes
  PROVE  RunSelectedUpstreamBodyFilters(c, s, f) \in ResultType
<1> DEFINE len == Rewritten(f.selected, s.body["request"])
           ran == [s EXCEPT !.body["request"] = len, !.hooks["request"] = SelectedCall(@)]
<1>1. "request" \in Sides
  BY DEF Sides
<1>2. s.body["request"] \in Nat /\ s.hooks["request"] \in HookType
  BY <1>1 DEF StateType
<1>3. len \in Nat
  BY <1>2 DEF Rewritten
<1>4. SelectedCall(s.hooks["request"]) \in HookType
  BY <1>2, CallType
<1>5. ran \in StateType
  <2> HIDE DEF len
  <2> QED
    BY <1>1, <1>3, <1>4 DEF StateType
<1>6. <<>> \in Seq(ResponseType)
  OBVIOUS
<1> QED
  BY <1>5, <1>6, HookResultType, ReplyType, ImmediateGood
  DEF RunSelectedUpstreamBodyFilters

\* run_request_body_filters_at_eos returns a typed result.
LEMMA AtEosType ==
  ASSUME NEW c \in ChainType, NEW s \in StateType, NEW f \in Outcomes,
         NEW phase \in Steps, NEW ordinary \in BOOLEAN
  PROVE  RunRequestBodyFiltersAtEos(c, s, f, phase, ordinary) \in ResultType
<1> DEFINE len == s.body["request"]
           new == BodyFilterLen(c, "request", f, len, TRUE)
           ran == IF ordinary
                    THEN RunBodyFilters(c, [s EXCEPT !.body["request"] = new],
                                        "request", f, len, TRUE)
                    ELSE Reply(s, <<>>)
<1>1. "request" \in Sides
  BY DEF Sides
<1>2. len \in Nat
  BY <1>1 DEF StateType
<1>3. [s EXCEPT !.body["request"] = new] \in StateType
  BY <1>1, <1>2, BodyFilterLenType, SetBodyType
<1>4. Reply(s, <<>>) \in ResultType
  BY QuietReply
<1>5. ran \in ResultType
  BY <1>1, <1>2, <1>3, <1>4, RunBodyFiltersType
<1>6. ran.state \in StateType
  BY <1>5 DEF ResultType
<1> HIDE DEF ran
<1> QED
  BY <1>4, <1>5, <1>6, RunSelectedType DEF RunRequestBodyFiltersAtEos, ran

-----------------------------------------------------------------------------
(* Response assembly.                                                       *)

\* Header mutations stay header mutations when content-length is added.
LEMMA MutationType ==
  ASSUME NEW f, NEW ran, NEW mutation \in Mutations, NEW len, NEW original
  PROVE  /\ {} \in Mutations
         /\ HeaderMutation(ran, f) \in Mutations
         /\ WithContentLength(mutation, len, original) \in Mutations
BY DEF Mutations, HeaderMutation, WithContentLength

\* A headers response is a typed answer.
LEMMA HeadersOut ==
  ASSUME NEW side \in Sides, NEW mutation \in Mutations
  PROVE  /\ HeadersResponse(side, mutation) \in ResponseType
         /\ <<HeadersResponse(side, mutation)>> \in Seq(ResponseType)
         /\ Len(<<HeadersResponse(side, mutation)>>) > 0
BY PlainType DEF HeadersResponse

\* build_request_for_phase and build_response_for_phase return one or more
\* responses.
LEMMA BuildForPhaseType ==
  ASSUME NEW side \in Sides, NEW phase \in Steps, NEW mutation \in Mutations,
         NEW len \in Nat, NEW mode \in BodyModes, NEW eos \in BOOLEAN
  PROVE  /\ BuildForPhase(side, phase, mutation, len, mode, eos) \in Seq(ResponseType)
         /\ Len(BuildForPhase(side, phase, mutation, len, mode, eos)) > 0
<1> DEFINE h == <<HeadersResponse(side, mutation)>>
           b == BodyResponses(side, TRUE, len, 0, {}, mode, eos)
           d == BodyResponses(side, TRUE, len, 0, mutation, mode, eos)
<1>1. h \in Seq(ResponseType) /\ Len(h) > 0
  BY HeadersOut
<1>2. b \in Seq(ResponseType) /\ d \in Seq(ResponseType) /\ Len(d) > 0
  BY MutationType, BodyResponsesType
<1> HIDE DEF h, b, d
<1>3. h \o b \in Seq(ResponseType) /\ Len(h \o b) > 0
  BY <1>1, <1>2
<1> QED
  BY <1>1, <1>2, <1>3 DEF BuildForPhase, h, b, d

\* build_request answers, and does not touch the carried context.
LEMMA BuildRequestGood ==
  ASSUME NEW s \in StateType, Live(s), NEW phase \in Steps, NEW mutation \in Mutations,
         NEW original \in Nat, NEW eos \in BOOLEAN
  PROVE  /\ Good(BuildRequest(s, phase, mutation, original, eos))
         /\ BuildRequest(s, phase, mutation, original, eos).out # <<>>
<1> DEFINE len == s.body["request"]
           mu == WithContentLength(mutation, len, original)
           sent == [s EXCEPT !.headers_sent["request"] = TRUE]
           bodyless == Reply(sent, <<HeadersResponse("request", mu)>>)
           built == BuildForPhase("request", phase, mu, len, s.mode["request"], eos)
<1>1. "request" \in Sides
  BY DEF Sides
<1>2. len \in Nat /\ s.mode["request"] \in BodyModes
  BY <1>1 DEF StateType
<1>3. mu \in Mutations
  BY MutationType
<1>4. sent \in StateType /\ Live(sent)
  BY <1>1 DEF StateType, Live
<1>5. Good(bodyless) /\ bodyless.out # <<>>
  <2> DEFINE h == <<HeadersResponse("request", mu)>>
  <2>1. h \in Seq(ResponseType) /\ Len(h) > 0
    BY <1>1, <1>3, HeadersOut
  <2> HIDE DEF h, sent
  <2>2. Reply(sent, h) \in ResultType /\ Reply(sent, h).state = sent /\ Reply(sent, h).out = h
    BY <1>4, <2>1, ReplyType
  <2>3. Good(Reply(sent, h)) /\ Reply(sent, h).out # <<>>
    BY <1>4, <2>1, <2>2 DEF Good
  <2> QED
    BY <2>3 DEF h
<1>6. built \in Seq(ResponseType) /\ Len(built) > 0
  BY <1>1, <1>2, <1>3, BuildForPhaseType
<1>7. Good(Reply(s, built)) /\ Reply(s, built).out # <<>>
  BY <1>6, ReplyType DEF Good
<1>8. Good(Reply(s, <<Immediate>>)) /\ Reply(s, <<Immediate>>).out # <<>>
  BY ImmediateGood DEF Good, Reply
<1>9. BuildRequest(s, phase, mutation, original, eos) \in
        {bodyless, Reply(s, built), Reply(s, <<Immediate>>)}
  BY DEF BuildRequest, BuildBodyless
<1> QED
  BY <1>5, <1>7, <1>8, <1>9

-----------------------------------------------------------------------------
(* Pipelines.                                                               *)

\* Per-direction flags may be set without touching the carried context.
LEMMA SetFlagType ==
  ASSUME NEW s \in StateType, NEW side \in Sides, NEW b \in BOOLEAN
  PROVE  /\ [s EXCEPT !.filters_executed[side] = b] \in StateType
         /\ [s EXCEPT !.headers[side] = b] \in StateType
         /\ [s EXCEPT !.headers_sent[side] = b] \in StateType
         /\ [s EXCEPT !.body_receipt[side] = b] \in StateType
         /\ [s EXCEPT !.filters_executed[side] = b].carried_context = s.carried_context
         /\ [s EXCEPT !.headers[side] = b].carried_context = s.carried_context
         /\ [s EXCEPT !.headers_sent[side] = b].carried_context = s.carried_context
         /\ [s EXCEPT !.body_receipt[side] = b].carried_context = s.carried_context
BY DEF StateType

\* Accumulating a chunk leaves a typed state and the carried context alone.
LEMMA AddBytesType ==
  ASSUME NEW s \in StateType, NEW side \in Sides, NEW n \in Nat
  PROVE  /\ [s EXCEPT !.body[side] = @ + n] \in StateType
         /\ [s EXCEPT !.body[side] = @ + n].carried_context = s.carried_context
<1>1. s.body[side] + n \in Nat
  BY DEF StateType
<1>2. [s EXCEPT !.body[side] = s.body[side] + n] \in StateType
  BY <1>1, SetBodyType
<1> QED
  BY <1>2 DEF StateType

\* dehydrate puts back what hydrate took, so the slot is full again.
LEMMA DehydrateLive ==
  ASSUME NEW s \in StateType, NEW before \in StateType, NEW f \in Outcomes,
         NEW ran \in BOOLEAN, Live(before)
  PROVE  Live(Dehydrate(s, before, f, ran))
BY DEF StateType, Dehydrate, Live, Drained

\* execute_request_filters_if_needed returns a typed result.
LEMMA IfNeededType ==
  ASSUME NEW s \in StateType, NEW f \in Outcomes
  PROVE  ExecuteRequestFiltersIfNeeded(s, f) \in ResultType
<1> DEFINE ran == ExecuteHeaderFilters(s, "request", f)
<1>1. "request" \in Sides
  BY DEF Sides
<1>2. ran \in ResultType
  BY <1>1, ExecuteHeaderFiltersType
<1>3. ran.state \in StateType
  BY <1>2 DEF ResultType
<1> HIDE DEF ran
<1>4. Reply([ran.state EXCEPT !.filters_executed["request"] = TRUE], <<>>) \in ResultType
  BY <1>1, <1>3, SetFlagType, QuietReply
<1> QED
  BY <1>2, <1>4, QuietReply DEF ExecuteRequestFiltersIfNeeded, ran

\* run_request_pipeline_inner: whichever of its early returns is taken, either
\* the stream ends or the context is back and Envoy gets an answer.
LEMMA RequestPipelineGood ==
  ASSUME NEW c \in ChainType, NEW s \in StateType, Live(s), NEW f \in Outcomes,
         NEW phase \in Steps, NEW eos \in BOOLEAN, NEW ordinary \in BOOLEAN
  PROVE  LET r == RunRequestPipelineInner(c, s, f, phase, eos, ordinary)
         IN Good(r) /\ (Stops(r) \/ r.out # <<>>)
<1> DEFINE runs == ~s.filters_executed["request"]
           ran == ExecuteRequestFiltersIfNeeded(Hydrate(s), f)
           filtered == RunRequestBodyFiltersAtEos(c, ran.state, f, phase, ordinary)
           back == Dehydrate(filtered.state, s, f, runs)
           built == BuildRequest(back, phase, HeaderMutation(runs, f), s.body["request"], eos)
           r == RunRequestPipelineInner(c, s, f, phase, eos, ordinary)
<1>1. ran \in ResultType /\ ran.state \in StateType
  BY HydrateType, IfNeededType DEF ResultType
<1>2. filtered \in ResultType /\ filtered.state \in StateType
  BY <1>1, AtEosType DEF ResultType
<1>3. runs \in BOOLEAN /\ s.body["request"] \in Nat
  BY DEF StateType, Sides
<1>4. back \in StateType /\ Live(back)
  BY <1>2, <1>3, DehydrateType, DehydrateLive
<1>5. Good(built) /\ built.out # <<>>
  <2> HIDE DEF back, runs
  <2>1. HeaderMutation(runs, f) \in Mutations
    BY DEF HeaderMutation, Mutations
  <2> QED
    BY <1>3, <1>4, <2>1, BuildRequestGood
<1>6. /\ Fail(s, "invalid_argument") \in ResultType /\ Stops(Fail(s, "invalid_argument"))
      /\ Fail(s, "internal") \in ResultType /\ Stops(Fail(s, "internal"))
  BY FailGood DEF Errors
<1>7. Reply(ran.state, <<Immediate>>) \in ResultType /\ Stops(Reply(ran.state, <<Immediate>>))
  BY <1>1, ImmediateGood
<1>8. \/ r \in {Fail(s, "invalid_argument"), Fail(s, "internal"), Reply(ran.state, <<Immediate>>)}
      \/ r = ran /\ Stops(ran)
      \/ r = filtered /\ Stops(filtered)
      \/ r = built
  <2> HIDE DEF built, filtered, ran
  <2> QED
    BY DEF RunRequestPipelineInner, built, back, filtered, ran, runs
<1> HIDE DEF r, built, filtered, ran
<1>9. Good(r) /\ (Stops(r) \/ r.out # <<>>)
  BY <1>1, <1>2, <1>5, <1>6, <1>7, <1>8 DEF Good
<1> QED
  BY <1>9 DEF r

\* execute_response_pipeline_and_body_filters returns a typed result.
LEMMA ResponseFiltersType ==
  ASSUME NEW c \in ChainType, NEW s \in StateType, NEW f \in Outcomes,
         NEW phase \in Steps, NEW runs \in BOOLEAN
  PROVE  ExecuteResponsePipeline(c, s, f, phase, runs) \in ResultType
<1> DEFINE len == s.body["response"]
           ran == IF runs THEN ExecuteHeaderFilters(s, "response", f) ELSE Reply(s, <<>>)
           new == BodyFilterLen(c, "response", f, len, TRUE)
           set == [ran.state EXCEPT !.body["response"] = new]
<1>1. "response" \in Sides
  BY DEF Sides
<1>2. len \in Nat
  BY <1>1 DEF StateType
<1>3. ran \in ResultType /\ ran.state \in StateType
  BY <1>1, ExecuteHeaderFiltersType, QuietReply DEF ResultType
<1> HIDE DEF ran
<1>4. set \in StateType
  BY <1>1, <1>2, <1>3, BodyFilterLenType, SetBodyType
<1>5. RunBodyFilters(c, set, "response", f, len, TRUE) \in ResultType
  BY <1>1, <1>2, <1>4, RunBodyFiltersType
<1> QED
  BY <1>3, <1>5 DEF ExecuteResponsePipeline, ran

\* A deferred header mutation may be replaced without touching the context.
LEMMA SetDeferredType ==
  ASSUME NEW s \in StateType, NEW side \in Sides, NEW mutation \in Mutations
  PROVE  /\ [s EXCEPT !.deferred[side] = mutation] \in StateType
         /\ [s EXCEPT !.deferred[side] = mutation].carried_context = s.carried_context
BY DEF StateType

\* run_response_pipeline: either the stream ends or the context is back and Envoy
\* gets an answer.
LEMMA ResponsePipelineGood ==
  ASSUME NEW c \in ChainType, NEW s \in StateType, Live(s), NEW f \in Outcomes,
         NEW phase \in Steps, NEW eos \in BOOLEAN
  PROVE  LET r == RunResponsePipeline(c, s, f, phase, eos)
         IN Good(r) /\ (Stops(r) \/ r.out # <<>>)
<1> DEFINE runs == phase = Headers \/ ~s.filters_executed["response"]
           taken == [s EXCEPT !.headers["response"] = FALSE]
           ran == ExecuteResponsePipeline(c, Hydrate(taken), f, phase, runs)
           parked == Dehydrate(ran.state, s, f, runs)
           deferred == IF phase = Body THEN parked.deferred["response"] ELSE {}
           done == [parked EXCEPT !.deferred["response"] = IF phase = Body THEN {} ELSE @]
           len == done.body["response"]
           mu == WithContentLength(deferred \cup HeaderMutation(runs, f), len,
                                   s.body["response"])
           built == BuildForPhase("response", phase, mu, len, s.mode["response"], eos)
           r == RunResponsePipeline(c, s, f, phase, eos)
<1>1. "response" \in Sides
  BY DEF Sides
<1>2. taken \in StateType
  BY <1>1, SetFlagType
<1>3. ran \in ResultType /\ ran.state \in StateType
  BY <1>2, HydrateType, ResponseFiltersType DEF ResultType
<1>4. parked \in StateType /\ Live(parked)
  BY <1>3, DehydrateType, DehydrateLive
<1> HIDE DEF parked, ran, runs, taken
<1>5. parked.deferred["response"] \in Mutations /\ {} \in Mutations
  BY <1>1, <1>4 DEF StateType, Mutations
<1>6. done \in StateType /\ Live(done)
  BY <1>1, <1>4, <1>5, SetDeferredType DEF Live
<1>7. len \in Nat /\ s.mode["response"] \in BodyModes
  BY <1>1, <1>6 DEF StateType
<1>8. mu \in Mutations
  BY <1>5 DEF Mutations, WithContentLength, HeaderMutation
<1> HIDE DEF done, len, mu
<1>9. built \in Seq(ResponseType) /\ Len(built) > 0
  BY <1>1, <1>7, <1>8, BuildForPhaseType
<1> HIDE DEF built
<1>10. Reply(done, built) \in ResultType /\ Reply(done, built).state = done
       /\ Reply(done, built).out # <<>>
  BY <1>6, <1>9, ReplyType
<1>11. /\ Fail(s, "invalid_argument") \in ResultType /\ Stops(Fail(s, "invalid_argument"))
       /\ Fail(taken, "internal") \in ResultType /\ Stops(Fail(taken, "internal"))
  BY <1>2, FailGood DEF Errors
<1>12. \/ r \in {Fail(s, "invalid_argument"), Fail(taken, "internal")}
       \/ r = ran /\ Stops(ran)
       \/ r = Reply(done, built)
  BY DEF RunResponsePipeline, built, mu, len, done, deferred, parked, ran, taken, runs
<1> HIDE DEF r
<1>13. Good(r) /\ (Stops(r) \/ r.out # <<>>)
  BY <1>3, <1>6, <1>10, <1>11, <1>12 DEF Good
<1> QED
  BY <1>13 DEF r

-----------------------------------------------------------------------------
(* Early header filters, streamed chunks, trailers.                         *)

\* Answering from a live state is fine.
LEMMA LiveReply ==
  ASSUME NEW s \in StateType, Live(s), NEW o \in Seq(ResponseType)
  PROVE  Good(Reply(s, o))
BY ReplyType DEF Good

\* So is ending the stream with an error, from any state,
LEMMA FailIsGood ==
  ASSUME NEW s \in StateType, NEW err \in {"invalid_argument", "internal", "resource_exhausted"}
  PROVE  Good(Fail(s, err))
BY FailGood DEF Good, Errors

\* or with an immediate response.
LEMMA ImmediateIsGood ==
  ASSUME NEW s \in StateType
  PROVE  Good(Reply(s, <<Immediate>>))
BY ImmediateGood DEF Good

\* MutationDelivery keeps the state live, however it delivers.
LEMMA DeliverGood ==
  ASSUME NEW s \in StateType, Live(s), NEW side \in Sides, NEW mutation \in Mutations,
         NEW delivery \in {"send", "ack", "silent"}
  PROVE  Good(Deliver(s, side, mutation, delivery))
<1> DEFINE d == [s EXCEPT !.deferred[side] = mutation]
<1>1. d \in StateType /\ Live(d)
  BY SetDeferredType DEF Live
<1>2. {} \in Mutations
  BY DEF Mutations
<1>3. /\ <<HeadersResponse(side, mutation)>> \in Seq(ResponseType)
      /\ <<HeadersResponse(side, {})>> \in Seq(ResponseType)
      /\ <<>> \in Seq(ResponseType)
  BY <1>2, HeadersOut
<1> HIDE DEF d
<1> QED
  BY <1>1, <1>3, LiveReply DEF Deliver, d

\* run_request_header_filters_early and run_response_header_filters_early end the
\* stream or put the context back.
LEMMA EarlyGood ==
  ASSUME NEW s \in StateType, Live(s), NEW f \in Outcomes,
         NEW delivery \in {"send", "ack", "silent"}
  PROVE  /\ Good(RunRequestHeaderFiltersEarly(s, f, delivery))
         /\ Good(RunResponseHeaderFiltersEarly(s, f, delivery))
<1> DEFINE ran(side) == ExecuteHeaderFilters(Hydrate(s), side, f)
           done(side) == [ran(side).state EXCEPT !.filters_executed[side] = TRUE]
           back(side) == Dehydrate(done(side), s, f, TRUE)
           delivered(side) == Deliver(back(side), side, HeaderMutation(TRUE, f), delivery)
<1>1. /\ HeaderMutation(TRUE, f) \in Mutations
      /\ {} \in Mutations
  BY DEF HeaderMutation, Mutations
<1>2. ASSUME NEW side \in Sides
      PROVE  /\ ran(side) \in ResultType
             /\ ran(side).state \in StateType
             /\ Good(delivered(side))
             /\ Good(Deliver(s, side, {}, delivery))
  <2>1. ran(side) \in ResultType /\ ran(side).state \in StateType
    BY HydrateType, ExecuteHeaderFiltersType DEF ResultType
  <2> HIDE DEF ran
  <2>2. done(side) \in StateType
    BY <2>1, SetFlagType
  <2> HIDE DEF done
  <2>3. back(side) \in StateType /\ Live(back(side))
    BY <2>2, DehydrateType, DehydrateLive
  <2> HIDE DEF back
  <2> QED
    BY <1>1, <2>1, <2>3, DeliverGood
<1>3. "request" \in Sides /\ "response" \in Sides
  BY DEF Sides
<1>4. Good(Fail(s, "internal"))
  BY FailIsGood
<1>5. Good(RunRequestHeaderFiltersEarly(s, f, delivery))
  <2>1. \/ RunRequestHeaderFiltersEarly(s, f, delivery) \in
             {Deliver(s, "request", {}, delivery), Fail(s, "internal"), delivered("request")}
        \/ /\ RunRequestHeaderFiltersEarly(s, f, delivery) = ran("request")
           /\ Stops(ran("request"))
    BY DEF RunRequestHeaderFiltersEarly
  <2> QED
    BY <1>2, <1>3, <1>4, <2>1 DEF Good
<1>6. Good(RunResponseHeaderFiltersEarly(s, f, delivery))
  <2>1. \/ RunResponseHeaderFiltersEarly(s, f, delivery) \in
             {Deliver(s, "response", {}, delivery), Fail(s, "internal"), delivered("response"),
              Reply(ran("response").state, <<Immediate>>)}
        \/ /\ RunResponseHeaderFiltersEarly(s, f, delivery) = ran("response")
           /\ Stops(ran("response"))
    BY DEF RunResponseHeaderFiltersEarly
  <2>2. Good(Reply(ran("response").state, <<Immediate>>))
    BY <1>2, <1>3, ImmediateIsGood
  <2> QED
    BY <1>2, <1>3, <1>4, <2>1, <2>2 DEF Good
<1> QED
  BY <1>5, <1>6

\* take_first_chunk and deferred_header_response leave the context alone.
LEMMA DeferredType ==
  ASSUME NEW s \in StateType, NEW side \in Sides
  PROVE  /\ SendDeferredHeaders(s, side) \in StateType
         /\ SendDeferredHeaders(s, side).carried_context = s.carried_context
         /\ DeferredHeaders(s, side) \in Seq(ResponseType)
<1>1. s.deferred[side] \in Mutations /\ {} \in Mutations
  BY DEF StateType, Mutations
<1>2. /\ SendDeferredHeaders(s, side) \in StateType
      /\ SendDeferredHeaders(s, side).carried_context = s.carried_context
  BY <1>1 DEF StateType, SendDeferredHeaders
<1>3. <<>> \in Seq(ResponseType)
  OBVIOUS
<1>4. DeferredHeaders(s, side) \in Seq(ResponseType)
  BY <1>1, <1>3, HeadersOut DEF DeferredHeaders, DeferredHeaderResponse
<1> QED
  BY <1>2, <1>4

\* passthrough_chunk runs no filter and keeps the state live.
LEMMA PassthroughGood ==
  ASSUME NEW s \in StateType, Live(s), NEW m \in MessageType
  PROVE  Good(PassthroughChunk(s, m))
<1> DEFINE h == DeferredHeaders(s, m.side)
           b == BodyResponses(m.side, m.len > 0, m.len, m.len, {}, s.mode[m.side], m.eos)
<1>1. m.side \in Sides /\ m.len \in Nat /\ m.eos \in BOOLEAN
  BY DEF MessageType
<1>2. s.mode[m.side] \in BodyModes /\ {} \in Mutations /\ (m.len > 0) \in BOOLEAN
  BY <1>1 DEF StateType, Mutations
<1>3. h \in Seq(ResponseType) /\ b \in Seq(ResponseType)
  BY <1>1, <1>2, DeferredType, BodyResponsesType
<1> HIDE DEF h, b
<1>4. h \o b \in Seq(ResponseType)
  BY <1>3
<1>5. SendDeferredHeaders(s, m.side) \in StateType /\ Live(SendDeferredHeaders(s, m.side))
  BY <1>1, DeferredType DEF Live
<1> QED
  BY <1>4, <1>5, LiveReply DEF PassthroughChunk, h, b

\* process_streamed_body_chunk ends the stream or puts the context back.
LEMMA StreamedChunkGood ==
  ASSUME NEW c \in ChainType, NEW s \in StateType, Live(s), NEW f \in Outcomes,
         NEW m \in MessageType
  PROVE  Good(ProcessStreamedBodyChunk(c, s, f, m))
<1> DEFINE chunk == ChunkLen(s, m)
           len == BodyFilterLen(c, m.side, f, chunk, m.eos)
           buffered == BufferResponseChunk(s, m)
           ran == RunBodyFilters(c, Hydrate(buffered), m.side, f, chunk, m.eos)
           back == Dehydrate(ran.state, s, f, FALSE)
           b == BodyResponses(m.side, len > 0 \/ m.len > 0, len, m.len, {},
                              s.mode[m.side], m.eos)
           r == ProcessStreamedBodyChunk(c, s, f, m)
<1>1. m.side \in Sides /\ m.len \in Nat /\ m.eos \in BOOLEAN
  BY DEF MessageType
<1>2. s.mode[m.side] \in BodyModes /\ {} \in Mutations /\ s.body["response"] \in Nat
  BY <1>1 DEF StateType, Mutations, Sides
<1>3. chunk \in Nat /\ WithheldTotal(s, m) \in Nat
  BY <1>1, <1>2 DEF ChunkLen, WithheldTotal
<1>4. buffered \in StateType
  BY <1>3, SetBodyType DEF BufferResponseChunk, Sides
<1> HIDE DEF chunk, buffered
<1>5. len \in Nat
  BY <1>1, <1>3, BodyFilterLenType
<1>6. ran \in ResultType /\ ran.state \in StateType
  BY <1>1, <1>3, <1>4, HydrateType, RunBodyFiltersType DEF ResultType
<1> HIDE DEF len, ran
<1>7. back \in StateType /\ Live(back)
  BY <1>6, DehydrateType, DehydrateLive
<1>8. (len > 0 \/ m.len > 0) \in BOOLEAN
  OBVIOUS
<1>9. b \in Seq(ResponseType)
  BY <1>1, <1>2, <1>5, <1>8, BodyResponsesType
<1> HIDE DEF back, b
<1>10. /\ Good(Reply(back, b))
       /\ Good(Fail(s, "invalid_argument"))
       /\ Good(Fail(s, "internal"))
       /\ Good(Fail(Hydrate(s), "resource_exhausted"))
  BY <1>7, <1>9, LiveReply, FailIsGood, HydrateType
<1>11. \/ r \in {Reply(back, b), Fail(s, "invalid_argument"), Fail(s, "internal"),
                 Fail(Hydrate(s), "resource_exhausted")}
       \/ r = ran /\ Stops(ran)
  BY DEF ProcessStreamedBodyChunk, back, b, ran, len, buffered, chunk
<1> HIDE DEF r
<1>12. Good(r)
  BY <1>6, <1>10, <1>11 DEF Good
<1> QED
  BY <1>12 DEF r

\* flush_streamed_body_filters ends the stream or puts the context back.
LEMMA FlushGood ==
  ASSUME NEW c \in ChainType, NEW s \in StateType, Live(s), NEW f \in Outcomes,
         NEW side \in Sides
  PROVE  Good(FlushStreamedBodyFilters(c, s, f, side))
<1> DEFINE ran == RunBodyFilters(c, Hydrate(s), side, f, 0, TRUE)
           back == Dehydrate(ran.state, s, f, FALSE)
           r == FlushStreamedBodyFilters(c, s, f, side)
<1>1. ran \in ResultType /\ ran.state \in StateType /\ ran.out \in Seq(ResponseType)
  BY HydrateType, RunBodyFiltersType DEF ResultType
<1> HIDE DEF ran
<1>2. back \in StateType /\ Live(back)
  BY <1>1, DehydrateType, DehydrateLive
<1> HIDE DEF back
<1>3. /\ Good(Reply(back, ran.out))
      /\ Good(Reply(s, <<Immediate>>))
      /\ Good(Fail(s, "invalid_argument"))
      /\ Good(Fail(s, "internal"))
  BY <1>1, <1>2, LiveReply, FailIsGood, ImmediateIsGood
<1>4. \/ r \in {Reply(back, ran.out), Reply(s, <<Immediate>>), Fail(s, "invalid_argument"),
                Fail(s, "internal")}
      \/ r = ran /\ Stops(ran)
  BY DEF FlushStreamedBodyFilters, back, ran, Stops
<1> HIDE DEF r
<1>5. Good(r)
  BY <1>1, <1>3, <1>4 DEF Good
<1> QED
  BY <1>5 DEF r

-----------------------------------------------------------------------------
(* Handlers: given a live state, a result that is typed and either ends the *)
(* stream or leaves a live state.                                           *)

\* A state as a handler gets and leaves it.
LiveState == {s \in StateType : Live(s)}

\* What handlers do to the state before they run filters keeps it live.
LEMMA LiveUpdates ==
  ASSUME NEW s \in LiveState, NEW m \in MessageType, NEW side \in Sides
  PROVE  /\ Advance(s, m) \in LiveState
         /\ MarkHeaders(s, m) \in LiveState
         /\ MarkBody(s, m) \in LiveState
         /\ CloseBody(s, side) \in LiveState
         /\ [s EXCEPT !.headers[side] = TRUE] \in LiveState
         /\ [s EXCEPT !.headers_sent[side] = TRUE] \in LiveState
         /\ [s EXCEPT !.body_receipt[side] = TRUE] \in LiveState
<1>1. s \in StateType
  BY DEF LiveState
<1>2. /\ Advance(s, m) \in StateType
      /\ MarkHeaders(s, m) \in StateType
      /\ MarkBody(s, m) \in StateType
      /\ CloseBody(s, side) \in StateType
  BY <1>1, AdvanceType, MarkType, CloseBodyType
<1>3. /\ Advance(s, m).carried_context = s.carried_context
      /\ MarkHeaders(s, m).carried_context = s.carried_context
      /\ MarkBody(s, m).carried_context = s.carried_context
      /\ CloseBody(s, side).carried_context = s.carried_context
  BY <1>1 DEF StateType, Advance, MarkHeaders, MarkBody, CloseBody
<1> QED
  BY <1>1, <1>2, <1>3, SetFlagType DEF LiveState, Live

\* A handler may answer nothing from a live state.
LEMMA QuietGood ==
  ASSUME NEW s \in LiveState
  PROVE  Good(Reply(s, <<>>))
BY QuietReply DEF Good, LiveState

\* A handler may acknowledge headers from a live state.
LEMMA AckGood ==
  ASSUME NEW s \in LiveState, NEW side \in Sides
  PROVE  Good(Reply(s, <<HeadersResponse(side, {})>>))
<1>1. {} \in Mutations
  BY DEF Mutations
<1> QED
  BY <1>1, HeadersOut, LiveReply DEF LiveState

\* A handler may end the stream.
LEMMA StoppedGood ==
  ASSUME NEW s \in LiveState
  PROVE  /\ Good(Fail(s, "invalid_argument"))
         /\ Good(Fail(s, "internal"))
         /\ Good(Fail(s, "resource_exhausted"))
         /\ Good(Reply(s, <<Immediate>>))
BY FailIsGood, ImmediateIsGood DEF LiveState

\* local_reply_passthrough keeps the state live in every phase.
LEMMA LocalReplyGood ==
  ASSUME NEW s \in LiveState, NEW m \in MessageType
  PROVE  Good(LocalReplyPassthrough(s, m))
<1>1. "response" \in Sides
  BY DEF Sides
<1>2. Good(LocalReplyHeaders(s, m))
  <2> DEFINE marked == MarkHeaders(s, m)
  <2>1. marked \in LiveState /\ [marked EXCEPT !.headers_sent["response"] = TRUE] \in LiveState
    BY <1>1, LiveUpdates
  <2> HIDE DEF marked
  <2> QED
    BY <1>1, <2>1, StoppedGood, QuietGood, AckGood DEF LocalReplyHeaders, marked
<1>3. Good(LocalReplyBody(s, m))
  <2> DEFINE marked == MarkBody(s, m)
             b == BodyResponses("response", FALSE, 0, m.len, {}, s.mode["response"], m.eos)
  <2>1. marked \in LiveState
    BY <1>1, LiveUpdates
  <2>2. /\ m.len \in Nat /\ m.eos \in BOOLEAN
        /\ s.mode["response"] \in BodyModes
        /\ {} \in Mutations
    BY <1>1 DEF MessageType, LiveState, StateType, Mutations
  <2>3. b \in Seq(ResponseType)
    BY <1>1, <2>2, BodyResponsesType
  <2> HIDE DEF marked, b
  <2>4. Good(Reply(marked, b)) /\ Good(PassthroughChunk(marked, m))
    BY <2>1, <2>3, LiveReply, PassthroughGood DEF LiveState
  <2> QED
    BY <2>4, StoppedGood, QuietGood DEF LocalReplyBody, RedeliveredBody, marked, b
<1>4. Good(Reply(s, <<TrailersResponse("response")>>))
  <2>1. <<TrailersResponse("response")>> \in Seq(ResponseType)
    BY <1>1, PlainType DEF TrailersResponse, Mutations
  <2> QED
    BY <2>1, LiveReply DEF LiveState
<1> QED
  BY <1>2, <1>3, <1>4, StoppedGood DEF LocalReplyPassthrough

\* The pipelines as the handlers call them.
LEMMA PipelinesGood ==
  ASSUME NEW c \in ChainType, NEW s \in LiveState, NEW f \in Outcomes,
         NEW phase \in Steps, NEW eos \in BOOLEAN
  PROVE  /\ Good(RunRequestPipeline(c, s, f, phase, eos))
         /\ Good(RunBodylessSelectedUpstreamPipeline(c, s, f))
         /\ Good(RunResponsePipeline(c, s, f, phase, eos))
<1>1. Body \in Steps
  BY DEF Steps
<1> QED
  BY <1>1, RequestPipelineGood, ResponsePipelineGood
  DEF LiveState, RunRequestPipeline, RunBodylessSelectedUpstreamPipeline

\* apply_response_mode_override keeps a good result good: an immediate response
\* stays one, and a live state stays live.
LEMMA OverrideGood ==
  ASSUME NEW c \in ChainType, NEW r, Good(r), NEW m \in MessageType
  PROVE  Good(ApplyResponseModeOverride(c, r, m))
<1> DEFINE s == [r.state EXCEPT !.mode["response"] = "streamed"]
           o == [i \in DOMAIN r.out |-> WithOverride(r.out[i])]
<1>1. r.state \in StateType /\ r.out \in Seq(ResponseType) /\ r \in ResultType
  BY DEF Good, ResultType
<1>2. s \in StateType
  BY <1>1 DEF StateType, BodyModes, Sides
<1>3. \A x \in ResponseType : WithOverride(x) \in ResponseType
                              /\ (IsImmediate(x) => IsImmediate(WithOverride(x)))
  BY DEF ResponseType, WithOverride, IsImmediate
<1>4. o \in Seq(ResponseType) /\ DOMAIN o = DOMAIN r.out
  BY <1>1, <1>3
<1>5. Reply(s, o) \in ResultType /\ Reply(s, o).state = s /\ Reply(s, o).out = o
  BY <1>2, <1>4, ReplyType
<1>6. CASE r.err = "none" /\ HasImmediate(r.out)
  <2>1. HasImmediate(o)
    BY <1>1, <1>3, <1>4, <1>6 DEF HasImmediate
  <2> QED
    BY <1>5, <2>1 DEF ApplyResponseModeOverride, Good, Stops
<1>7. CASE r.err = "none" /\ ~HasImmediate(r.out)
  <2>1. Live(r.state)
    BY <1>7 DEF Good, Stops
  <2>2. Live(s)
    BY <1>1, <2>1 DEF Live, StateType
  <2> HIDE DEF s, o
  <2> QED
    BY <1>5, <2>2 DEF ApplyResponseModeOverride, Good, s, o
<1>8. CASE r.err # "none"
  BY <1>8 DEF ApplyResponseModeOverride
<1> QED
  BY <1>6, <1>7, <1>8

\* The two ways handle_request_headers goes on with parsed headers.
LEMMA ParsedRequestGood ==
  ASSUME NEW c \in ChainType, NEW s \in LiveState, NEW f \in Outcomes
  PROVE  /\ Good(HandleEndStreamRequestHeaders(c, s, f))
         /\ Good(HandleRequestHeadersWithBody(c, s, f))
<1> DEFINE sent == [s EXCEPT !.headers_sent["request"] = TRUE]
           early == RunRequestHeaderFiltersEarly(s, f, "silent")
<1>1. "request" \in Sides /\ Headers \in Steps
  BY DEF Sides, Steps
<1>2. sent \in LiveState
  <2>1. PICK m \in MessageType : TRUE
    <3>1. Message("request", Headers, TRUE, 0, "none") \in MessageType
      BY DEF Message, MessageType, Sides, Steps, Guards
    <3> QED
      BY <3>1
  <2> QED
    BY <1>1, <2>1, LiveUpdates
<1> HIDE DEF sent
<1>3. Good(HandleEndStreamRequestHeaders(c, s, f))
  BY <1>1, PipelinesGood DEF HandleEndStreamRequestHeaders
<1>4. Good(early)
  BY EarlyGood DEF LiveState
<1> HIDE DEF early
<1>5. Good(Reply(early.state, <<Immediate>>))
  BY <1>4, ImmediateIsGood DEF Good, ResultType
<1>6. Good(HandleUnsupportedSelected(s, f))
  BY <1>4, <1>5 DEF HandleUnsupportedSelected, early
<1>7. Good(RunRequestHeaderFiltersEarly(sent, f, "send"))
  BY <1>2, EarlyGood DEF LiveState
<1>8. Good(Reply(sent, <<HeadersResponse("request", {})>>)) /\ Good(Reply(s, <<>>))
  BY <1>1, <1>2, AckGood, QuietGood
<1>9. Good(HandleRequestHeadersWithBody(c, s, f))
  BY <1>4, <1>6, <1>7, <1>8 DEF HandleRequestHeadersWithBody, sent, early
<1> QED
  BY <1>3, <1>9

\* handle_request_headers.
LEMMA RequestHeadersGood ==
  ASSUME NEW c \in ChainType, NEW s \in LiveState, NEW f \in Outcomes, NEW m \in MessageType
  PROVE  Good(HandleRequestHeaders(c, s, f, m))
<1> DEFINE marked == MarkHeaders(s, m)
           parsed == [marked EXCEPT !.headers["request"] = TRUE]
           handled == IF m.eos THEN HandleEndStreamRequestHeaders(c, parsed, f)
                      ELSE HandleRequestHeadersWithBody(c, parsed, f)
<1>1. "request" \in Sides
  BY DEF Sides
<1>2. marked \in LiveState
  BY <1>1, LiveUpdates
<1> HIDE DEF marked
<1>3. parsed \in LiveState
  BY <1>1, <1>2, LiveUpdates
<1> HIDE DEF parsed
<1>4. Good(handled)
  BY <1>3, ParsedRequestGood
<1> HIDE DEF handled
<1>5. Good(ApplyResponseModeOverride(c, handled, m))
  BY <1>4, OverrideGood
<1> QED
  BY <1>2, <1>3, <1>5, StoppedGood DEF HandleRequestHeaders, marked, parsed, handled

\* handle_request_body.
LEMMA RequestBodyGood ==
  ASSUME NEW c \in ChainType, NEW s \in LiveState, NEW f \in Outcomes, NEW m \in MessageType
  PROVE  Good(HandleRequestBody(c, s, f, m))
<1> DEFINE seen == [s EXCEPT !.body_receipt["request"] = TRUE]
           marked == MarkBody(seen, m)
<1>1. "request" \in Sides /\ Body \in Steps /\ m.len \in Nat /\ m.eos \in BOOLEAN
  BY DEF Sides, Steps, MessageType
<1>2. seen \in LiveState
  BY <1>1, LiveUpdates
<1> HIDE DEF seen
<1>3. marked \in LiveState
  BY <1>1, <1>2, LiveUpdates
<1> HIDE DEF marked
<1>4. Good(ForwardRequestChunk(c, marked, f, m))
  <2> DEFINE counted == [marked EXCEPT !.streamed_request_bytes = @ + m.len]
  <2>1. counted \in LiveState
    BY SMTT(30), <1>1, <1>3 DEF LiveState, StateType, Live
  <2> HIDE DEF counted
  <2>2. /\ Good(ProcessStreamedBodyChunk(c, counted, f, m))
        /\ Good(PassthroughChunk(counted, m))
    BY <2>1, StreamedChunkGood, PassthroughGood DEF LiveState
  <2> QED
    BY <1>3, <2>2, StoppedGood DEF ForwardRequestChunk, counted
<1>5. Good(AccumulateRequestBody(c, marked, f, m))
  <2> DEFINE added == [marked EXCEPT !.body["request"] = @ + m.len]
             buffered == marked.mode["request"] = "buffered"
             run == [added EXCEPT !.buffered_request_body_processed = buffered]
  <2>1. added \in LiveState
    BY <1>1, <1>3, AddBytesType DEF LiveState, Live
  <2> HIDE DEF added
  <2>2. run \in LiveState
    BY <2>1 DEF LiveState, StateType, Live
  <2> HIDE DEF run
  <2>3. Good(RunRequestPipeline(c, run, f, Body, m.eos)) /\ Good(Reply(added, <<>>))
    BY <1>1, <2>1, <2>2, PipelinesGood, QuietGood
  <2> QED
    BY <1>3, <2>3, StoppedGood DEF AccumulateRequestBody, run, added
<1> QED
  BY <1>2, <1>4, <1>5, StoppedGood, QuietGood
  DEF HandleRequestBody, RedeliveredBody, seen, marked

\* handle_response_headers.
LEMMA ResponseHeadersGood ==
  ASSUME NEW c \in ChainType, NEW s \in LiveState, NEW f \in Outcomes, NEW m \in MessageType
  PROVE  Good(HandleResponseHeaders(c, s, f, m))
<1> DEFINE marked == MarkHeaders(s, m)
           parsed == [marked EXCEPT !.headers["response"] = TRUE]
           sent == [parsed EXCEPT !.headers_sent["response"] = TRUE]
           delivery == IF s.mode["response"] = "fds" THEN "silent" ELSE "ack"
<1>1. "response" \in Sides /\ Headers \in Steps
  BY DEF Sides, Steps
<1>2. marked \in LiveState
  BY <1>1, LiveUpdates
<1> HIDE DEF marked
<1>3. parsed \in LiveState
  BY <1>1, <1>2, LiveUpdates
<1> HIDE DEF parsed
<1>4. sent \in LiveState
  BY <1>1, <1>3, LiveUpdates
<1> HIDE DEF sent
<1>5. Good(RunResponsePipeline(c, parsed, f, Headers, TRUE))
  BY <1>1, <1>3, PipelinesGood
<1>6. Good(RunResponseHeaderFiltersEarly(sent, f, "send"))
  BY <1>4, EarlyGood DEF LiveState
<1>7. Good(RunResponseHeaderFiltersEarly(parsed, f, delivery))
  BY <1>3, EarlyGood DEF LiveState
<1>8. /\ Good(Reply(parsed, <<>>))
      /\ Good(Reply(parsed, <<HeadersResponse("response", {})>>))
  BY <1>1, <1>3, QuietGood, AckGood
<1> QED
  BY <1>5, <1>6, <1>7, <1>8, StoppedGood DEF HandleResponseHeaders, sent, parsed, marked

\* handle_response_body.
LEMMA ResponseBodyGood ==
  ASSUME NEW c \in ChainType, NEW s \in LiveState, NEW f \in Outcomes, NEW m \in MessageType
  PROVE  Good(HandleResponseBody(c, s, f, m))
<1> DEFINE seen == [s EXCEPT !.body_receipt["response"] = TRUE]
           marked == MarkBody(seen, m)
           added == [marked EXCEPT !.body["response"] = @ + m.len]
<1>1. "response" \in Sides /\ Body \in Steps /\ m.len \in Nat
  BY DEF Sides, Steps, MessageType
<1>2. seen \in LiveState
  BY <1>1, LiveUpdates
<1> HIDE DEF seen
<1>3. marked \in LiveState
  BY <1>1, <1>2, LiveUpdates
<1> HIDE DEF marked
<1>4. added \in LiveState
  BY <1>1, <1>3, AddBytesType DEF LiveState, Live
<1> HIDE DEF added
<1>5. Good(AccumulateResponseBody(c, marked, f, m))
  <2>1. Good(RunResponsePipeline(c, added, f, Body, TRUE)) /\ Good(Reply(added, <<>>))
    BY <1>1, <1>4, PipelinesGood, QuietGood
  <2> QED
    BY <1>3, <2>1, StoppedGood DEF AccumulateResponseBody, added
<1>6. /\ Good(ProcessStreamedBodyChunk(c, marked, f, m))
      /\ Good(PassthroughChunk(marked, m))
  BY <1>3, StreamedChunkGood, PassthroughGood DEF LiveState
<1> QED
  BY <1>2, <1>5, <1>6, StoppedGood, QuietGood
  DEF HandleResponseBody, RedeliveredBody, seen, marked

\* finalize_body_on_trailers, with all that it may run.
LEMMA FinalizeGood ==
  ASSUME NEW c \in ChainType, NEW s \in LiveState, NEW f \in Outcomes, NEW side \in Sides
  PROVE  Good(FinalizeBodyOnTrailers(c, s, f, side))
<1> DEFINE closed == CloseBody(s, side)
           trailing == RunTrailingBodyPipeline(c, closed, f, side)
<1>1. Body \in Steps
  BY DEF Steps
<1>2. closed \in LiveState
  <2>1. PICK m \in MessageType : TRUE
    <3>1. Message("request", Headers, TRUE, 0, "none") \in MessageType
      BY DEF Message, MessageType, Sides, Steps, Guards
    <3> QED
      BY <3>1
  <2> QED
    BY <2>1, LiveUpdates
<1> HIDE DEF closed
<1>3. Good(trailing) /\ (Stops(trailing) \/ trailing.out # <<>>)
  BY <1>1, <1>2, RequestPipelineGood, ResponsePipelineGood
  DEF LiveState, RunTrailingBodyPipeline, RunRequestPipeline
<1> HIDE DEF trailing
<1>4. trailing \in ResultType /\ trailing.out \in Seq(ResponseType)
  BY <1>3 DEF Good, ResultType
<1>5. ASSUME NEW o \in Seq(ResponseType), ~Stops(trailing)
      PROVE  Good([trailing EXCEPT !.out = o])
  BY <1>3, <1>4, <1>5 DEF Good, ResultType
<1>6. Good(RunTrailingFdsBody(c, closed, f, side))
  <2>1. CASE Stops(trailing)
    BY <1>3, <2>1 DEF RunTrailingFdsBody, trailing
  <2>2. CASE ~Stops(trailing)
    <3>1. <<Head(trailing.out)>> \in Seq(ResponseType)
      BY <1>3, <1>4, <2>2
    <3> QED
      BY <1>3, <1>5, <2>2, <3>1 DEF RunTrailingFdsBody, trailing
  <2> QED
    BY <2>1, <2>2
<1>7. Good(RunTrailingBufferedBody(c, closed, f, side))
  <2>1. <<>> \in Seq(ResponseType)
    OBVIOUS
  <2> QED
    BY <1>3, <1>5, <2>1 DEF RunTrailingBufferedBody, trailing
<1>8. Good(FlushDeferredFdsHeaders(closed, side))
  <2>1. /\ SendDeferredHeaders(closed, side) \in StateType
        /\ Live(SendDeferredHeaders(closed, side))
        /\ DeferredHeaders(closed, side) \in Seq(ResponseType)
    BY <1>2, DeferredType DEF LiveState, Live
  <2> QED
    BY <2>1, LiveReply DEF FlushDeferredFdsHeaders
<1>9. Good(FlushStreamedBodyFilters(c, closed, f, side))
  BY <1>2, FlushGood DEF LiveState
<1> QED
  BY <1>2, <1>6, <1>7, <1>8, <1>9, QuietGood DEF FinalizeBodyOnTrailers, closed

\* handle_trailers adds its own answer unless the stream ends.
LEMMA TrailersGood ==
  ASSUME NEW c \in ChainType, NEW s \in LiveState, NEW f \in Outcomes, NEW side \in Sides
  PROVE  Good(HandleTrailers(c, s, f, side))
<1> DEFINE r == FinalizeBodyOnTrailers(c, s, f, side)
<1>1. Good(r)
  BY FinalizeGood
<1> HIDE DEF r
<1>2. CASE Stops(r)
  BY <1>1, <1>2 DEF HandleTrailers, r
<1>3. CASE ~Stops(r)
  <2>1. TrailersResponse(side) \in ResponseType
    BY PlainType DEF TrailersResponse, Mutations
  <2>2. r \in ResultType /\ Live(r.state) /\ r.out \in Seq(ResponseType)
    BY <1>1, <1>3 DEF Good, ResultType
  <2>3. Append(r.out, TrailersResponse(side)) \in Seq(ResponseType)
    BY <2>1, <2>2
  <2>4. Good([r EXCEPT !.out = Append(@, TrailersResponse(side))])
    BY <2>2, <2>3 DEF Good, ResultType
  <2> QED
    BY <1>3, <2>4 DEF HandleTrailers, r
<1> QED
  BY <1>2, <1>3

\* dispatch_request: every message a live stream receives leaves it live or ends it.
LEMMA DispatchGood ==
  ASSUME NEW c \in ChainType, NEW s \in LiveState, NEW f \in Outcomes, NEW m \in MessageType
  PROVE  Good(DispatchRequest(c, s, f, m))
<1> DEFINE advanced == Advance(s, m)
<1>1. m.side \in Sides
  BY DEF MessageType
<1>2. advanced \in LiveState
  BY <1>1, LiveUpdates
<1> HIDE DEF advanced
<1>3. /\ Good(LocalReplyPassthrough(advanced, m))
      /\ Good(HandleTrailers(c, advanced, f, m.side))
      /\ Good(HandleRequestHeaders(c, advanced, f, m))
      /\ Good(HandleRequestBody(c, advanced, f, m))
      /\ Good(HandleResponseHeaders(c, advanced, f, m))
      /\ Good(HandleResponseBody(c, advanced, f, m))
  BY <1>1, <1>2, LocalReplyGood, TrailersGood, RequestHeadersGood, RequestBodyGood,
     ResponseHeadersGood, ResponseBodyGood
<1>4. Good(Fail(s, "invalid_argument"))
  BY StoppedGood
<1> QED
  BY <1>3, <1>4 DEF DispatchRequest, advanced

-----------------------------------------------------------------------------
(* The stream.                                                              *)

\* The inductive invariant: the two properties need each other, because only a
\* live state makes every handler's result typed and live again.
IInv == TypeOK /\ ContextIntact

\* A fresh StreamState is typed, and its slot is seeded.
LEMMA InitIInv == Init => IInv
<1> SUFFICES ASSUME Init PROVE IInv
  OBVIOUS
<1>1. NewState \in StateType /\ Live(NewState)
  BY DEF NewState, StateType, Both, DefaultConfig, EosType, HookType, Mutations, BodyModes,
         Drained, Live
<1>2. <<>> \in Seq(ResponseType)
  OBVIOUS
<1> QED
  BY <1>1, <1>2 DEF Init, IInv, TypeOK, ContextIntact, Statuses, Live

\* config_from_first_message touches modes only.
LEMMA ConfiguredLive ==
  ASSUME NEW s \in LiveState, NEW field, field.config \in ConfigType
  PROVE  Configured(s, field) \in LiveState
BY DEF Configured, LiveState, Live, StateType, ConfigType

\* apply_protocol_config only accepts supported configurations.
LEMMA FieldsTyped ==
  ASSUME NEW field \in AcceptedFields
  PROVE  field.config \in ConfigType
<1>1. DefaultConfig \in ConfigType
  BY DEF DefaultConfig, ConfigType, BodyModes
<1>2. field = Absent \/ \E config \in Configs : field = Supported(config)
  BY DEF AcceptedFields
<1> QED
  BY <1>1, <1>2, StreamAssumption DEF Absent, Supported

\* process_messages sends a good result: the stream goes on live, or ends.
LEMMA FinishIInv ==
  ASSUME IInv, Running, NEW r, Good(r), Finish(r), UNCHANGED chain,
         first_message_processed' = TRUE
  PROVE  IInv'
<1>1. r.state \in StateType /\ r.out \in Seq(ResponseType) /\ r.err \in Errors
  BY DEF Good, ResultType
<1>2. chain' \in Chains /\ first_message_processed' \in BOOLEAN
  BY DEF IInv, TypeOK
<1>3. <<>> \in Seq(ResponseType)
  OBVIOUS
<1>4. CASE r.err # "none" /\ state' = r.state /\ status' = r.err /\ out' = <<>>
  BY <1>1, <1>2, <1>3, <1>4 DEF IInv, TypeOK, ContextIntact, Running, Statuses, Errors
<1>5. CASE /\ r.err = "none" /\ ~HasImmediate(r.out) /\ state' = r.state
           /\ status' = status /\ out' = r.out
  <2>1. Live(r.state)
    BY <1>5 DEF Good, Stops
  <2> QED
    BY <1>1, <1>2, <1>5, <2>1 DEF IInv, TypeOK, ContextIntact, Live
<1>6. CASE /\ HasImmediate(r.out) /\ state' = ReleaseBuffers(r.state)
           /\ status' = "immediate" /\ out' = r.out
  <2>1. ReleaseBuffers(r.state) \in StateType
    BY <1>1 DEF ReleaseBuffers, StateType, Both
  <2> QED
    BY <1>1, <1>2, <1>6, <2>1 DEF IInv, TypeOK, ContextIntact, Running, Statuses
<1>7. CASE \E sent \in 0..(Len(r.out) - 1) :
             state' = r.state /\ status' = "ok" /\ out' = SubSeq(r.out, 1, sent)
  <2>1. PICK sent \in 0..(Len(r.out) - 1) :
          state' = r.state /\ status' = "ok" /\ out' = SubSeq(r.out, 1, sent)
    BY <1>7
  <2>2. SubSeq(r.out, 1, sent) \in Seq(ResponseType)
    BY <1>1
  <2> QED
    BY <1>1, <1>2, <2>1, <2>2 DEF IInv, TypeOK, ContextIntact, Running, Statuses
<1> QED
  BY <1>4, <1>5, <1>6, <1>7 DEF Finish

\* One pass of the message loop preserves the invariant.
LEMMA ReceiveIInv ==
  ASSUME IInv, NEW m \in MessageType, ReceiveAny(m)
  PROVE  IInv'
<1>1. PICK f \in FilterOutcomes(chain, state, m), field \in AcceptedFields : Receive(m, field, f)
  BY DEF ReceiveAny
<1>2. chain \in ChainType
  BY StreamAssumption DEF IInv, TypeOK
<1>3. f \in Outcomes
  BY <1>1 DEF FilterOutcomes, Outcomes, BodyOutcomes, HeaderOutcomes
<1>4. Running
  BY <1>1 DEF Receive
<1>5. state \in LiveState
  BY <1>4 DEF IInv, TypeOK, ContextIntact, LiveState, Live
<1>6. Configured(state, field) \in LiveState
  BY <1>1, <1>5, FieldsTyped, ConfiguredLive
<1>7. Good(DispatchRequest(chain, Configured(state, field), f, m))
  BY <1>2, <1>3, <1>6, DispatchGood
<1> QED
  BY <1>1, <1>4, <1>7, FinishIInv DEF Receive

\* The messages of the model are typed.
LEMMA MessagesTyped ==
  ASSUME NEW side \in Sides
  PROVE  /\ HeadersMessages(side) \subseteq MessageType
         /\ BodyMessages(side) \subseteq MessageType
         /\ TrailersMessage(side) \in MessageType
BY StreamAssumption
DEF HeadersMessages, BodyMessages, TrailersMessage, Message, MessageType, Steps, Guards,
    RequestGuards

\* Every step preserves the invariant.
LEMMA NextIInv == IInv /\ [Next]_vars => IInv'
<1> SUFFICES ASSUME IInv, [Next]_vars PROVE IInv'
  OBVIOUS
<1>1. ASSUME NEW side \in Sides, ReceiveHeaders(side) PROVE IInv'
  BY <1>1, MessagesTyped, ReceiveIInv DEF ReceiveHeaders
<1>2. ASSUME NEW side \in Sides, ReceiveBody(side) PROVE IInv'
  BY <1>2, MessagesTyped, ReceiveIInv DEF ReceiveBody
<1>3. ASSUME NEW side \in Sides, ReceiveTrailers(side) PROVE IInv'
  BY <1>3, MessagesTyped, ReceiveIInv DEF ReceiveTrailers
<1>4. <<>> \in Seq(ResponseType)
  OBVIOUS
<1>5. CASE ReceiveEmpty
  <2>1. PICK field \in AcceptedFields : Running /\ state' = Configured(state, field)
    BY <1>5 DEF ReceiveEmpty
  <2>2. state \in LiveState
    BY <2>1 DEF IInv, TypeOK, ContextIntact, LiveState, Live
  <2>3. state' \in LiveState
    BY <2>1, <2>2, FieldsTyped, ConfiguredLive
  <2> QED
    BY <1>4, <1>5, <2>3 DEF ReceiveEmpty, IInv, TypeOK, ContextIntact, LiveState, Live
<1>6. CASE RefuseConfig
  BY <1>4, <1>6 DEF RefuseConfig, IInv, TypeOK, ContextIntact, Running, Statuses
<1>7. CASE InboundEnds("ok") \/ InboundEnds("internal")
  BY <1>4, <1>7 DEF InboundEnds, IInv, TypeOK, ContextIntact, Running, Statuses
<1>8. CASE UNCHANGED vars
  BY <1>8 DEF vars, IInv, TypeOK, ContextIntact, Running
<1> QED
  BY <1>1, <1>2, <1>3, <1>5, <1>6, <1>7, <1>8 DEF Next

\* Every field of the StreamState, and every response, has its type whatever the
\* chain, the configuration and the messages are.
THEOREM TypeCorrect == Spec => []TypeOK
<1>1. IInv => TypeOK
  BY DEF IInv
<1> QED
  BY InitIInv, NextIInv, <1>1, PTL DEF Spec

\* hydrate never finds the slot drained: no path through the handlers of
\* src/src/handlers.rs and the pipelines of src/src/pipeline.rs that lets the
\* stream go on forgets to put the carried context back.
THEOREM ContextNeverLost == Spec => []ContextIntact
<1>1. IInv => ContextIntact
  BY DEF IInv
<1> QED
  BY InitIInv, NextIInv, <1>1, PTL DEF Spec
=============================================================================
