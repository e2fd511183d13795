--------------------------- MODULE ObservedProofs ---------------------------
(***************************************************************************)
(* What every message leaves behind: the filter calls, the buffered bytes,  *)
(* the negotiated modes and the responses of a stream, for every chain,     *)
(* configuration, body length and limit.                                    *)
(***************************************************************************)
EXTENDS ExtProcStreamProofs, ObservedStream

-----------------------------------------------------------------------------
(* The inductive invariant.                                                 *)

\* Header filters were called at most once, and before the end-of-stream call of
\* the body filters.
Once(s, side) ==
  /\ s.hooks[side].headers \in 0..1
  /\ s.hooks[side].eos > 0 => s.hooks[side].headers = 1

\* What is accumulated stays within the limit until body filters rewrite it.
Bounded(s, side) == s.hooks[side].eos = 0 => s.body[side] <= Limit

\* Nothing of the direction has been processed.
Fresh(s, side) ==
  /\ ~s.headers[side]
  /\ ~s.filters_executed[side]
  /\ s.hooks[side].headers = 0
  /\ s.hooks[side].eos = 0
  /\ s.body[side] = 0
  /\ s.deferred[side] = {}

\* As long as a direction has its headers, filters_executed tells whether its
\* header filters were called; in STREAMED mode they were.
Calls(s, side) ==
  /\ Once(s, side)
  /\ Bounded(s, side)
  /\ s.headers[side] => (s.filters_executed[side] <=> s.hooks[side].headers = 1)
  /\ s.headers[side] /\ s.mode[side] = "streamed" => s.filters_executed[side]

\* A stream starts with request headers, which are then kept, or is a local reply.
Opened(s) ==
  /\ s.order["request"] # Unseen => s.headers["request"] /\ ~s.local_reply
  /\ s.order["request"] = Unseen /\ s.order["response"] # Unseen => s.local_reply

\* Nothing of a local reply has been touched.
Unfiltered(s) ==
  /\ s.order["request"] = Unseen
  /\ s.carried_context = "stream"
  /\ \A side \in Sides : Fresh(s, side)

\* What holds of a stream that waits for the next message.
Waiting(s) ==
  /\ \A side \in Sides : Calls(s, side)
  /\ \A side \in Sides : s.order[side] = Unseen => Fresh(s, side)
  /\ Opened(s)
  /\ s.order["request"] = Unseen => Unfiltered(s)

StreamInv ==
  /\ IInv
  /\ \A side \in Sides : Once(state, side)
  /\ state.streamed_request_bytes <= Limit
  /\ Running => Waiting(state)
  /\ Running /\ ~first_message_processed => \A side \in Sides : state.order[side] = Unseen

-----------------------------------------------------------------------------
(* What pipelines leave alone, and what they leave behind.                  *)

\* A pipeline of one direction changes neither the protocol state of the stream
\* nor anything of the other direction, and keeps the request headers.
Framed(s, t, side) ==
  /\ t.order = s.order
  /\ t.local_reply = s.local_reply
  /\ t.mode = s.mode
  /\ t.eos = s.eos
  /\ t.streamed_request_bytes = s.streamed_request_bytes
  /\ t.headers["request"] = s.headers["request"]
  /\ \A o \in Sides \ {side} :
       /\ t.headers[o] = s.headers[o]
       /\ t.filters_executed[o] = s.filters_executed[o]
       /\ t.hooks[o] = s.hooks[o]
       /\ t.body[o] = s.body[o]
       /\ t.deferred[o] = s.deferred[o]

\* The flags of the direction are as they were.
Steady(s, t, side) ==
  /\ Framed(s, t, side)
  /\ t.headers[side] = s.headers[side]
  /\ t.filters_executed[side] = s.filters_executed[side]

\* If the direction still has its headers, its header filters were called.
Settled(t, side) ==
  t.headers[side] => t.filters_executed[side] /\ t.hooks[side].headers = 1

\* A result of a pipeline.
Ran(s, r, side) ==
  /\ Framed(s, r.state, side)
  /\ Once(r.state, side)
  /\ Stops(r) \/ (Settled(r.state, side) /\ Bounded(r.state, side))

\* Only a writer makes the body that selected-upstream filters see longer.
Allowed(c, f) == f.selected = "grow" => c.writer

\* What two steps leave alone, both leave alone.
LEMMA FramedTransitive ==
  ASSUME NEW s, NEW t, NEW u, NEW side \in Sides, Framed(s, t, side)
  PROVE  /\ Framed(t, u, side) => Framed(s, u, side)
         /\ Steady(s, t, side) /\ Steady(t, u, side) => Steady(s, u, side)
BY DEF Framed, Steady

\* Taking the context out touches nothing else,
LEMMA HydrateSteady ==
  ASSUME NEW s \in StateType, NEW side \in Sides
  PROVE  /\ Steady(s, Hydrate(s), side)
         /\ Hydrate(s).hooks = s.hooks
         /\ Hydrate(s).body = s.body
         /\ Hydrate(s).deferred = s.deferred
BY DEF StateType, Hydrate, Steady, Framed

\* nor does putting it back.
LEMMA DehydrateSteady ==
  ASSUME NEW s \in StateType, NEW before, NEW f, NEW ran \in BOOLEAN, NEW side \in Sides
  PROVE  /\ Steady(s, Dehydrate(s, before, f, ran), side)
         /\ Dehydrate(s, before, f, ran).hooks = s.hooks
         /\ Dehydrate(s, before, f, ran).body = s.body
         /\ Dehydrate(s, before, f, ran).deferred = s.deferred
BY DEF StateType, Dehydrate, Steady, Framed

\* Updates of the direction itself touch nothing else.
LEMMA OwnUpdates ==
  ASSUME NEW s \in StateType, NEW side \in Sides, NEW x
  PROVE  /\ Steady(s, [s EXCEPT !.hooks[side] = x], side)
         /\ Steady(s, [s EXCEPT !.body[side] = x], side)
         /\ Steady(s, [s EXCEPT !.deferred[side] = x], side)
         /\ Steady(s, [s EXCEPT !.headers_sent[side] = x], side)
         /\ Framed(s, [s EXCEPT !.filters_executed[side] = x], side)
BY DEF StateType, Steady, Framed

\* execute_request and execute_response count one call.
LEMMA HeaderFiltersCalled ==
  ASSUME NEW s \in StateType, NEW side \in Sides, NEW f \in Outcomes
  PROVE  LET t == ExecuteHeaderFilters(s, side, f).state
         IN /\ Steady(s, t, side)
            /\ t.body = s.body
            /\ t.hooks[side].eos = s.hooks[side].eos
            /\ s.hooks[side].headers = 0 => t.hooks[side].headers = 1
<1> DEFINE h == HeaderCall(s.hooks[side], f)
           t == [s EXCEPT !.hooks[side] = h]
<1>1. s.hooks[side] \in HookType
  BY DEF StateType
<1>2. h.eos = s.hooks[side].eos /\ (s.hooks[side].headers = 0 => h.headers = 1)
  BY <1>1 DEF HeaderCall, HookType, More
<1>3. h \in HookType
  BY <1>1, CallType
<1> HIDE DEF h
<1>4. t \in StateType
  BY <1>3, SetHooksType
<1>5. ExecuteHeaderFilters(s, side, f).state = t
  BY <1>4, HookResultType DEF ExecuteHeaderFilters, h
<1>6. t.hooks[side] = h /\ t.body = s.body
  BY DEF StateType
<1>7. Steady(s, t, side)
  BY OwnUpdates
<1> QED
  BY <1>2, <1>5, <1>6, <1>7

\* A step from s to t that calls the body filters of one direction, or none at all.
BodyCalled(c, s, t, side, len, eos) ==
  /\ Steady(s, t, side)
  /\ t.body = s.body
  /\ t.hooks[side].headers = s.hooks[side].headers
  /\ t.hooks[side].eos \in Nat
  /\ t.hooks[side].eos > 0 \/ t.hooks[side].eos = s.hooks[side].eos
  /\ BodyFiltersRun(c, side, len, eos) /\ eos => t.hooks[side].eos > 0

\* run_body_filters and run_resp_body_filters count an end-of-stream call, and
\* touch nothing if they are skipped.
LEMMA BodyFiltersCalled ==
  ASSUME NEW c \in ChainType, NEW s \in StateType, NEW side \in Sides, NEW f \in Outcomes,
         NEW len \in Nat, NEW eos \in BOOLEAN
  PROVE  BodyCalled(c, s, RunBodyFilters(c, s, side, f, len, eos).state, side, len, eos)
<1> DEFINE h == IF eos THEN EosCall(s.hooks[side]) ELSE s.hooks[side]
           t == [s EXCEPT !.hooks[side] = h]
<1>1. s.hooks[side] \in HookType
  BY DEF StateType
<1>2. /\ h.headers = s.hooks[side].headers
      /\ IF eos THEN h.eos > 0 ELSE h.eos = s.hooks[side].eos
  BY <1>1 DEF EosCall, HookType, More
<1>3. h \in HookType
  BY <1>1, CallType
<1>4. h.eos \in Nat /\ s.hooks[side].eos \in Nat
  BY <1>1, <1>3 DEF HookType
<1> HIDE DEF h
<1>5. t \in StateType
  BY <1>3, SetHooksType
<1>6. RunBodyFilters(c, s, side, f, len, eos).state =
        IF BodyFiltersRun(c, side, len, eos) THEN t ELSE s
  BY <1>5, HookResultType, QuietReply DEF RunBodyFilters, h
<1>7. t.hooks[side] = h /\ t.body = s.body
  BY DEF StateType
<1>8. Steady(s, t, side) /\ Steady(s, s, side)
  BY OwnUpdates DEF Steady, Framed
<1> QED
  BY <1>2, <1>4, <1>6, <1>7, <1>8 DEF BodyCalled

\* At the end of stream the body filters see the accumulated body: either they
\* are called, or its length stays what it was.
LEMMA BodyFiltersAtEnd ==
  ASSUME NEW c \in ChainType, NEW s \in StateType, NEW side \in Sides, NEW f \in Outcomes,
         Once(s, side), s.hooks[side].headers = 1, Bounded(s, side)
  PROVE  LET len == s.body[side]
             t == RunBodyFilters(c, [s EXCEPT !.body[side] =
                                       BodyFilterLen(c, side, f, len, TRUE)],
                                 side, f, len, TRUE).state
         IN /\ Steady(s, t, side)
            /\ Once(t, side)
            /\ t.hooks[side].headers = 1
            /\ Bounded(t, side)
<1> DEFINE len == s.body[side]
           new == BodyFilterLen(c, side, f, len, TRUE)
           u == [s EXCEPT !.body[side] = new]
           t == RunBodyFilters(c, u, side, f, len, TRUE).state
<1>1. len \in Nat
  BY DEF StateType
<1>2. new \in Nat /\ (~BodyFiltersRun(c, side, len, TRUE) => new = len)
  BY <1>1, BodyFilterLenType DEF BodyFilterLen
<1> HIDE DEF new
<1>3. u \in StateType /\ u.body[side] = new /\ u.hooks = s.hooks
  <2>1. u \in StateType
    BY <1>2, SetBodyType
  <2> QED
    BY <2>1 DEF StateType
<1>4. Steady(s, u, side)
  BY OwnUpdates
<1> HIDE DEF u
<1>5. /\ Steady(u, t, side)
      /\ t.body = u.body
      /\ t.hooks[side].headers = u.hooks[side].headers
      /\ t.hooks[side].eos \in Nat
      /\ t.hooks[side].eos > 0 \/ t.hooks[side].eos = u.hooks[side].eos
      /\ BodyFiltersRun(c, side, len, TRUE) => t.hooks[side].eos > 0
  <2> DEFINE eos == TRUE
             v == RunBodyFilters(c, u, side, f, len, eos).state
  <2>1. eos
    OBVIOUS
  <2> HIDE DEF eos, len
  <2>2. BodyCalled(c, u, v, side, len, eos)
    BY <1>1, <1>3, <2>1, BodyFiltersCalled
  <2> QED
    BY <2>1, <2>2 DEF BodyCalled, eos
<1> HIDE DEF t, len
<1>6. Steady(s, t, side)
  BY <1>4, <1>5, FramedTransitive DEF Steady
<1>7. Once(t, side) /\ t.hooks[side].headers = 1
  BY <1>3, <1>5 DEF Once
<1>8. Bounded(t, side)
  <2>1. CASE BodyFiltersRun(c, side, len, TRUE)
    BY <1>5, <2>1 DEF Bounded
  <2>2. CASE ~BodyFiltersRun(c, side, len, TRUE)
    BY <1>2, <1>3, <1>5, <2>2 DEF Bounded, len
  <2> QED
    BY <2>1, <2>2
<1> QED
  BY <1>6, <1>7, <1>8 DEF t, u, new, len

\* A hook that rejects or fails ends the stream.
LEMMA HookStops ==
  ASSUME NEW s \in StateType, NEW outcome \in {"reject", "error"}
  PROVE  Stops(HookResult(s, outcome))
<1>1. CASE outcome = "error"
  BY <1>1, FailGood DEF HookResult, Errors
<1>2. CASE outcome = "reject"
  BY <1>2, ImmediateGood DEF HookResult
<1> QED
  BY <1>1, <1>2

\* run_selected_upstream_body_filters: a body that it makes longer than the limit
\* ends the stream.
LEMMA SelectedFiltersCalled ==
  ASSUME NEW c \in ChainType, NEW s \in StateType, NEW f \in Outcomes, Allowed(c, f),
         Bounded(s, "request")
  PROVE  LET r == RunSelectedUpstreamBodyFilters(c, s, f)
             t == r.state
         IN /\ Steady(s, t, "request")
            /\ t.hooks["request"].headers = s.hooks["request"].headers
            /\ t.hooks["request"].eos = s.hooks["request"].eos
            /\ Stops(r) \/ Bounded(t, "request")
<1> DEFINE n == s.body["request"]
           len == Rewritten(f.selected, n)
           h == SelectedCall(s.hooks["request"])
           ran == [s EXCEPT !.body["request"] = len, !.hooks["request"] = h]
           r == RunSelectedUpstreamBodyFilters(c, s, f)
           Fine(x) == /\ Steady(s, x.state, "request")
                      /\ x.state.hooks["request"].headers = s.hooks["request"].headers
                      /\ x.state.hooks["request"].eos = s.hooks["request"].eos
                      /\ Stops(x) \/ Bounded(x.state, "request")
<1> SUFFICES Fine(r)
  OBVIOUS
<1>1. "request" \in Sides
  BY DEF Sides
<1>2. n \in Nat /\ s.hooks["request"] \in HookType
  BY <1>1 DEF StateType
<1>3. h \in HookType /\ h.headers = s.hooks["request"].headers /\ h.eos = s.hooks["request"].eos
  BY <1>2, CallType DEF SelectedCall, HookType
<1>4. len \in Nat /\ (f.selected # "grow" => len <= n)
  BY <1>2 DEF Rewritten
<1> HIDE DEF n, len, h
<1>5. ran \in StateType
  BY <1>1, <1>3, <1>4 DEF StateType
<1>6. ran.hooks["request"] = h /\ ran.body["request"] = len
  BY <1>1 DEF StateType
<1>7. Steady(s, ran, "request")
  BY <1>1 DEF StateType, Steady, Framed
<1>8. Steady(s, s, "request")
  BY DEF Steady, Framed
<1> HIDE DEF ran
<1>9. /\ Reply(s, <<>>).state = s
      /\ Reply(ran, <<Immediate>>).state = ran
      /\ Stops(Reply(ran, <<Immediate>>))
      /\ HookResult(ran, f.selected).state = ran
      /\ f.selected \in {"reject", "error"} => Stops(HookResult(ran, f.selected))
  BY <1>5, QuietReply, ImmediateGood, HookResultType, HookStops DEF Reply
<1>10. \/ r = Reply(s, <<>>)
       \/ r = Reply(ran, <<Immediate>>)
       \/ /\ r = HookResult(ran, f.selected)
          /\ f.selected \in {"reject", "error"} \/ ~c.writer \/ ~(len > Limit)
  BY DEF RunSelectedUpstreamBodyFilters, ran, len, h, n
<1> HIDE DEF r
<1>11. CASE r = Reply(s, <<>>)
  BY <1>8, <1>9, <1>11
<1>12. CASE r = Reply(ran, <<Immediate>>)
  BY <1>3, <1>6, <1>7, <1>9, <1>12
<1>13. CASE /\ r = HookResult(ran, f.selected)
            /\ f.selected \in {"reject", "error"} \/ ~c.writer \/ ~(len > Limit)
  <2>1. CASE f.selected \in {"reject", "error"}
    BY <1>3, <1>6, <1>7, <1>9, <1>13, <2>1
  <2>2. CASE ~(len > Limit)
    BY <1>3, <1>4, <1>6, <1>7, <1>9, <1>13, <2>2, LimitAssumption DEF Bounded
  <2>3. CASE ~c.writer
    BY <1>2, <1>3, <1>4, <1>6, <1>7, <1>9, <1>13, <2>3, LimitAssumption DEF Bounded, Allowed, n
  <2> QED
    BY <1>13, <2>1, <2>2, <2>3
<1> QED
  BY <1>10, <1>11, <1>12, <1>13

\* run_request_body_filters_at_eos, once the header filters were called.
LEMMA AtEosCalled ==
  ASSUME NEW c \in ChainType, NEW s \in StateType, NEW f \in Outcomes, Allowed(c, f),
         NEW phase \in Steps, NEW ordinary \in BOOLEAN,
         Once(s, "request"), s.hooks["request"].headers = 1, Bounded(s, "request")
  PROVE  LET r == RunRequestBodyFiltersAtEos(c, s, f, phase, ordinary)
             t == r.state
         IN /\ Steady(s, t, "request")
            /\ Once(t, "request")
            /\ t.hooks["request"].headers = 1
            /\ Stops(r) \/ Bounded(t, "request")
<1> DEFINE len == s.body["request"]
           new == BodyFilterLen(c, "request", f, len, TRUE)
           body == RunBodyFilters(c, [s EXCEPT !.body["request"] = new], "request", f, len, TRUE)
           ran == IF ordinary THEN body ELSE Reply(s, <<>>)
           selected == RunSelectedUpstreamBodyFilters(c, ran.state, f)
           r == RunRequestBodyFiltersAtEos(c, s, f, phase, ordinary)
           Fine(t) == /\ Steady(s, t, "request")
                      /\ Once(t, "request")
                      /\ t.hooks["request"].headers = 1
<1>1. "request" \in Sides
  BY DEF Sides
<1>2. len \in Nat
  BY <1>1 DEF StateType
<1>3. [s EXCEPT !.body["request"] = new] \in StateType
  BY <1>1, <1>2, BodyFilterLenType, SetBodyType
<1>4. body \in ResultType /\ Reply(s, <<>>) \in ResultType
  BY <1>1, <1>2, <1>3, RunBodyFiltersType, QuietReply
<1>5. Fine(body.state) /\ Bounded(body.state, "request")
  BY <1>1, BodyFiltersAtEnd
<1>6. Reply(s, <<>>).state = s /\ Fine(s)
  BY DEF Reply, Steady, Framed
<1> HIDE DEF body, Fine
<1>7. ran.state \in StateType /\ Fine(ran.state) /\ Bounded(ran.state, "request")
  BY <1>4, <1>5, <1>6 DEF ResultType
<1> HIDE DEF ran
<1>8. /\ Steady(ran.state, selected.state, "request")
      /\ selected.state.hooks["request"].headers = ran.state.hooks["request"].headers
      /\ selected.state.hooks["request"].eos = ran.state.hooks["request"].eos
      /\ Stops(selected) \/ Bounded(selected.state, "request")
  BY <1>7, SelectedFiltersCalled
<1> HIDE DEF selected
<1>9. Fine(selected.state)
  BY <1>1, <1>7, <1>8, FramedTransitive DEF Fine, Once, Steady
<1>10. r \in {Reply(s, <<>>), selected} \/ (r = ran /\ Stops(ran))
  BY DEF RunRequestBodyFiltersAtEos, selected, ran, body, new, len
<1> HIDE DEF r
<1>11. Fine(r.state) /\ (Stops(r) \/ Bounded(r.state, "request"))
  BY <1>6, <1>7, <1>8, <1>9, <1>10
<1> QED
  BY <1>11 DEF Fine, r

\* execute_request_filters_if_needed calls the header filters unless they were
\* called before.
LEMMA IfNeededCalled ==
  ASSUME NEW s \in StateType, NEW f \in Outcomes, Once(s, "request"),
         s.filters_executed["request"] <=> s.hooks["request"].headers = 1
  PROVE  LET r == ExecuteRequestFiltersIfNeeded(s, f)
             t == r.state
         IN /\ Framed(s, t, "request")
            /\ t.body = s.body
            /\ t.hooks["request"].eos = s.hooks["request"].eos
            /\ Once(t, "request")
            /\ t.hooks["request"].headers = 1
            /\ Stops(r) \/ t.filters_executed["request"]
<1> DEFINE ran == ExecuteHeaderFilters(s, "request", f)
           set == [ran.state EXCEPT !.filters_executed["request"] = TRUE]
           r == ExecuteRequestFiltersIfNeeded(s, f)
           Fine(x) == /\ Framed(s, x.state, "request")
                      /\ x.state.body = s.body
                      /\ x.state.hooks["request"].eos = s.hooks["request"].eos
                      /\ Once(x.state, "request")
                      /\ x.state.hooks["request"].headers = 1
                      /\ Stops(x) \/ x.state.filters_executed["request"]
<1> SUFFICES Fine(r)
  OBVIOUS
<1>1. "request" \in Sides
  BY DEF Sides
<1>2. CASE s.filters_executed["request"]
  <2>1. r.state = s
    BY <1>2 DEF ExecuteRequestFiltersIfNeeded, Reply
  <2> HIDE DEF r
  <2> QED
    BY <1>2, <2>1 DEF Framed
<1>3. CASE ~s.filters_executed["request"]
  <2>1. s.hooks["request"].headers = 0 /\ ~(s.hooks["request"].eos > 0)
    BY <1>3 DEF Once
  <2>2. s.hooks["request"].eos = 0
    BY <1>1, <2>1 DEF StateType, HookType
  <2>3. /\ Steady(s, ran.state, "request")
        /\ ran.state.body = s.body
        /\ ran.state.hooks["request"].eos = s.hooks["request"].eos
        /\ ran.state.hooks["request"].headers = 1
    BY <1>1, <2>1, HeaderFiltersCalled
  <2>4. ran.state \in StateType
    BY <1>1, ExecuteHeaderFiltersType DEF ResultType
  <2>5. (r = ran /\ Stops(ran)) \/ r.state = set
    BY <1>3 DEF ExecuteRequestFiltersIfNeeded, Reply
  <2> HIDE DEF ran, r
  <2>6. /\ set.body = ran.state.body
        /\ set.hooks = ran.state.hooks
        /\ set.filters_executed["request"]
        /\ Framed(ran.state, set, "request")
    BY <1>1, <2>4, OwnUpdates DEF StateType
  <2> HIDE DEF set
  <2>7. Framed(s, set, "request") /\ Framed(s, ran.state, "request")
    BY <1>1, <2>3, <2>6, FramedTransitive DEF Steady
  <2> QED
    BY <2>2, <2>3, <2>5, <2>6, <2>7 DEF Once
<1> QED
  BY <1>2, <1>3

\* build_request leaves the direction as the filters left it.
LEMMA BuildRequestSteady ==
  ASSUME NEW s \in StateType, NEW phase, NEW mutation, NEW original, NEW eos
  PROVE  LET t == BuildRequest(s, phase, mutation, original, eos).state
         IN /\ Steady(s, t, "request")
            /\ t.hooks = s.hooks
            /\ t.body = s.body
            /\ t.deferred = s.deferred
<1> DEFINE sent == [s EXCEPT !.headers_sent["request"] = TRUE]
           t == BuildRequest(s, phase, mutation, original, eos).state
<1>1. "request" \in Sides
  BY DEF Sides
<1>2. t \in {s, sent}
  BY DEF BuildRequest, BuildBodyless, Reply
<1> HIDE DEF t
<1>3. /\ Steady(s, sent, "request")
      /\ sent.hooks = s.hooks
      /\ sent.body = s.body
      /\ sent.deferred = s.deferred
  BY <1>1 DEF StateType, Steady, Framed
<1>4. Steady(s, s, "request")
  BY DEF Steady, Framed
<1> HIDE DEF sent
<1> QED
  BY <1>2, <1>3, <1>4 DEF t

\* run_request_pipeline_inner, in every phase and on every early return.
LEMMA RequestPipelineRan ==
  ASSUME NEW c \in ChainType, NEW s \in StateType, NEW f \in Outcomes, Allowed(c, f),
         NEW phase \in Steps, NEW eos \in BOOLEAN, NEW ordinary \in BOOLEAN,
         Once(s, "request"), Bounded(s, "request"),
         s.headers["request"] =>
           (s.filters_executed["request"] <=> s.hooks["request"].headers = 1)
  PROVE  Ran(s, RunRequestPipelineInner(c, s, f, phase, eos, ordinary), "request")
<1> DEFINE runs == ~s.filters_executed["request"]
           h == Hydrate(s)
           ran == ExecuteRequestFiltersIfNeeded(h, f)
           filtered == RunRequestBodyFiltersAtEos(c, ran.state, f, phase, ordinary)
           back == Dehydrate(filtered.state, s, f, runs)
           built == BuildRequest(back, phase, HeaderMutation(runs, f), s.body["request"], eos)
           r == RunRequestPipelineInner(c, s, f, phase, eos, ordinary)
<1>1. "request" \in Sides
  BY DEF Sides
<1>2. CASE MissingHeaders(s, "request") \/ s.carried_context = Drained
  <2>1. r.state = s /\ Stops(r)
    BY <1>2, FailGood DEF RunRequestPipelineInner, Fail, Errors
  <2> HIDE DEF r
  <2> QED
    BY <2>1 DEF Ran, Framed, r
<1>3. CASE ~MissingHeaders(s, "request") /\ s.carried_context # Drained
  <2>1. s.headers["request"]
    BY <1>3 DEF MissingHeaders
  <2>2. h \in StateType /\ Steady(s, h, "request") /\ h.hooks = s.hooks /\ h.body = s.body
    BY <1>1, HydrateType, HydrateSteady
  <2> HIDE DEF h
  <2>3. Once(h, "request") /\ Bounded(h, "request")
        /\ (h.filters_executed["request"] <=> h.hooks["request"].headers = 1)
    BY <2>1, <2>2 DEF Once, Bounded, Steady
  <2>4. /\ Framed(h, ran.state, "request")
        /\ ran.state.body = h.body
        /\ ran.state.hooks["request"].eos = h.hooks["request"].eos
        /\ Once(ran.state, "request")
        /\ ran.state.hooks["request"].headers = 1
        /\ Stops(ran) \/ ran.state.filters_executed["request"]
    BY <2>2, <2>3, IfNeededCalled
  <2>5. ran.state \in StateType
    BY <2>2, IfNeededType DEF ResultType
  <2> HIDE DEF ran
  <2>6. Bounded(ran.state, "request")
    BY <2>3, <2>4 DEF Bounded
  <2>7. /\ Steady(ran.state, filtered.state, "request")
        /\ Once(filtered.state, "request")
        /\ filtered.state.hooks["request"].headers = 1
        /\ Stops(filtered) \/ Bounded(filtered.state, "request")
    BY <2>4, <2>5, <2>6, AtEosCalled
  <2>8. filtered.state \in StateType
    BY <2>5, AtEosType DEF ResultType
  <2> HIDE DEF filtered, runs
  <2>9. /\ back \in StateType
        /\ Steady(filtered.state, back, "request")
        /\ back.hooks = filtered.state.hooks
        /\ back.body = filtered.state.body
    <3>1. runs \in BOOLEAN
      BY DEF runs
    <3>2. back \in StateType
      BY <2>8, <3>1, DehydrateType
    <3> QED
      BY <1>1, <2>8, <3>1, <3>2, DehydrateSteady
  <2> HIDE DEF back
  <2>10. /\ Steady(back, built.state, "request")
         /\ built.state.hooks = back.hooks
         /\ built.state.body = back.body
    BY <2>9, BuildRequestSteady
  <2> HIDE DEF built
  <2>11. /\ Framed(s, ran.state, "request")
         /\ Framed(s, filtered.state, "request")
         /\ Framed(s, built.state, "request")
    BY <1>1, <2>2, <2>4, <2>7, <2>9, <2>10, FramedTransitive DEF Steady
  <2>12. \/ r = ran /\ Stops(ran)
         \/ r = Reply(ran.state, <<Immediate>>)
         \/ r = filtered /\ Stops(filtered)
         \/ r = built /\ ~Stops(ran) /\ ~Stops(filtered)
    BY <1>3 DEF RunRequestPipelineInner, built, back, filtered, ran, runs, h
  <2> HIDE DEF r
  <2>13. Ran(s, ran, "request") \/ ~Stops(ran)
    BY <2>4, <2>11 DEF Ran
  <2>14. Ran(s, Reply(ran.state, <<Immediate>>), "request")
    BY <2>4, <2>5, <2>11, ImmediateGood DEF Ran, Reply
  <2>15. Ran(s, filtered, "request") \/ ~Stops(filtered)
    BY <2>7, <2>11 DEF Ran
  <2>16. ASSUME ~Stops(ran), ~Stops(filtered) PROVE Ran(s, built, "request")
    <3>1. built.state.filters_executed["request"]
      BY <2>4, <2>7, <2>9, <2>10, <2>16 DEF Steady
    <3>2. Once(built.state, "request") /\ built.state.hooks["request"].headers = 1
      BY <2>7, <2>9, <2>10 DEF Once
    <3>3. Bounded(built.state, "request")
      BY <2>7, <2>9, <2>10, <2>16 DEF Bounded
    <3> QED
      BY <2>11, <3>1, <3>2, <3>3 DEF Ran, Settled
  <2> QED
    BY <2>12, <2>13, <2>14, <2>15, <2>16 DEF r
<1> QED
  BY <1>2, <1>3

\* execute_response_pipeline_and_body_filters, when it calls the header filters
\* exactly if they were not called before.
LEMMA ResponseFiltersCalled ==
  ASSUME NEW c \in ChainType, NEW s \in StateType, NEW f \in Outcomes, NEW phase \in Steps,
         NEW runs \in BOOLEAN, Once(s, "response"), Bounded(s, "response"),
         runs <=> s.hooks["response"].headers # 1
  PROVE  LET t == ExecuteResponsePipeline(c, s, f, phase, runs).state
         IN /\ Steady(s, t, "response")
            /\ Once(t, "response")
            /\ t.hooks["response"].headers = 1
            /\ Bounded(t, "response")
<1> DEFINE len == s.body["response"]
           called == ExecuteHeaderFilters(s, "response", f)
           ran == IF runs THEN called ELSE Reply(s, <<>>)
           new == BodyFilterLen(c, "response", f, len, TRUE)
           body == RunBodyFilters(c, [ran.state EXCEPT !.body["response"] = new],
                                  "response", f, len, TRUE)
           r == ExecuteResponsePipeline(c, s, f, phase, runs)
           Fine(t) == /\ Steady(s, t, "response")
                      /\ Once(t, "response")
                      /\ t.hooks["response"].headers = 1
                      /\ Bounded(t, "response")
<1> SUFFICES Fine(r.state)
  OBVIOUS
<1>1. "response" \in Sides
  BY DEF Sides
<1>2. Fine(ran.state) /\ ran.state \in StateType /\ ran.state.body = s.body
  <2>1. CASE runs
    <3>1. s.hooks["response"].headers = 0 /\ ~(s.hooks["response"].eos > 0)
      BY <2>1 DEF Once
    <3>2. s.hooks["response"].eos = 0
      BY <1>1, <3>1 DEF StateType, HookType
    <3>3. /\ Steady(s, called.state, "response")
          /\ called.state.body = s.body
          /\ called.state.hooks["response"].eos = s.hooks["response"].eos
          /\ called.state.hooks["response"].headers = 1
      BY <1>1, <3>1, HeaderFiltersCalled
    <3>4. called.state \in StateType
      BY <1>1, ExecuteHeaderFiltersType DEF ResultType
    <3> HIDE DEF called
    <3> QED
      BY <2>1, <3>2, <3>3, <3>4 DEF Once, Bounded
  <2>2. CASE ~runs
    <3>1. ran.state = s
      BY <2>2 DEF Reply
    <3> HIDE DEF ran
    <3> QED
      BY <2>2, <3>1 DEF Steady, Framed
  <2> QED
    BY <2>1, <2>2
<1> HIDE DEF ran
<1>3. /\ Steady(ran.state, body.state, "response")
      /\ Once(body.state, "response")
      /\ body.state.hooks["response"].headers = 1
      /\ Bounded(body.state, "response")
  <2> DEFINE u == ran.state
             end == RunBodyFilters(c, [u EXCEPT !.body["response"] =
                                         BodyFilterLen(c, "response", f, u.body["response"], TRUE)],
                                   "response", f, u.body["response"], TRUE).state
  <2>1. body.state = end
    BY <1>2
  <2>2. /\ Steady(u, end, "response")
        /\ Once(end, "response")
        /\ end.hooks["response"].headers = 1
        /\ Bounded(end, "response")
    BY <1>1, <1>2, BodyFiltersAtEnd
  <2> QED
    BY <2>1, <2>2
<1> HIDE DEF body
<1>4. Steady(s, body.state, "response")
  BY <1>1, <1>2, <1>3, FramedTransitive DEF Steady
<1>5. r \in {ran, body}
  BY DEF ExecuteResponsePipeline, ran, called, body, new, len
<1> HIDE DEF r
<1> QED
  BY <1>2, <1>3, <1>4, <1>5

\* run_response_pipeline, in every phase and on every early return.
LEMMA ResponsePipelineRan ==
  ASSUME NEW c \in ChainType, NEW s \in StateType, NEW f \in Outcomes,
         NEW phase \in Steps, NEW eos \in BOOLEAN,
         Once(s, "response"), Bounded(s, "response"),
         s.headers["response"] =>
           (s.filters_executed["response"] <=> s.hooks["response"].headers = 1),
         phase = Headers => ~s.filters_executed["response"]
  PROVE  Ran(s, RunResponsePipeline(c, s, f, phase, eos), "response")
<1> DEFINE runs == phase = Headers \/ ~s.filters_executed["response"]
           taken == [s EXCEPT !.headers["response"] = FALSE]
           h == Hydrate(taken)
           ran == ExecuteResponsePipeline(c, h, f, phase, runs)
           parked == Dehydrate(ran.state, s, f, runs)
           deferred == IF phase = Body THEN parked.deferred["response"] ELSE {}
           done == [parked EXCEPT !.deferred["response"] = IF phase = Body THEN {} ELSE @]
           len == done.body["response"]
           built == BuildForPhase("response", phase,
                      WithContentLength(deferred \cup HeaderMutation(runs, f), len,
                                        s.body["response"]),
                      len, s.mode["response"], eos)
           r == RunResponsePipeline(c, s, f, phase, eos)
<1>1. "response" \in Sides
  BY DEF Sides
<1>2. /\ taken \in StateType
      /\ Framed(s, taken, "response")
      /\ ~taken.headers["response"]
      /\ taken.hooks = s.hooks
      /\ taken.body = s.body
  <2>1. taken \in StateType
    BY <1>1, SetFlagType
  <2> QED
    BY <1>1, <2>1 DEF StateType, Framed, Sides
<1> HIDE DEF taken
<1>3. CASE MissingHeaders(s, "response")
  <2>1. r.state = s /\ Stops(r)
    BY <1>3, FailGood DEF RunResponsePipeline, Fail, Errors
  <2> HIDE DEF r
  <2> QED
    BY <2>1 DEF Ran, Framed, r
<1>4. CASE ~MissingHeaders(s, "response") /\ s.carried_context = Drained
  <2>1. r.state = taken /\ Stops(r)
    BY <1>2, <1>4, FailGood DEF RunResponsePipeline, Fail, Errors, taken
  <2> HIDE DEF r
  <2> QED
    BY <1>2, <2>1 DEF Ran, Once, r
<1>5. CASE ~MissingHeaders(s, "response") /\ s.carried_context # Drained
  <2>1. runs <=> s.hooks["response"].headers # 1
    BY <1>5 DEF MissingHeaders
  <2>2. runs \in BOOLEAN
    OBVIOUS
  <2> HIDE DEF runs
  <2>3. /\ h \in StateType
        /\ Steady(taken, h, "response")
        /\ h.hooks = s.hooks
        /\ h.body = s.body
    BY <1>1, <1>2, HydrateType, HydrateSteady
  <2> HIDE DEF h
  <2>4. Once(h, "response") /\ Bounded(h, "response")
    BY <2>3 DEF Once, Bounded
  <2>5. /\ Steady(h, ran.state, "response")
        /\ Once(ran.state, "response")
        /\ ran.state.hooks["response"].headers = 1
        /\ Bounded(ran.state, "response")
    BY <2>1, <2>2, <2>3, <2>4, ResponseFiltersCalled
  <2>6. ran.state \in StateType
    BY <2>2, <2>3, ResponseFiltersType DEF ResultType
  <2> HIDE DEF ran
  <2>7. /\ Steady(ran.state, parked, "response")
        /\ parked.hooks = ran.state.hooks
        /\ parked.body = ran.state.body
    BY <1>1, <2>2, <2>6, DehydrateSteady
  <2>8. parked \in StateType
    BY <2>2, <2>6, DehydrateType
  <2> HIDE DEF parked
  <2>9. /\ Steady(parked, done, "response")
        /\ done.hooks = parked.hooks
        /\ done.body = parked.body
    BY <1>1, <2>8 DEF StateType, Steady, Framed
  <2> HIDE DEF done
  <2>10. /\ Framed(s, ran.state, "response")
         /\ Framed(s, done, "response")
         /\ ~done.headers["response"]
    BY <1>1, <1>2, <2>3, <2>5, <2>7, <2>9, FramedTransitive DEF Steady
  <2>11. Once(done, "response") /\ Bounded(done, "response")
    BY <2>5, <2>7, <2>9 DEF Once, Bounded
  <2> HIDE DEF built
  <2>12. (r = ran /\ Stops(ran)) \/ r = Reply(done, built)
    BY <1>5 DEF RunResponsePipeline, built, len, done, deferred, parked, ran, h, taken, runs
  <2>13. Reply(done, built).state = done
    BY DEF Reply
  <2> HIDE DEF r
  <2> QED
    BY <2>5, <2>10, <2>11, <2>12, <2>13 DEF Ran, Settled, r
<1> QED
  BY <1>3, <1>4, <1>5

\* run_request_header_filters_early and run_response_header_filters_early, on
\* headers whose filters were not called before.
LEMMA EarlyRan ==
  ASSUME NEW s \in StateType, NEW side \in Sides, NEW f \in Outcomes, NEW delivery,
         ~MissingHeaders(s, side), Once(s, side), Bounded(s, side),
         s.hooks[side].headers = 0
  PROVE  /\ side = "request" => Ran(s, RunRequestHeaderFiltersEarly(s, f, delivery), side)
         /\ side = "response" => Ran(s, RunResponseHeaderFiltersEarly(s, f, delivery), side)
<1> DEFINE h == Hydrate(s)
           called == ExecuteHeaderFilters(h, side, f)
           set == [called.state EXCEPT !.filters_executed[side] = TRUE]
           back == Dehydrate(set, s, f, TRUE)
           mu == HeaderMutation(TRUE, f)
           delivered == Deliver(back, side, mu, delivery)
<1>1. h \in StateType /\ Steady(s, h, side) /\ h.hooks = s.hooks /\ h.body = s.body
  BY HydrateType, HydrateSteady
<1> HIDE DEF h
<1>2. s.hooks[side].eos = 0
  BY DEF Once, StateType, HookType
<1>3. /\ Steady(h, called.state, side)
      /\ called.state.body = s.body
      /\ called.state.hooks[side].eos = 0
      /\ called.state.hooks[side].headers = 1
  BY <1>1, <1>2, HeaderFiltersCalled
<1>4. called.state \in StateType
  BY <1>1, ExecuteHeaderFiltersType DEF ResultType
<1> HIDE DEF called
<1>5. /\ Framed(called.state, set, side)
      /\ set.filters_executed[side]
      /\ set.body = called.state.body
      /\ set.hooks = called.state.hooks
  BY <1>4, OwnUpdates DEF StateType
<1>6. set \in StateType
  BY <1>4, SetFlagType
<1> HIDE DEF set
<1>7. /\ Steady(set, back, side)
      /\ back.hooks = set.hooks
      /\ back.body = set.body
  BY <1>6, DehydrateSteady
<1>8. back \in StateType
  BY <1>6, DehydrateType
<1> HIDE DEF back, mu
<1>9. /\ Steady(back, delivered.state, side)
      /\ delivered.state.hooks = back.hooks
      /\ delivered.state.body = back.body
  <2> DEFINE d == [back EXCEPT !.deferred[side] = mu]
  <2>1. Steady(back, d, side) /\ d.hooks = back.hooks /\ d.body = back.body
    BY <1>8, OwnUpdates DEF StateType
  <2>2. Steady(back, back, side)
    BY DEF Steady, Framed
  <2>3. delivered.state \in {back, d}
    BY DEF Deliver, Reply
  <2> HIDE DEF d, delivered
  <2> QED
    BY <2>1, <2>2, <2>3
<1> HIDE DEF delivered
<1>10. Framed(s, called.state, side) /\ Framed(s, delivered.state, side)
  BY <1>1, <1>3, <1>5, <1>7, <1>9, FramedTransitive DEF Steady
<1>11. Ran(s, called, side) \/ ~Stops(called)
  BY <1>3, <1>10 DEF Ran, Once
<1>12. Ran(s, Reply(called.state, <<Immediate>>), side)
  BY <1>3, <1>4, <1>10, ImmediateGood DEF Ran, Once, Reply
<1>13. Ran(s, delivered, side)
  <2>1. /\ delivered.state.hooks[side].headers = 1
        /\ delivered.state.hooks[side].eos = 0
        /\ delivered.state.body[side] = s.body[side]
        /\ delivered.state.filters_executed[side]
    BY <1>3, <1>5, <1>7, <1>9 DEF Steady
  <2> QED
    BY <1>2, <1>10, <2>1 DEF Ran, Once, Settled, Bounded
<1>14. Ran(s, Fail(s, "internal"), side)
  BY FailGood DEF Ran, Framed, Fail, Errors
<1>15. ASSUME side = "request"
       PROVE  Ran(s, RunRequestHeaderFiltersEarly(s, f, delivery), side)
  <2>1. \/ RunRequestHeaderFiltersEarly(s, f, delivery) \in {Fail(s, "internal"), delivered}
        \/ RunRequestHeaderFiltersEarly(s, f, delivery) = called /\ Stops(called)
    BY <1>15 DEF RunRequestHeaderFiltersEarly, delivered, mu, back, set, called, h
  <2> QED
    BY <1>11, <1>13, <1>14, <2>1
<1>16. ASSUME side = "response"
       PROVE  Ran(s, RunResponseHeaderFiltersEarly(s, f, delivery), side)
  <2>1. \/ RunResponseHeaderFiltersEarly(s, f, delivery) \in
             {Fail(s, "internal"), delivered, Reply(called.state, <<Immediate>>)}
        \/ RunResponseHeaderFiltersEarly(s, f, delivery) = called /\ Stops(called)
    BY <1>16 DEF RunResponseHeaderFiltersEarly, delivered, mu, back, set, called, h
  <2> QED
    BY <1>11, <1>12, <1>13, <1>14, <2>1
<1> QED
  BY <1>15, <1>16

\* take_first_chunk and deferred_header_response call nothing and hold nothing.
LEMMA DeferredSteady ==
  ASSUME NEW s \in StateType, NEW side \in Sides
  PROVE  /\ Steady(s, SendDeferredHeaders(s, side), side)
         /\ SendDeferredHeaders(s, side).hooks = s.hooks
         /\ SendDeferredHeaders(s, side).body = s.body
         /\ SendDeferredHeaders(s, side).carried_context = s.carried_context
         /\ s.deferred[side] = {} => SendDeferredHeaders(s, side).deferred[side] = {}
BY DEF StateType, SendDeferredHeaders, Steady, Framed

\* process_streamed_body_chunk, once the header filters were called: what it
\* withholds stays within the limit.
LEMMA StreamedChunkRan ==
  ASSUME NEW c \in ChainType, NEW s \in StateType, NEW f \in Outcomes, NEW m \in MessageType,
         Once(s, m.side), Bounded(s, m.side), Settled(s, m.side)
  PROVE  Ran(s, ProcessStreamedBodyChunk(c, s, f, m), m.side)
<1> DEFINE side == m.side
           chunk == ChunkLen(s, m)
           total == WithheldTotal(s, m)
           len == BodyFilterLen(c, side, f, chunk, m.eos)
           kept == BufferResponseChunk(s, m)
           h == Hydrate(kept)
           ran == RunBodyFilters(c, h, side, f, chunk, m.eos)
           back == Dehydrate(ran.state, s, f, FALSE)
           b == BodyResponses(side, len > 0 \/ m.len > 0, len, m.len, {}, s.mode[side], m.eos)
           r == ProcessStreamedBodyChunk(c, s, f, m)
<1>1. side \in Sides /\ m.len \in Nat /\ m.eos \in BOOLEAN
  BY DEF MessageType
<1>2. chunk \in Nat /\ total \in Nat
  BY <1>1 DEF ChunkLen, WithheldTotal, StateType, Sides
<1> HIDE DEF chunk, total, b
<1>3. CASE \/ MissingHeaders(s, side)
           \/ s.carried_context = Drained
           \/ Withheld(s, m) /\ (total > StreamBufferLimit \/ total > Limit)
  <2>1. /\ Steady(s, Hydrate(s), side)
        /\ Hydrate(s).hooks = s.hooks
        /\ Hydrate(s) \in StateType
    BY <1>1, HydrateType, HydrateSteady
  <2>2. r \in {Fail(s, "invalid_argument"), Fail(s, "internal"),
               Fail(Hydrate(s), "resource_exhausted")}
    BY <1>3 DEF ProcessStreamedBodyChunk, total
  <2>3. Stops(r) /\ r.state \in {s, Hydrate(s)}
    BY <2>1, <2>2, FailGood DEF Fail, Errors
  <2> HIDE DEF r
  <2> QED
    BY <2>1, <2>3 DEF Ran, Once, Steady, Framed, r
<1>4. CASE /\ ~MissingHeaders(s, side)
           /\ s.carried_context # Drained
           /\ ~(Withheld(s, m) /\ (total > StreamBufferLimit \/ total > Limit))
  <2>1. s.hooks[side].headers = 1 /\ s.filters_executed[side]
    BY <1>1, <1>4 DEF MissingHeaders, Settled, Sides
  <2>2. kept \in StateType
    BY <1>1, <1>2, SetBodyType DEF BufferResponseChunk, total, Sides
  <2>3. Steady(s, kept, side) /\ kept.hooks = s.hooks
    <3>1. CASE Withheld(s, m)
      <4>1. side = "response"
        BY <3>1 DEF Withheld
      <4>2. PICK n : kept = [s EXCEPT !.body["response"] = n]
        BY <3>1 DEF BufferResponseChunk
      <4> HIDE DEF kept
      <4>3. Steady(s, [s EXCEPT !.body["response"] = n], "response")
        BY <1>1, <4>1, OwnUpdates
      <4>4. [s EXCEPT !.body["response"] = n].hooks = s.hooks
        BY DEF StateType
      <4> QED
        BY <4>1, <4>2, <4>3, <4>4
    <3>2. CASE ~Withheld(s, m)
      BY <3>2 DEF BufferResponseChunk, Steady, Framed
    <3> QED
      BY <3>1, <3>2
  <2>4. Bounded(kept, side)
    <3>1. CASE Withheld(s, m)
      <4>1. side = "response"
        BY <3>1 DEF Withheld
      <4>2. kept = [s EXCEPT !.body["response"] = IF m.eos THEN 0 ELSE total]
        BY <3>1 DEF BufferResponseChunk, total
      <4>3. kept.body["response"] = IF m.eos THEN 0 ELSE total
        BY <1>1, <4>1, <4>2 DEF StateType
      <4> QED
        BY <1>2, <1>4, <3>1, <4>1, <4>3, LimitAssumption DEF Bounded
    <3>2. CASE ~Withheld(s, m)
      BY <3>2 DEF BufferResponseChunk
    <3> QED
      BY <3>1, <3>2
  <2> HIDE DEF kept
  <2>5. h \in StateType /\ Steady(kept, h, side) /\ h.hooks = kept.hooks /\ h.body = kept.body
    BY <1>1, <2>2, HydrateType, HydrateSteady
  <2> HIDE DEF h
  <2>6. /\ Steady(h, ran.state, side)
        /\ ran.state.body = h.body
        /\ ran.state.hooks[side].headers = h.hooks[side].headers
        /\ ran.state.hooks[side].eos \in Nat
        /\ ran.state.hooks[side].eos > 0 \/ ran.state.hooks[side].eos = h.hooks[side].eos
    <3> DEFINE eos == m.eos
               t == RunBodyFilters(c, h, side, f, chunk, eos).state
    <3>1. side \in Sides /\ eos \in BOOLEAN
      BY <1>1
    <3> HIDE DEF eos, side
    <3>2. BodyCalled(c, h, t, side, chunk, eos)
      BY <1>2, <2>5, <3>1, BodyFiltersCalled
    <3> QED
      BY <3>2 DEF BodyCalled, eos, side
  <2>7. ran.state \in StateType
    BY <1>1, <1>2, <2>5, RunBodyFiltersType DEF ResultType
  <2> HIDE DEF ran
  <2>8. /\ Steady(ran.state, back, side)
        /\ back.hooks = ran.state.hooks
        /\ back.body = ran.state.body
    BY <2>7 DEF StateType, Dehydrate, Steady, Framed
  <2> HIDE DEF back
  <2>9. Steady(s, ran.state, side) /\ Steady(s, back, side)
    BY <1>1, <2>3, <2>5, <2>6, <2>8, FramedTransitive DEF Steady
  <2>10. Once(ran.state, side) /\ ran.state.hooks[side].headers = 1
    BY <2>1, <2>3, <2>5, <2>6 DEF Once
  <2>11. Bounded(ran.state, side)
    BY <2>4, <2>5, <2>6 DEF Bounded
  <2>12. (r = ran /\ Stops(ran)) \/ r = Reply(back, b)
    BY <1>4 DEF ProcessStreamedBodyChunk, back, b, ran, h, kept, len, chunk, total
  <2>13. Reply(back, b).state = back
    BY DEF Reply
  <2> HIDE DEF r
  <2>14. Ran(s, ran, side) \/ ~Stops(ran)
    BY <2>9, <2>10 DEF Ran, Steady
  <2>15. Ran(s, Reply(back, b), side)
    BY <2>1, <2>8, <2>9, <2>10, <2>11, <2>13 DEF Ran, Steady, Settled, Once, Bounded
  <2> QED
    BY <2>12, <2>14, <2>15 DEF r
<1> QED
  BY <1>3, <1>4

\* flush_streamed_body_filters, once the header filters were called.
LEMMA FlushRan ==
  ASSUME NEW c \in ChainType, NEW s \in StateType, NEW f \in Outcomes, NEW side \in Sides,
         Once(s, side), Bounded(s, side), Settled(s, side)
  PROVE  Ran(s, FlushStreamedBodyFilters(c, s, f, side), side)
<1> DEFINE h == Hydrate(s)
           ran == RunBodyFilters(c, h, side, f, 0, TRUE)
           back == Dehydrate(ran.state, s, f, FALSE)
           r == FlushStreamedBodyFilters(c, s, f, side)
<1>1. CASE \/ side = "response" /\ s.body["response"] > 0
           \/ MissingHeaders(s, side)
           \/ s.carried_context = Drained
  <2>1. r \in {Reply(s, <<Immediate>>), Fail(s, "invalid_argument"), Fail(s, "internal")}
    BY <1>1 DEF FlushStreamedBodyFilters
  <2>2. r.state = s /\ Stops(r)
    BY <2>1, ImmediateGood, FailGood DEF Fail, Reply, Errors
  <2> HIDE DEF r
  <2> QED
    BY <2>2 DEF Ran, Framed, r
<1>2. CASE /\ ~(side = "response" /\ s.body["response"] > 0)
           /\ ~MissingHeaders(s, side)
           /\ s.carried_context # Drained
  <2>1. s.hooks[side].headers = 1 /\ s.filters_executed[side]
    BY <1>2 DEF MissingHeaders, Settled, Sides
  <2>2. h \in StateType /\ Steady(s, h, side) /\ h.hooks = s.hooks /\ h.body = s.body
    BY HydrateType, HydrateSteady
  <2> HIDE DEF h
  <2>3. /\ Steady(h, ran.state, side)
        /\ ran.state.body = h.body
        /\ ran.state.hooks[side].headers = h.hooks[side].headers
        /\ ran.state.hooks[side].eos \in Nat
        /\ ran.state.hooks[side].eos > 0 \/ ran.state.hooks[side].eos = h.hooks[side].eos
    <3> DEFINE n == 0
               eos == TRUE
               t == RunBodyFilters(c, h, side, f, n, eos).state
    <3>1. n \in Nat /\ eos \in BOOLEAN
      OBVIOUS
    <3> HIDE DEF n, eos
    <3>2. BodyCalled(c, h, t, side, n, eos)
      BY <2>2, <3>1, BodyFiltersCalled
    <3> QED
      BY <3>2 DEF BodyCalled, n, eos
  <2>4. ran.state \in StateType
    BY <2>2, RunBodyFiltersType DEF ResultType
  <2> HIDE DEF ran
  <2>5. /\ Steady(ran.state, back, side)
        /\ back.hooks = ran.state.hooks
        /\ back.body = ran.state.body
    BY <2>4 DEF StateType, Dehydrate, Steady, Framed
  <2> HIDE DEF back
  <2>6. Steady(s, ran.state, side) /\ Steady(s, back, side)
    BY <2>2, <2>3, <2>5, FramedTransitive DEF Steady
  <2>7. Once(ran.state, side) /\ ran.state.hooks[side].headers = 1
    BY <2>1, <2>2, <2>3 DEF Once
  <2>8. Bounded(ran.state, side)
    BY <2>2, <2>3 DEF Bounded
  <2>9. (r = ran /\ Stops(ran)) \/ r = Reply(back, ran.out)
    BY <1>2 DEF FlushStreamedBodyFilters, back, ran, h, Stops
  <2>10. Reply(back, ran.out).state = back
    BY DEF Reply
  <2> HIDE DEF r
  <2>11. Ran(s, ran, side) \/ ~Stops(ran)
    BY <2>6, <2>7 DEF Ran, Steady
  <2>12. Ran(s, Reply(back, ran.out), side)
    BY <2>1, <2>5, <2>6, <2>7, <2>8, <2>10 DEF Ran, Steady, Settled, Once, Bounded
  <2> QED
    BY <2>9, <2>11, <2>12 DEF r
<1> QED
  BY <1>1, <1>2

-----------------------------------------------------------------------------
(* What is sent.                                                            *)

\* A filter waits for the complete response body of a STREAMED response.
Withholds(c, t) ==
  /\ c.needs["response"]
  /\ t.carried_context = "buffer"
  /\ t.mode["response"] = "streamed"
  /\ ~t.eos["response"].body

\* A response x that fits the state t it leaves behind: it claims the end of a body
\* that has ended, forwards nothing past body filters or while bytes are withheld,
\* and overrides the response mode only as the stream remembers it.
Fit(c, t, x) ==
  /\ x.eos => t.eos[x.side].body /\ t.order[x.side] = Body
  /\ x.kind = "body" /\ c.needs[x.side] /\ ~t.local_reply => x.content # "keep" \/ x.len = 0
  /\ x.side = "response" /\ Withholds(c, t) => x.len = 0
  /\ x.override => t.mode["response"] = "streamed"

Fits(c, t, o) == \A i \in DOMAIN o : Fit(c, t, o[i])

\* Responses without a body, as headers and trailers get them.
Bare(x) == x.len = 0 /\ ~x.eos /\ ~x.override

AllBare(o) == \A i \in DOMAIN o : Bare(o[i])

\* All that a hook answers by itself.
Silent(r) == r.out = <<>> \/ r.out = <<Immediate>>

\* Responses without a body fit.
LEMMA BareFits ==
  ASSUME NEW c, NEW t, NEW o, AllBare(o)
  PROVE  Fits(c, t, o)
BY DEF AllBare, Bare, Fits, Fit

\* Headers, trailers and immediate responses have none.
LEMMA BareResponses ==
  ASSUME NEW side, NEW mutation
  PROVE  /\ Bare(HeadersResponse(side, mutation))
         /\ Bare(TrailersResponse(side))
         /\ Bare(Immediate)
BY DEF Bare, HeadersResponse, TrailersResponse, Immediate, Plain

\* No answer without a body carries one.
LEMMA BareAnswers ==
  ASSUME NEW side, NEW mutation
  PROVE  /\ AllBare(<<>>)
         /\ AllBare(<<Immediate>>)
         /\ AllBare(<<HeadersResponse(side, mutation)>>)
         /\ AllBare(<<TrailersResponse(side)>>)
BY BareResponses DEF AllBare

\* What sends at most an immediate response sends no body.
LEMMA SilentBare ==
  ASSUME NEW r, Silent(r)
  PROVE  AllBare(r.out)
BY BareAnswers DEF Silent

\* The ways to end a stream are silent.
LEMMA StopsSilent ==
  ASSUME NEW s, NEW err
  PROVE  Silent(Fail(s, err)) /\ Silent(Reply(s, <<>>)) /\ Silent(Reply(s, <<Immediate>>))
BY DEF Silent, Fail, Reply

\* So are the filters.
LEMMA HookSilent ==
  ASSUME NEW s, NEW outcome
  PROVE  Silent(HookResult(s, outcome))
<1>1. HookResult(s, outcome).out \in {<<>>, <<Immediate>>}
  BY DEF HookResult, Fail, Reply
<1> QED
  BY <1>1 DEF Silent

\* Filters send an immediate response or nothing.
LEMMA FiltersSilent ==
  ASSUME NEW c, NEW s, NEW side, NEW f, NEW len, NEW eos \in BOOLEAN, NEW phase,
         NEW ordinary \in BOOLEAN
  PROVE  /\ Silent(ExecuteHeaderFilters(s, side, f))
         /\ Silent(RunBodyFilters(c, s, side, f, len, eos))
         /\ Silent(RunSelectedUpstreamBodyFilters(c, s, f))
<1>1. Silent(ExecuteHeaderFilters(s, side, f))
  BY HookSilent DEF ExecuteHeaderFilters
<1>2. Silent(RunBodyFilters(c, s, side, f, len, eos))
  BY HookSilent, StopsSilent DEF RunBodyFilters
<1>3. Silent(RunSelectedUpstreamBodyFilters(c, s, f))
  BY HookSilent, StopsSilent DEF RunSelectedUpstreamBodyFilters
<1> QED
  BY <1>1, <1>2, <1>3

\* So do the filters of the request phases.
LEMMA RequestFiltersSilent ==
  ASSUME NEW c, NEW s, NEW f, NEW phase, NEW ordinary \in BOOLEAN
  PROVE  /\ Silent(ExecuteRequestFiltersIfNeeded(s, f))
         /\ Silent(RunRequestBodyFiltersAtEos(c, s, f, phase, ordinary))
<1> DEFINE called == ExecuteHeaderFilters(s, "request", f)
           len == s.body["request"]
           u == [s EXCEPT !.body["request"] = BodyFilterLen(c, "request", f, len, TRUE)]
           body == RunBodyFilters(c, u, "request", f, len, TRUE)
           ran == IF ordinary THEN body ELSE Reply(s, <<>>)
           selected == RunSelectedUpstreamBodyFilters(c, ran.state, f)
<1>1. Silent(called) /\ Silent(selected)
  BY FiltersSilent
<1>2. ASSUME NEW eos \in BOOLEAN PROVE Silent(RunBodyFilters(c, u, "request", f, len, eos))
  BY FiltersSilent
<1>3. Silent(body)
  BY <1>2
<1>4. Silent(ran)
  BY <1>3, StopsSilent
<1>5. Silent(ExecuteRequestFiltersIfNeeded(s, f))
  BY <1>1, StopsSilent DEF ExecuteRequestFiltersIfNeeded
<1>6. RunRequestBodyFiltersAtEos(c, s, f, phase, ordinary) \in {Reply(s, <<>>), ran, selected}
  BY DEF RunRequestBodyFiltersAtEos
<1> HIDE DEF ran, selected
<1> QED
  BY <1>1, <1>4, <1>5, <1>6, StopsSilent

\* So do the filters of the response phases.
LEMMA ResponseFiltersSilent ==
  ASSUME NEW c, NEW s, NEW f, NEW phase, NEW runs \in BOOLEAN
  PROVE  Silent(ExecuteResponsePipeline(c, s, f, phase, runs))
<1> DEFINE len == s.body["response"]
           ran == IF runs THEN ExecuteHeaderFilters(s, "response", f) ELSE Reply(s, <<>>)
           u == [ran.state EXCEPT !.body["response"] = BodyFilterLen(c, "response", f, len, TRUE)]
           body == RunBodyFilters(c, u, "response", f, len, TRUE)
<1>1. Silent(ran)
  BY FiltersSilent, StopsSilent
<1>2. ASSUME NEW eos \in BOOLEAN PROVE Silent(RunBodyFilters(c, u, "response", f, len, eos))
  BY FiltersSilent
<1>3. Silent(body)
  BY <1>2
<1>4. ExecuteResponsePipeline(c, s, f, phase, runs) \in {ran, body}
  BY DEF ExecuteResponsePipeline
<1> HIDE DEF ran, body
<1> QED
  BY <1>1, <1>3, <1>4

\* body_responses: a body that is not replaced must be empty where filters see it,
\* and nothing leaves while bytes are withheld.
LEMMA BodyResponsesFit ==
  ASSUME NEW c, NEW t, NEW side \in Sides, NEW some \in BOOLEAN, NEW len, NEW held,
         NEW mutation, NEW mode, NEW eos \in BOOLEAN,
         side = "response" => t.mode["response"] = mode,
         eos => t.eos[side].body /\ t.order[side] = Body,
         c.needs[side] /\ ~t.local_reply => some \/ held = 0,
         side = "response" /\ Withholds(c, t) => (IF some THEN len ELSE held) = 0
  PROVE  Fits(c, t, BodyResponses(side, some, len, held, mutation, mode, eos))
<1> DEFINE n == IF some THEN len ELSE 0
           one == [Plain("body", side, mutation) EXCEPT
                     !.content = IF some THEN "replace" ELSE "keep",
                     !.len = IF some THEN len ELSE held]
<1>1. CASE mode = "fds"
  <2>1. ASSUME NEW k, NEW mu, NEW e \in BOOLEAN, e => eos
        PROVE  Fit(c, t, StreamedResponse(side, k, mu, e))
    <3> DEFINE x == StreamedResponse(side, k, mu, e)
    <3>1. x.side = side /\ x.content = "stream" /\ x.len = k /\ (x.eos <=> e) /\ ~x.override
      BY DEF StreamedResponse, Plain
    <3> HIDE DEF x
    <3>2. ~(side = "response" /\ Withholds(c, t))
      BY <1>1 DEF Withholds
    <3>3. Fit(c, t, x)
      BY <2>1, <3>1, <3>2 DEF Fit
    <3> QED
      BY <3>3 DEF x
  <2>2. ASSUME NEW i \in 1..Pieces(n)
        PROVE  Fit(c, t, BodyResponsesStreamed(side, n, mutation, eos)[i])
    <3>1. BodyResponsesStreamed(side, n, mutation, eos)[i] =
            StreamedResponse(side, PieceLen(n, i), IF i = 1 THEN mutation ELSE {},
                             eos /\ i = Pieces(n))
      BY DEF BodyResponsesStreamed
    <3> QED
      BY <2>1, <3>1
  <2>3. DOMAIN BodyResponsesStreamed(side, n, mutation, eos) = 1..Pieces(n)
    BY DEF BodyResponsesStreamed
  <2> QED
    BY <1>1, <2>2, <2>3 DEF BodyResponses, Fits
<1>2. CASE mode # "fds"
  <2>1. /\ one.side = side
        /\ one.content = IF some THEN "replace" ELSE "keep"
        /\ one.len = IF some THEN len ELSE held
        /\ ~one.eos
        /\ ~one.override
    BY DEF Plain
  <2>2. BodyResponses(side, some, len, held, mutation, mode, eos) = <<one>>
    BY <1>2 DEF BodyResponses
  <2> HIDE DEF one
  <2>3. Fit(c, t, one)
    BY <2>1 DEF Fit
  <2> QED
    BY <2>2, <2>3 DEF Fits
<1> QED
  BY <1>1, <1>2

\* One answer after another.
LEMMA FitsBoth ==
  ASSUME NEW c, NEW t, NEW p \in Seq(ResponseType), NEW q \in Seq(ResponseType),
         Fits(c, t, p), Fits(c, t, q)
  PROVE  Fits(c, t, p \o q)
<1> SUFFICES ASSUME NEW i \in 1..(Len(p) + Len(q)) PROVE Fit(c, t, (p \o q)[i])
  BY DEF Fits
<1>1. CASE i <= Len(p)
  BY <1>1 DEF Fits
<1>2. CASE i > Len(p)
  <2>1. (p \o q)[i] = q[i - Len(p)] /\ i - Len(p) \in DOMAIN q
    BY <1>2
  <2> QED
    BY <2>1 DEF Fits
<1> QED
  BY <1>1, <1>2

\* build_request_for_phase and build_response_for_phase: a pipeline replaces the
\* body, and a STREAMED response has no pipeline for its body.
LEMMA BuildForPhaseFits ==
  ASSUME NEW c, NEW t, NEW side \in Sides, NEW phase, NEW mutation \in Mutations,
         NEW len \in Nat, NEW mode \in BodyModes, NEW eos \in BOOLEAN,
         side = "response" => t.mode["response"] = mode,
         phase = Headers \/ (eos => t.eos[side].body /\ t.order[side] = Body),
         phase = Headers \/ side = "request" \/ mode # "streamed"
  PROVE  /\ Fits(c, t, BuildForPhase(side, phase, mutation, len, mode, eos))
         /\ phase = Headers => AllBare(BuildForPhase(side, phase, mutation, len, mode, eos))
<1> DEFINE h == <<HeadersResponse(side, mutation)>>
           b(mu) == BodyResponses(side, TRUE, len, 0, mu, mode, eos)
<1>1. AllBare(h) /\ Fits(c, t, h)
  BY BareAnswers, BareFits
<1>2. h \in Seq(ResponseType) /\ b({}) \in Seq(ResponseType)
  BY HeadersOut, MutationType, BodyResponsesType
<1>3. CASE phase = Headers
  BY <1>1, <1>3 DEF BuildForPhase
<1>4. CASE phase # Headers
  <2>1. ~(side = "response" /\ Withholds(c, t))
    BY <1>4 DEF Withholds
  <2>2. ASSUME NEW some \in BOOLEAN, some, NEW mu
        PROVE  Fits(c, t, BodyResponses(side, some, len, 0, mu, mode, eos))
    BY <1>4, <2>1, <2>2, BodyResponsesFit
  <2>3. \A mu : Fits(c, t, b(mu))
    BY <2>2
  <2> HIDE DEF h, b
  <2>4. Fits(c, t, h \o b({}))
    BY <1>1, <1>2, <2>3, FitsBoth
  <2>5. BuildForPhase(side, phase, mutation, len, mode, eos) \in {h \o b({}), b(mutation)}
    BY <1>4 DEF BuildForPhase, h, b
  <2> QED
    BY <1>4, <2>3, <2>4, <2>5
<1> QED
  BY <1>3, <1>4

\* A result whose responses fit the state it leaves behind.
Answers(c, r) == Fits(c, r.state, r.out)

\* What is silent does.
LEMMA SilentAnswers ==
  ASSUME NEW c, NEW r, Silent(r)
  PROVE  Answers(c, r) /\ AllBare(r.out)
BY SilentBare, BareFits DEF Answers

\* run_request_pipeline_inner: without a body message it answers the headers only.
LEMMA RequestPipelineAnswers ==
  ASSUME NEW c \in ChainType, NEW s \in StateType, NEW f \in Outcomes,
         NEW phase \in {Headers, Body}, NEW eos \in BOOLEAN, NEW ordinary \in BOOLEAN,
         Framed(s, RunRequestPipelineInner(c, s, f, phase, eos, ordinary).state, "request"),
         \/ phase = Headers
         \/ s.eos["request"].headers
         \/ eos => s.eos["request"].body /\ s.order["request"] = Body
  PROVE  LET r == RunRequestPipelineInner(c, s, f, phase, eos, ordinary)
         IN /\ Answers(c, r)
            /\ phase = Headers \/ s.eos["request"].headers => AllBare(r.out)
<1> DEFINE runs == ~s.filters_executed["request"]
           ran == ExecuteRequestFiltersIfNeeded(Hydrate(s), f)
           filtered == RunRequestBodyFiltersAtEos(c, ran.state, f, phase, ordinary)
           back == Dehydrate(filtered.state, s, f, runs)
           mu == HeaderMutation(runs, f)
           n == s.body["request"]
           built == BuildRequest(back, phase, mu, n, eos)
           r == RunRequestPipelineInner(c, s, f, phase, eos, ordinary)
<1>1. Silent(ran) /\ Silent(filtered)
  BY RequestFiltersSilent
<1>2. back \in StateType /\ mu \in Mutations
  <2>1. "request" \in Sides /\ runs \in BOOLEAN /\ phase \in Steps
    BY DEF Sides, Steps
  <2>2. ran.state \in StateType
    BY HydrateType, IfNeededType DEF ResultType
  <2> HIDE DEF ran, runs
  <2>3. filtered.state \in StateType
    BY <2>1, <2>2, AtEosType DEF ResultType
  <2> HIDE DEF filtered
  <2>4. mu \in Mutations
    BY DEF HeaderMutation, Mutations
  <2> QED
    BY <2>1, <2>3, <2>4, DehydrateType
<1>3. r \in {Fail(s, "invalid_argument"), Fail(s, "internal"), ran,
             Reply(ran.state, <<Immediate>>), filtered, built}
  BY DEF RunRequestPipelineInner
<1> HIDE DEF ran, filtered, back, mu, built, n
<1>4. CASE r # built
  <2>1. Silent(r)
    BY <1>1, <1>3, <1>4, StopsSilent
  <2> QED
    BY <2>1, SilentAnswers
<1>5. CASE r = built
  <2>1. CASE phase = Body /\ back.eos["request"].headers
    <3>1. built = BuildBodyless(back, mu, n)
      BY <2>1 DEF built, BuildRequest
    <3>2. \/ Silent(built)
          \/ \E x : built.out = <<HeadersResponse("request", x)>>
      BY <3>1, StopsSilent DEF BuildBodyless, Reply
    <3>3. AllBare(built.out)
      BY <3>2, SilentBare, BareAnswers
    <3> QED
      BY <1>5, <3>3, BareFits DEF Answers
  <2>2. CASE ~(phase = Body /\ back.eos["request"].headers)
    <3> DEFINE w == WithContentLength(mu, back.body["request"], n)
               o == BuildForPhase("request", phase, w, back.body["request"],
                                  back.mode["request"], eos)
    <3>1. built = Reply(back, o)
      BY <2>2 DEF built, BuildRequest
    <3>2. "request" \in Sides /\ back.body["request"] \in Nat /\ back.mode["request"] \in BodyModes
      BY <1>2 DEF StateType, Sides
    <3>3. w \in Mutations
      BY <1>2, MutationType
    <3>4. built.state = back /\ built.out = o
      BY <3>1 DEF Reply
    <3>5. back.eos = s.eos /\ back.order = s.order
      BY <1>5, <3>4 DEF Framed
    <3>6. phase = Headers \/ ~s.eos["request"].headers
      BY <2>2, <3>5
    <3> HIDE DEF w
    <3>7. Fits(c, back, o) /\ (phase = Headers => AllBare(o))
      BY <3>2, <3>3, <3>5, <3>6, BuildForPhaseFits
    <3> QED
      BY <1>5, <3>4, <3>6, <3>7 DEF Answers
  <2> QED
    BY <2>1, <2>2
<1> QED
  BY <1>4, <1>5

\* run_response_pipeline: its body phase is never that of a STREAMED response.
LEMMA ResponsePipelineAnswers ==
  ASSUME NEW c \in ChainType, NEW s \in StateType, NEW f \in Outcomes,
         NEW phase \in Steps, NEW eos \in BOOLEAN,
         Framed(s, RunResponsePipeline(c, s, f, phase, eos).state, "response"),
         \/ phase = Headers
         \/ /\ s.mode["response"] # "streamed"
            /\ eos => s.eos["response"].body /\ s.order["response"] = Body
  PROVE  LET r == RunResponsePipeline(c, s, f, phase, eos)
         IN Answers(c, r) /\ (phase = Headers => AllBare(r.out))
<1> DEFINE runs == phase = Headers \/ ~s.filters_executed["response"]
           taken == [s EXCEPT !.headers["response"] = FALSE]
           ran == ExecuteResponsePipeline(c, Hydrate(taken), f, phase, runs)
           parked == Dehydrate(ran.state, s, f, runs)
           deferred == IF phase = Body THEN parked.deferred["response"] ELSE {}
           done == [parked EXCEPT !.deferred["response"] = IF phase = Body THEN {} ELSE @]
           len == done.body["response"]
           mu == WithContentLength(deferred \cup HeaderMutation(runs, f), len,
                                   s.body["response"])
           o == BuildForPhase("response", phase, mu, len, s.mode["response"], eos)
           r == RunResponsePipeline(c, s, f, phase, eos)
<1>1. "response" \in Sides /\ runs \in BOOLEAN /\ s.mode["response"] \in BodyModes
  BY DEF Sides, StateType
<1>2. Silent(ran)
  BY <1>1, ResponseFiltersSilent
<1>3. taken \in StateType
  BY <1>1, SetFlagType
<1> HIDE DEF taken, runs
<1>4. ran.state \in StateType
  BY <1>1, <1>3, HydrateType, ResponseFiltersType DEF ResultType
<1>5. parked \in StateType
  BY <1>1, <1>4, DehydrateType
<1> HIDE DEF parked
<1>6. deferred \in Mutations /\ done \in StateType
  BY <1>1, <1>5 DEF StateType, Mutations
<1>7. mu \in Mutations
  BY <1>6, MutationType DEF Mutations
<1>8. len \in Nat
  BY <1>1, <1>6 DEF StateType
<1>9. r \in {Fail(s, "invalid_argument"), Fail(taken, "internal"), ran, Reply(done, o)}
  BY DEF RunResponsePipeline, taken, parked, runs
<1> HIDE DEF ran, mu, deferred, done
<1>10. CASE r # Reply(done, o)
  <2>1. Silent(r)
    BY <1>2, <1>9, <1>10, StopsSilent
  <2> QED
    BY <2>1, SilentAnswers
<1>11. CASE r = Reply(done, o)
  <2>1. r.state = done /\ r.out = o
    BY <1>11 DEF Reply
  <2>2. done.eos = s.eos /\ done.order = s.order /\ done.mode = s.mode
    BY <2>1 DEF Framed
  <2> HIDE DEF len
  <2>3. Fits(c, done, o) /\ (phase = Headers => AllBare(o))
    BY <1>1, <1>7, <1>8, <2>2, BuildForPhaseFits
  <2> QED
    BY <2>1, <2>3 DEF Answers
<1> QED
  BY <1>10, <1>11

\* run_request_header_filters_early and run_response_header_filters_early answer
\* the headers, at most.
LEMMA EarlyAnswers ==
  ASSUME NEW s, NEW f, NEW delivery
  PROVE  /\ AllBare(RunRequestHeaderFiltersEarly(s, f, delivery).out)
         /\ AllBare(RunResponseHeaderFiltersEarly(s, f, delivery).out)
<1>1. ASSUME NEW t, NEW side, NEW mu PROVE AllBare(Deliver(t, side, mu, delivery).out)
  BY BareAnswers DEF Deliver, Reply
<1>2. ASSUME NEW side PROVE AllBare(ExecuteHeaderFilters(Hydrate(s), side, f).out)
  BY HookSilent, SilentBare DEF ExecuteHeaderFilters
<1>3. \A t : AllBare(Fail(t, "internal").out) /\ AllBare(Reply(t, <<Immediate>>).out)
  BY StopsSilent, SilentBare
<1>4. AllBare(RunRequestHeaderFiltersEarly(s, f, delivery).out)
  BY <1>1, <1>2, <1>3 DEF RunRequestHeaderFiltersEarly
<1>5. AllBare(RunResponseHeaderFiltersEarly(s, f, delivery).out)
  BY <1>1, <1>2, <1>3 DEF RunResponseHeaderFiltersEarly
<1> QED
  BY <1>4, <1>5

\* The headers response that waits for the first chunk.
LEMMA DeferredAnswers ==
  ASSUME NEW s, NEW side
  PROVE  AllBare(DeferredHeaders(s, side))
BY BareAnswers DEF DeferredHeaders, DeferredHeaderResponse

\* passthrough_chunk, which is for directions without body filters and for local
\* replies.
LEMMA PassthroughAnswers ==
  ASSUME NEW c, NEW s \in StateType, NEW m \in MessageType,
         m.eos => s.eos[m.side].body /\ s.order[m.side] = Body,
         ~c.needs[m.side] \/ (s.local_reply /\ s.carried_context # "buffer")
  PROVE  Answers(c, PassthroughChunk(s, m))
<1> DEFINE side == m.side
           t == SendDeferredHeaders(s, side)
           mode == s.mode[side]
           h == DeferredHeaders(s, side)
           some == m.len > 0
           b == BodyResponses(side, some, m.len, m.len, {}, mode, m.eos)
<1>1. side \in Sides /\ m.len \in Nat /\ m.eos \in BOOLEAN /\ mode \in BodyModes
  BY DEF MessageType, StateType
<1>2. /\ t.mode = s.mode /\ t.eos = s.eos /\ t.order = s.order
      /\ t.local_reply = s.local_reply /\ t.carried_context = s.carried_context
  BY <1>1, DeferredSteady DEF Steady, Framed
<1>3. PassthroughChunk(s, m).state = t /\ PassthroughChunk(s, m).out = h \o b
  BY DEF PassthroughChunk, Reply
<1>4. some \in BOOLEAN /\ {} \in Mutations
  BY DEF Mutations
<1> HIDE DEF t, some
<1>5. ~(side = "response" /\ Withholds(c, t))
  BY <1>2 DEF Withholds
<1>6. Fits(c, t, b)
  BY <1>1, <1>2, <1>4, <1>5, BodyResponsesFit
<1>7. Fits(c, t, h)
  BY DeferredAnswers, BareFits
<1>8. h \in Seq(ResponseType) /\ b \in Seq(ResponseType)
  BY <1>1, <1>4, DeferredType, BodyResponsesType
<1> HIDE DEF h, b
<1>9. Fits(c, t, h \o b)
  BY <1>6, <1>7, <1>8, FitsBoth
<1> QED
  BY <1>3, <1>9 DEF Answers

\* process_streamed_body_chunk: the answer to a chunk that is withheld is empty.
LEMMA StreamedChunkAnswers ==
  ASSUME NEW c \in ChainType, NEW s \in StateType, NEW f \in Outcomes, NEW m \in MessageType,
         Framed(s, ProcessStreamedBodyChunk(c, s, f, m).state, m.side),
         m.eos => s.eos[m.side].body /\ s.order[m.side] = Body
  PROVE  Answers(c, ProcessStreamedBodyChunk(c, s, f, m))
<1> DEFINE side == m.side
           chunk == ChunkLen(s, m)
           len == BodyFilterLen(c, side, f, chunk, m.eos)
           ran == RunBodyFilters(c, Hydrate(BufferResponseChunk(s, m)), side, f, chunk, m.eos)
           back == Dehydrate(ran.state, s, f, FALSE)
           some == len > 0 \/ m.len > 0
           b == BodyResponses(side, some, len, m.len, {}, s.mode[side], m.eos)
           r == ProcessStreamedBodyChunk(c, s, f, m)
<1>1. side \in Sides /\ m.len \in Nat /\ m.eos \in BOOLEAN
  BY DEF MessageType
<1>2. chunk \in Nat
  BY <1>1 DEF ChunkLen, WithheldTotal, StateType, Sides
<1>3. len \in Nat
  BY <1>1, <1>2, BodyFilterLenType
<1>4. Silent(ran)
  BY <1>1, FiltersSilent
<1>5. back.carried_context = s.carried_context
  <2>1. Hydrate(BufferResponseChunk(s, m)) \in StateType
    BY <1>1, SetBodyType, HydrateType DEF BufferResponseChunk, WithheldTotal, StateType, Sides
  <2>2. ran.state \in StateType
    BY <1>1, <1>2, <2>1, RunBodyFiltersType DEF ResultType
  <2> HIDE DEF ran
  <2> QED
    BY <2>2 DEF Dehydrate, StateType
<1>6. ASSUME side = "response", s.carried_context = "buffer", ~m.eos PROVE len = 0
  <2>1. chunk = 0
    BY <1>6 DEF ChunkLen, Withheld
  <2> HIDE DEF chunk
  <2> QED
    BY <1>6, <2>1 DEF BodyFilterLen, BodyFiltersRun
<1>7. r \in {Fail(s, "invalid_argument"), Fail(s, "internal"),
             Fail(Hydrate(s), "resource_exhausted"), ran, Reply(back, b)}
  BY DEF ProcessStreamedBodyChunk
<1> HIDE DEF chunk, len, ran, back
<1>8. CASE r # Reply(back, b)
  <2>1. Silent(r)
    BY <1>4, <1>7, <1>8, StopsSilent
  <2> QED
    BY <2>1, SilentAnswers
<1>9. CASE r = Reply(back, b)
  <2>1. r.state = back /\ r.out = b
    BY <1>9 DEF Reply
  <2>2. back.eos = s.eos /\ back.order = s.order /\ back.mode = s.mode
    BY <2>1 DEF Framed
  <2>3. some \in BOOLEAN /\ (some \/ m.len = 0)
    BY <1>1
  <2>4. side = "response" /\ Withholds(c, back) => (IF some THEN len ELSE m.len) = 0
    BY <1>5, <1>6, <2>2, <2>3 DEF Withholds
  <2> HIDE DEF some
  <2>5. Fits(c, back, b)
    BY <1>1, <2>2, <2>3, <2>4, BodyResponsesFit
  <2> QED
    BY <2>1, <2>5 DEF Answers
<1> QED
  BY <1>8, <1>9

\* flush_streamed_body_filters has no message to put bytes into.
LEMMA FlushAnswers ==
  ASSUME NEW c, NEW s, NEW f, NEW side
  PROVE  Silent(FlushStreamedBodyFilters(c, s, f, side))
<1> DEFINE ran(eos) == RunBodyFilters(c, Hydrate(s), side, f, 0, eos)
           r == FlushStreamedBodyFilters(c, s, f, side)
<1>1. \A eos \in BOOLEAN : Silent(ran(eos))
  BY FiltersSilent
<1>2. Silent(ran(TRUE))
  BY <1>1
<1>3. \/ r \in {Reply(s, <<Immediate>>), Fail(s, "invalid_argument"),
                Fail(s, "internal"), ran(TRUE)}
      \/ r.out = ran(TRUE).out
  BY DEF FlushStreamedBodyFilters, Reply
<1> HIDE DEF ran, r
<1>4. Silent(r)
  BY <1>2, <1>3, StopsSilent DEF Silent
<1> QED
  BY <1>4 DEF r

-----------------------------------------------------------------------------
(* What handlers leave behind.                                              *)

\* A message of one direction leaves the phase order, as dispatch_request set it,
\* and the other direction alone.
Apart(s, t, side) ==
  /\ t.order = s.order
  /\ t.local_reply = s.local_reply
  /\ \A o \in Sides \ {side} :
       /\ t.headers[o] = s.headers[o]
       /\ t.filters_executed[o] = s.filters_executed[o]
       /\ t.hooks[o] = s.hooks[o]
       /\ t.body[o] = s.body[o]
       /\ t.deferred[o] = s.deferred[o]

\* A state that a handler made of s before it runs filters or answers.
Prepared(s, t, side) ==
  /\ Apart(s, t, side)
  /\ t.mode = s.mode
  /\ t.streamed_request_bytes <= Limit

\* The result of a handler: it ends the stream, or leaves its direction in order.
\* Served leaves room for an override of the response mode.
Served(s, r, side) ==
  /\ Apart(s, r.state, side)
  /\ r.state.mode["request"] = s.mode["request"]
  /\ r.state.streamed_request_bytes <= Limit
  /\ Once(r.state, side)
  /\ Stops(r) \/ (Calls(r.state, side) /\ r.state.headers["request"])

Handled(s, r, side) == Served(s, r, side) /\ r.state.mode = s.mode

\* Only protocol bookkeeping differs between s and t.
Unmoved(s, t) ==
  /\ t.order = s.order
  /\ t.local_reply = s.local_reply
  /\ t.mode = s.mode
  /\ t.streamed_request_bytes = s.streamed_request_bytes
  /\ t.headers = s.headers
  /\ t.filters_executed = s.filters_executed
  /\ t.hooks = s.hooks
  /\ t.body = s.body
  /\ t.deferred = s.deferred
  /\ t.carried_context = s.carried_context

\* check_and_mark, mark_complete and the flags of a direction are bookkeeping.
LEMMA Bookkeeping ==
  ASSUME NEW s \in StateType, NEW m, NEW side \in Sides, NEW b
  PROVE  /\ Unmoved(s, MarkHeaders(s, m))
         /\ Unmoved(s, MarkBody(s, m))
         /\ Unmoved(s, CloseBody(s, side))
         /\ Unmoved(s, [s EXCEPT !.headers_sent[side] = TRUE])
         /\ Unmoved(s, [s EXCEPT !.body_receipt[side] = TRUE])
         /\ Unmoved(s, [s EXCEPT !.buffered_request_body_processed = b])
BY DEF StateType, Unmoved, MarkHeaders, MarkBody, CloseBody

\* check_and_mark records the end of stream.
LEMMA EndsMarked ==
  ASSUME NEW s \in StateType, NEW m \in MessageType, m.eos
  PROVE  MarkHeaders(s, m).eos[m.side].headers /\ MarkBody(s, m).eos[m.side].body
<1> DEFINE e == s.eos[m.side]
<1>1. m.side \in Sides /\ e \in EosType
  BY DEF MessageType, StateType
<1>2. ASSUME NEW x PROVE [s EXCEPT !.eos[m.side] = x].eos[m.side] = x
  BY <1>1 DEF StateType
<1>3. /\ MarkHeaders(s, m).eos[m.side] = HeadersEnd(e, m.eos)
      /\ MarkBody(s, m).eos[m.side] = BodyEnds(e, m.eos)
  BY <1>2 DEF MarkHeaders, MarkBody
<1>4. HeadersEnd(e, m.eos).headers /\ BodyEnds(e, m.eos).body
  BY <1>1 DEF EosType, HeadersEnd, BodyEnds
<1> QED
  BY <1>3, <1>4

\* Bookkeeping keeps what is known of a direction.
LEMMA UnmovedKeeps ==
  ASSUME NEW s, NEW t, Unmoved(s, t), NEW side \in Sides
  PROVE  /\ Apart(s, t, side)
         /\ s.streamed_request_bytes <= Limit => Prepared(s, t, side)
         /\ Calls(s, side) => Calls(t, side)
         /\ Fresh(s, side) => Fresh(t, side)
         /\ Once(s, side) => Once(t, side)
         /\ Bounded(s, side) => Bounded(t, side)
         /\ Settled(s, side) => Settled(t, side)
BY DEF Unmoved, Apart, Prepared, Calls, Fresh, Once, Bounded, Settled

\* What two steps do not move, both do not move.
LEMMA UnmovedTransitive ==
  ASSUME NEW s, NEW t, NEW u, Unmoved(s, t), Unmoved(t, u)
  PROVE  Unmoved(s, u)
BY DEF Unmoved

\* A direction of which nothing was processed is in order.
LEMMA FreshCalls ==
  ASSUME NEW s, NEW side \in Sides, Fresh(s, side)
  PROVE  Once(s, side) /\ Bounded(s, side) /\ Calls(s, side)
BY LimitAssumption DEF Fresh, Once, Bounded, Calls

\* A handler may return what a pipeline returned,
LEMMA HandledByPipeline ==
  ASSUME NEW s, NEW t, NEW r, NEW side \in Sides, Prepared(s, t, side),
         t.headers["request"], Ran(t, r, side)
  PROVE  Handled(s, r, side)
<1>1. Apart(s, r.state, side)
  BY DEF Prepared, Apart, Ran, Framed
<1>2. /\ r.state.mode = s.mode
      /\ r.state.streamed_request_bytes <= Limit
      /\ r.state.headers["request"]
      /\ Once(r.state, side)
  BY DEF Prepared, Ran, Framed
<1>3. Stops(r) \/ Calls(r.state, side)
  BY DEF Ran, Calls, Settled
<1> QED
  BY <1>1, <1>2, <1>3 DEF Handled, Served

\* may answer from a state that is in order,
LEMMA HandledByAnswer ==
  ASSUME NEW s, NEW t, NEW r, NEW side \in Sides, Prepared(s, t, side),
         t.headers["request"], Calls(t, side), r.state = t
  PROVE  Handled(s, r, side)
BY DEF Handled, Served, Prepared, Calls

\* or may end the stream.
LEMMA HandledByStop ==
  ASSUME NEW s, NEW t, NEW r, NEW side \in Sides, Prepared(s, t, side), Once(t, side),
         r.state = t, Stops(r)
  PROVE  Handled(s, r, side)
BY DEF Handled, Served, Prepared

\* The ways to end a stream.
LEMMA WaysToStop ==
  ASSUME NEW s \in StateType
  PROVE  /\ Stops(Fail(s, "invalid_argument")) /\ Fail(s, "invalid_argument").state = s
         /\ Stops(Fail(s, "internal")) /\ Fail(s, "internal").state = s
         /\ Stops(Fail(s, "resource_exhausted")) /\ Fail(s, "resource_exhausted").state = s
         /\ Stops(Reply(s, <<Immediate>>)) /\ Reply(s, <<Immediate>>).state = s
BY FailGood, ImmediateGood DEF Errors, Fail, Reply

\* passthrough_chunk calls nothing and holds nothing.
LEMMA PassthroughKeeps ==
  ASSUME NEW s \in StateType, NEW m \in MessageType
  PROVE  LET t == PassthroughChunk(s, m).state
         IN /\ Steady(s, t, m.side)
            /\ t.hooks = s.hooks
            /\ t.body = s.body
            /\ t.carried_context = s.carried_context
            /\ s.deferred[m.side] = {} => t.deferred[m.side] = {}
<1>1. m.side \in Sides
  BY DEF MessageType
<1>2. PassthroughChunk(s, m).state = SendDeferredHeaders(s, m.side)
  BY DEF PassthroughChunk, Reply
<1> QED
  BY <1>1, <1>2, DeferredSteady

\* A step that moves neither the flags nor the calls nor the bytes of the direction
\* keeps it in order.
LEMMA SteadyCalls ==
  ASSUME NEW s, NEW t, NEW side \in Sides, Steady(s, t, side),
         t.hooks = s.hooks, t.body = s.body, Calls(s, side)
  PROVE  Calls(t, side)
BY DEF Steady, Framed, Calls, Once, Bounded

\* The response mode changes only together with an override that Envoy is sent.
Announced(s, r) == r.state.mode = s.mode \/ \E i \in DOMAIN r.out : r.out[i].override

\* apply_response_mode_override changes nothing but the response mode, and never
\* revives a stream that ends.
LEMMA OverrideServed ==
  ASSUME NEW s, NEW c, NEW r \in ResultType, NEW m, Handled(s, r, "request"), AllBare(r.out)
  PROVE  LET x == ApplyResponseModeOverride(c, r, m)
         IN Served(s, x, "request") /\ Answers(c, x) /\ Announced(s, x)
<1> DEFINE t == [r.state EXCEPT !.mode["response"] = "streamed"]
           o == [i \in DOMAIN r.out |-> WithOverride(r.out[i])]
<1>1. "request" \in Sides /\ r.state \in StateType /\ r.out \in Seq(ResponseType)
  BY DEF Sides, ResultType
<1>2. /\ Apart(r.state, t, "request")
      /\ t.mode["request"] = r.state.mode["request"]
      /\ t.streamed_request_bytes = r.state.streamed_request_bytes
      /\ t.headers = r.state.headers
      /\ t.hooks = r.state.hooks
      /\ t.body = r.state.body
      /\ t.filters_executed = r.state.filters_executed
  BY <1>1 DEF StateType, Apart, Sides
<1> HIDE DEF t
<1>3. ASSUME r.err = "none", Stops(r) PROVE Stops(Reply(t, o))
  <2>1. PICK i \in DOMAIN r.out : IsImmediate(r.out[i])
    BY <1>3 DEF Stops, HasImmediate
  <2>2. r.out[i] \in ResponseType
    BY <1>1, <2>1
  <2>3. IsImmediate(WithOverride(r.out[i]))
    BY <2>1, <2>2 DEF IsImmediate, WithOverride, ResponseType
  <2>4. HasImmediate(o)
    BY <2>1, <2>3 DEF HasImmediate
  <2> QED
    BY <2>4 DEF Stops, Reply
<1>4. ASSUME r.err = "none" PROVE Served(s, Reply(t, o), "request")
  <2>1. Reply(t, o).state = t
    BY DEF Reply
  <2>2. Apart(s, t, "request")
    BY <1>2 DEF Handled, Served, Apart
  <2>3. Once(t, "request") /\ (Calls(r.state, "request") => Calls(t, "request"))
    BY <1>2 DEF Handled, Served, Once, Calls, Bounded
  <2> HIDE DEF o
  <2> QED
    BY <1>2, <1>3, <1>4, <2>1, <2>2, <2>3 DEF Handled, Served
<1>5. Answers(c, Reply(t, o))
  <2>1. t.mode["response"] = "streamed"
    BY <1>1 DEF StateType, Sides, t
  <2>2. ASSUME NEW i \in DOMAIN r.out PROVE Fit(c, t, o[i])
    <3>1. o[i] = WithOverride(r.out[i]) /\ r.out[i] \in ResponseType /\ Bare(r.out[i])
      BY <1>1 DEF AllBare
    <3>2. o[i].len = 0 /\ ~o[i].eos
      BY <3>1 DEF WithOverride, ResponseType, Bare
    <3> QED
      BY <2>1, <3>2 DEF Fit
  <2>3. Reply(t, o).state = t /\ Reply(t, o).out = o
    BY DEF Reply
  <2> HIDE DEF o
  <2> QED
    BY <2>2, <2>3 DEF Answers, Fits, o
<1>6. ASSUME \E i \in DOMAIN r.out : IsRequestHeaders(r.out[i])
      PROVE  Announced(s, Reply(t, o))
  <2>1. PICK i \in DOMAIN r.out : IsRequestHeaders(r.out[i])
    BY <1>6
  <2>2. r.out[i] \in ResponseType
    BY <1>1, <2>1
  <2>3. WithOverride(r.out[i]).override
    BY <2>1, <2>2 DEF WithOverride, ResponseType, IsRequestHeaders
  <2>4. o[i].override /\ i \in DOMAIN o /\ Reply(t, o).out = o
    BY <2>1, <2>3 DEF Reply
  <2> HIDE DEF o
  <2> QED
    BY <2>4 DEF Announced
<1>7. Served(s, r, "request") /\ Answers(c, r) /\ Announced(s, r)
  BY BareFits DEF Handled, Answers, Announced
<1>8. \/ ApplyResponseModeOverride(c, r, m) = r
      \/ /\ ApplyResponseModeOverride(c, r, m) = Reply(t, o)
         /\ r.err = "none"
         /\ \E i \in DOMAIN r.out : IsRequestHeaders(r.out[i])
  BY DEF ApplyResponseModeOverride, t
<1> QED
  BY <1>4, <1>5, <1>6, <1>7, <1>8

\* handle_request_headers, on the first message of the direction.
LEMMA RequestHeadersServed ==
  ASSUME NEW c \in ChainType, NEW s \in LiveState, NEW f \in Outcomes, Allowed(c, f),
         NEW m \in MessageType, m.side = "request", Fresh(s, "request"),
         s.streamed_request_bytes <= Limit
  PROVE  LET r == HandleRequestHeaders(c, s, f, m)
         IN Served(s, r, "request") /\ Answers(c, r) /\ Announced(s, r)
<1> DEFINE marked == MarkHeaders(s, m)
           parsed == [marked EXCEPT !.headers["request"] = TRUE]
           sent == [parsed EXCEPT !.headers_sent["request"] = TRUE]
           mode == s.mode["request"]
           handled == IF m.eos THEN HandleEndStreamRequestHeaders(c, parsed, f)
                      ELSE HandleRequestHeadersWithBody(c, parsed, f)
           r == HandleRequestHeaders(c, s, f, m)
           Ok(x) == Handled(s, x, "request") /\ AllBare(x.out)
           Fine(x) == Served(s, x, "request") /\ Answers(c, x) /\ Announced(s, x)
<1>1. "request" \in Sides /\ Headers \in Steps /\ Body \in Steps /\ s \in StateType
  BY DEF Sides, Steps, LiveState
<1>2. marked \in LiveState /\ Unmoved(s, marked)
  BY <1>1, LiveUpdates, Bookkeeping
<1> HIDE DEF marked
<1>3. /\ Prepared(s, marked, "request")
      /\ Fresh(marked, "request")
      /\ marked.mode = s.mode
  BY <1>1, <1>2, UnmovedKeeps DEF Unmoved
<1>4. parsed \in LiveState
  BY <1>1, <1>2, LiveUpdates
<1>5. /\ parsed.headers["request"]
      /\ Prepared(s, parsed, "request")
      /\ ~parsed.filters_executed["request"]
      /\ parsed.hooks["request"] = marked.hooks["request"]
      /\ parsed.body["request"] = marked.body["request"]
      /\ parsed.mode = s.mode
  <2>1. marked \in StateType
    BY <1>2 DEF LiveState
  <2> QED
    BY <1>1, <1>3, <2>1 DEF StateType, Prepared, Apart, Fresh
<1>6. m.eos => parsed.eos["request"].headers
  <2>1. m.eos => marked.eos["request"].headers
    BY <1>1, EndsMarked DEF marked
  <2>2. marked \in StateType
    BY <1>2 DEF LiveState
  <2> QED
    BY <2>1, <2>2 DEF StateType
<1> HIDE DEF parsed
<1>7. /\ Once(parsed, "request")
      /\ Bounded(parsed, "request")
      /\ parsed.hooks["request"].headers = 0
      /\ mode # "streamed" => Calls(parsed, "request")
  BY <1>3, <1>5, LimitAssumption DEF Fresh, Once, Bounded, Calls
<1>8. parsed \in StateType /\ ~MissingHeaders(parsed, "request")
  BY <1>4, <1>5 DEF LiveState, MissingHeaders
<1>9. sent \in LiveState /\ Unmoved(parsed, sent)
  BY <1>1, <1>4, <1>8, LiveUpdates, Bookkeeping
<1> HIDE DEF sent
<1>10. /\ Prepared(s, sent, "request")
       /\ Once(sent, "request")
       /\ Bounded(sent, "request")
       /\ sent.hooks["request"].headers = 0
       /\ sent.headers["request"]
       /\ mode # "streamed" => Calls(sent, "request")
       /\ sent \in StateType
       /\ ~MissingHeaders(sent, "request")
  BY <1>1, <1>5, <1>7, <1>9, UnmovedKeeps
  DEF Unmoved, Prepared, Apart, LiveState, MissingHeaders
<1>11. ASSUME m.eos PROVE Ok(HandleEndStreamRequestHeaders(c, parsed, f))
  <2>1. parsed.filters_executed["request"] <=> parsed.hooks["request"].headers = 1
    BY <1>5, <1>7
  <2>2. ASSUME NEW phase \in {Headers, Body}, NEW eos \in BOOLEAN, NEW ordinary \in BOOLEAN
        PROVE  Ok(RunRequestPipelineInner(c, parsed, f, phase, eos, ordinary))
    <3> DEFINE x == RunRequestPipelineInner(c, parsed, f, phase, eos, ordinary)
    <3>1. phase \in Steps
      BY DEF Steps
    <3>2. Ran(parsed, x, "request")
      BY <1>7, <1>8, <2>1, <3>1, RequestPipelineRan
    <3>3. Framed(parsed, x.state, "request")
      BY <3>2 DEF Ran
    <3>4. AllBare(x.out)
      BY <1>6, <1>8, <1>11, <3>3, RequestPipelineAnswers
    <3> HIDE DEF x
    <3>5. Handled(s, x, "request")
      BY <1>1, <1>5, <3>2, HandledByPipeline
    <3> QED
      BY <3>4, <3>5 DEF x
  <2>3. /\ Ok(RunRequestPipelineInner(c, parsed, f, Headers, TRUE, TRUE))
        /\ Ok(RunRequestPipelineInner(c, parsed, f, Body, TRUE, FALSE))
    BY <2>2
  <2> HIDE DEF Ok
  <2> QED
    BY <2>3 DEF HandleEndStreamRequestHeaders, RunRequestPipeline,
                RunBodylessSelectedUpstreamPipeline
<1>12. Ok(HandleUnsupportedSelected(parsed, f))
  <2> DEFINE ran == RunRequestHeaderFiltersEarly(parsed, f, "silent")
  <2>1. Ran(parsed, ran, "request")
    BY <1>1, <1>7, <1>8, EarlyRan
  <2>2. Handled(s, ran, "request")
    BY <1>1, <1>5, <2>1, HandledByPipeline
  <2>3. ran.state \in StateType
    BY <1>4, <1>8, EarlyGood DEF LiveState, Good, ResultType
  <2> HIDE DEF ran
  <2>4. Stops(Reply(ran.state, <<Immediate>>)) /\ Reply(ran.state, <<Immediate>>).state = ran.state
    BY <2>3, WaysToStop
  <2>5. Handled(s, Reply(ran.state, <<Immediate>>), "request")
    BY <2>2, <2>4 DEF Handled, Served
  <2>6. AllBare(ran.out) /\ AllBare(Reply(ran.state, <<Immediate>>).out)
    BY EarlyAnswers, StopsSilent, SilentBare DEF ran
  <2> HIDE DEF Ok
  <2>7. Ok(ran) /\ Ok(Reply(ran.state, <<Immediate>>))
    BY <2>2, <2>5, <2>6 DEF Ok
  <2> QED
    BY <2>7 DEF HandleUnsupportedSelected, ran
<1>13. Ok(HandleRequestHeadersWithBody(c, parsed, f))
  <2> DEFINE early == RunRequestHeaderFiltersEarly(sent, f, "send")
             silent == RunRequestHeaderFiltersEarly(parsed, f, "silent")
             ack == Reply(sent, <<HeadersResponse("request", {})>>)
             quiet == Reply(parsed, <<>>)
             x == HandleRequestHeadersWithBody(c, parsed, f)
  <2>1. /\ Ran(sent, early, "request")
        /\ Ran(parsed, silent, "request")
    <3>1. Ran(sent, early, "request")
      BY <1>1, <1>10, EarlyRan
    <3>2. Ran(parsed, silent, "request")
      BY <1>1, <1>7, <1>8, EarlyRan
    <3> QED
      BY <3>1, <3>2
  <2>2. AllBare(early.out) /\ AllBare(silent.out)
    BY EarlyAnswers
  <2> HIDE DEF early, silent
  <2>3. /\ Handled(s, early, "request")
        /\ Handled(s, silent, "request")
    <3>1. Handled(s, early, "request")
      BY <1>1, <1>10, <2>1, HandledByPipeline
    <3>2. Handled(s, silent, "request")
      BY <1>1, <1>5, <2>1, HandledByPipeline
    <3> QED
      BY <3>1, <3>2
  <2>4. ack.state = sent /\ quiet.state = parsed
    BY DEF Reply
  <2>5. AllBare(ack.out) /\ AllBare(quiet.out)
    BY BareAnswers DEF Reply
  <2> HIDE DEF ack, quiet
  <2>6. /\ mode # "streamed" => Handled(s, ack, "request")
        /\ mode # "streamed" => Handled(s, quiet, "request")
    <3>1. mode # "streamed" => Handled(s, ack, "request")
      BY <1>1, <1>10, <2>4, HandledByAnswer
    <3>2. mode # "streamed" => Handled(s, quiet, "request")
      BY <1>1, <1>5, <1>7, <2>4, HandledByAnswer
    <3> QED
      BY <3>1, <3>2
  <2>7. \/ x \in {HandleUnsupportedSelected(parsed, f), early, silent}
        \/ x \in {ack, quiet} /\ mode # "streamed"
    BY <1>5 DEF HandleRequestHeadersWithBody, sent, early, silent, ack, quiet
  <2> HIDE DEF x
  <2>8. Ok(x)
    BY <1>12, <2>2, <2>3, <2>5, <2>6, <2>7
  <2> QED
    BY <2>8 DEF x
<1>14. Ok(handled)
  BY <1>11, <1>13
<1>15. handled \in ResultType
  BY <1>4, ParsedRequestGood DEF Good
<1> HIDE DEF handled
<1>16. Fine(ApplyResponseModeOverride(c, handled, m))
  BY <1>14, <1>15, OverrideServed
<1>17. /\ Ok(Fail(s, "invalid_argument"))
       /\ Ok(Reply(marked, <<Immediate>>))
       /\ Ok(Reply(parsed, <<Immediate>>))
  <2>1. Prepared(s, s, "request") /\ Once(s, "request") /\ Once(marked, "request")
    BY <1>1, <1>3, FreshCalls DEF Prepared, Apart
  <2>2. marked \in StateType
    BY <1>2 DEF LiveState
  <2>3. /\ Handled(s, Fail(s, "invalid_argument"), "request")
        /\ Handled(s, Reply(marked, <<Immediate>>), "request")
        /\ Handled(s, Reply(parsed, <<Immediate>>), "request")
    BY <1>1, <1>3, <1>5, <1>7, <1>8, <2>1, <2>2, WaysToStop, HandledByStop
  <2> QED
    BY <2>3, StopsSilent, SilentBare
<1>18. ASSUME NEW x, Ok(x) PROVE Fine(x)
  BY <1>18, BareFits DEF Handled, Answers, Announced
<1>19. r \in {Fail(s, "invalid_argument"), Reply(marked, <<Immediate>>),
              Reply(parsed, <<Immediate>>), ApplyResponseModeOverride(c, handled, m)}
  BY DEF HandleRequestHeaders, marked, parsed, handled
<1> HIDE DEF Ok, Fine, r
<1>20. Fine(r)
  BY <1>16, <1>17, <1>18, <1>19
<1> QED
  BY <1>20 DEF Fine, r

\* The request pipeline as body and trailers handlers call it.
LEMMA RequestPipelineHandled ==
  ASSUME NEW c \in ChainType, NEW s, NEW t \in StateType, NEW f \in Outcomes, Allowed(c, f),
         NEW phase \in {Headers, Body}, NEW eos \in BOOLEAN,
         Prepared(s, t, "request"), t.headers["request"], Calls(t, "request"),
         eos => t.eos["request"].body /\ t.order["request"] = Body
  PROVE  LET r == RunRequestPipeline(c, t, f, phase, eos)
         IN Handled(s, r, "request") /\ Answers(c, r)
<1>1. "request" \in Sides /\ phase \in Steps
  BY DEF Sides, Steps
<1>2. /\ Once(t, "request")
      /\ Bounded(t, "request")
      /\ t.filters_executed["request"] <=> t.hooks["request"].headers = 1
  BY DEF Calls
<1>3. TRUE \in BOOLEAN
  OBVIOUS
<1>4. Ran(t, RunRequestPipeline(c, t, f, phase, eos), "request")
  BY <1>1, <1>2, <1>3, RequestPipelineRan DEF RunRequestPipeline
<1>5. Answers(c, RunRequestPipeline(c, t, f, phase, eos))
  <2>1. ASSUME NEW ordinary \in BOOLEAN,
               Framed(t, RunRequestPipelineInner(c, t, f, phase, eos, ordinary).state, "request")
        PROVE  Answers(c, RunRequestPipelineInner(c, t, f, phase, eos, ordinary))
    BY <2>1, RequestPipelineAnswers
  <2> QED
    BY <1>4, <2>1 DEF RunRequestPipeline, Ran
<1> QED
  BY <1>1, <1>4, <1>5, HandledByPipeline

\* The response pipeline as body and trailers handlers call it.
LEMMA ResponsePipelineHandled ==
  ASSUME NEW c \in ChainType, NEW s, NEW t \in StateType, NEW f \in Outcomes,
         NEW eos \in BOOLEAN,
         Prepared(s, t, "response"), t.headers["request"], Calls(t, "response"),
         t.mode["response"] # "streamed",
         eos => t.eos["response"].body /\ t.order["response"] = Body
  PROVE  LET r == RunResponsePipeline(c, t, f, Body, eos)
         IN Handled(s, r, "response") /\ Answers(c, r)
<1>1. "response" \in Sides /\ Body \in Steps /\ Body # Headers
  BY DEF Sides, Steps, Body, Headers
<1>2. /\ Once(t, "response")
      /\ Bounded(t, "response")
      /\ t.headers["response"] =>
           (t.filters_executed["response"] <=> t.hooks["response"].headers = 1)
  BY DEF Calls
<1>3. Ran(t, RunResponsePipeline(c, t, f, Body, eos), "response")
  BY <1>1, <1>2, ResponsePipelineRan
<1>4. Framed(t, RunResponsePipeline(c, t, f, Body, eos).state, "response")
  BY <1>3 DEF Ran
<1>5. Answers(c, RunResponsePipeline(c, t, f, Body, eos))
  BY <1>1, <1>4, ResponsePipelineAnswers
<1> QED
  BY <1>1, <1>3, <1>5, HandledByPipeline

\* What is accumulated after check_body_limit stays within the limit.
LEMMA AddedCalls ==
  ASSUME NEW s \in StateType, NEW side \in Sides, NEW n \in Nat, Calls(s, side),
         ~ExceedsBodyLimit(s.body[side], n), s.streamed_request_bytes <= Limit
  PROVE  LET t == [s EXCEPT !.body[side] = @ + n]
         IN /\ t \in StateType
            /\ Prepared(s, t, side)
            /\ Calls(t, side)
            /\ t.headers = s.headers
            /\ t.eos = s.eos /\ t.order = s.order
<1> DEFINE k == s.body[side] + n
           t == [s EXCEPT !.body[side] = k]
<1>1. k \in Nat /\ k <= Limit
  BY LimitAssumption DEF StateType, ExceedsBodyLimit
<1> HIDE DEF k
<1>2. t \in StateType
  BY <1>1, SetBodyType
<1>3. /\ Steady(s, t, side)
      /\ t.hooks = s.hooks
      /\ t.headers = s.headers
      /\ t.body[side] = k
  BY OwnUpdates DEF StateType
<1>4. [s EXCEPT !.body[side] = @ + n] = t
  BY DEF k
<1> HIDE DEF t
<1>5. Prepared(s, t, side) /\ Calls(t, side) /\ t.eos = s.eos /\ t.order = s.order
  BY <1>1, <1>3 DEF Prepared, Apart, Steady, Framed, Calls, Once, Bounded
<1> QED
  BY <1>2, <1>3, <1>4, <1>5

\* handle_request_body, when its direction is in order.
LEMMA RequestBodyHandled ==
  ASSUME NEW c \in ChainType, NEW s \in LiveState, NEW f \in Outcomes, Allowed(c, f),
         NEW m \in MessageType, m.side = "request", Calls(s, "request"),
         s.headers["request"], s.streamed_request_bytes <= Limit, s.order["request"] = Body
  PROVE  LET r == HandleRequestBody(c, s, f, m)
         IN Handled(s, r, "request") /\ Answers(c, r)
<1> DEFINE seen == [s EXCEPT !.body_receipt["request"] = TRUE]
           marked == MarkBody(seen, m)
           mode == s.mode["request"]
           r == HandleRequestBody(c, s, f, m)
           Ok(x) == Handled(s, x, "request") /\ Answers(c, x)
<1>1. "request" \in Sides /\ Body \in Steps /\ m.len \in Nat /\ m.eos \in BOOLEAN
      /\ s \in StateType
  BY DEF Sides, Steps, MessageType, LiveState
<1>2. seen \in StateType /\ Unmoved(s, seen)
  BY <1>1, LiveUpdates, Bookkeeping DEF LiveState
<1> HIDE DEF seen
<1>3. marked \in StateType /\ Unmoved(s, marked)
  <2>1. marked \in StateType /\ Unmoved(seen, marked)
    BY <1>1, <1>2, MarkType, Bookkeeping
  <2> QED
    BY <1>2, <2>1, UnmovedTransitive
<1>4. m.eos => marked.eos["request"].body
  BY <1>1, <1>2, EndsMarked
<1> HIDE DEF marked
<1>5. /\ Prepared(s, seen, "request") /\ Calls(seen, "request") /\ seen.headers["request"]
      /\ Prepared(s, marked, "request") /\ Calls(marked, "request")
      /\ marked.headers["request"] /\ marked.mode = s.mode
      /\ marked.streamed_request_bytes <= Limit /\ marked.order["request"] = Body
  BY <1>1, <1>2, <1>3, UnmovedKeeps DEF Unmoved
<1>6. ASSUME NEW t \in StateType, Prepared(s, t, "request"), Calls(t, "request")
      PROVE  /\ Ok(Fail(t, "invalid_argument"))
             /\ Ok(Reply(t, <<Immediate>>))
  BY <1>1, <1>6, WaysToStop, HandledByStop, StopsSilent, SilentAnswers DEF Calls
<1>7. ASSUME NEW t \in StateType, Prepared(s, t, "request"), Calls(t, "request"),
             t.headers["request"]
      PROVE  Ok(Reply(t, <<>>))
  BY <1>1, <1>7, QuietReply, HandledByAnswer, StopsSilent, SilentAnswers
<1>8. Ok(RedeliveredBody(seen, m)) /\ Ok(Fail(seen, "invalid_argument"))
  BY <1>2, <1>5, <1>6, <1>7 DEF RedeliveredBody
<1>9. ASSUME mode = "streamed" \/ ~c.needs["request"]
      PROVE  Ok(ForwardRequestChunk(c, marked, f, m))
  <2> DEFINE n == marked.streamed_request_bytes + m.len
             counted == [marked EXCEPT !.streamed_request_bytes = n]
             x == ForwardRequestChunk(c, marked, f, m)
  <2>1. CASE ExceedsBodyLimit(marked.streamed_request_bytes, m.len)
    <3>1. x = Reply(marked, <<Immediate>>)
      BY <2>1 DEF ForwardRequestChunk
    <3> QED
      BY <1>3, <1>5, <1>6, <3>1
  <2>2. CASE ~ExceedsBodyLimit(marked.streamed_request_bytes, m.len)
    <3>1. n \in Nat /\ n <= Limit
      BY <1>1, <1>3, <2>2, LimitAssumption DEF StateType, ExceedsBodyLimit
    <3>2. x = IF c.needs["request"] THEN ProcessStreamedBodyChunk(c, counted, f, m)
              ELSE PassthroughChunk(counted, m)
      BY <2>2 DEF ForwardRequestChunk
    <3> HIDE DEF n, x
    <3>3. counted \in StateType
      BY <1>3, <3>1 DEF StateType
    <3>4. Prepared(s, counted, "request") /\ Calls(counted, "request")
          /\ counted.headers["request"] /\ counted.mode = s.mode
          /\ counted.eos = marked.eos /\ counted.order = marked.order
      BY <1>3, <1>5, <3>1 DEF StateType, Prepared, Apart, Calls, Once, Bounded
    <3> HIDE DEF counted
    <3>5. CASE c.needs["request"]
      <4>1. Once(counted, m.side) /\ Bounded(counted, m.side) /\ Settled(counted, m.side)
        BY <1>9, <3>4, <3>5 DEF Calls, Settled
      <4>2. Ran(counted, ProcessStreamedBodyChunk(c, counted, f, m), "request")
        BY <3>3, <4>1, StreamedChunkRan
      <4>3. Handled(s, x, "request")
        BY <1>1, <3>2, <3>4, <3>5, <4>2, HandledByPipeline
      <4>4. Framed(counted, ProcessStreamedBodyChunk(c, counted, f, m).state, m.side)
        BY <4>2 DEF Ran
      <4>5. Answers(c, ProcessStreamedBodyChunk(c, counted, f, m))
        BY <1>4, <1>5, <3>3, <3>4, <4>4, StreamedChunkAnswers
      <4> QED
        BY <3>2, <3>5, <4>3, <4>5 DEF x
    <3>6. CASE ~c.needs["request"]
      <4> DEFINE t == PassthroughChunk(counted, m).state
      <4>1. Steady(counted, t, "request") /\ t.hooks = counted.hooks /\ t.body = counted.body
        BY <3>3, PassthroughKeeps
      <4> HIDE DEF t
      <4>2. Calls(t, "request") /\ t.headers["request"]
        BY <1>1, <3>4, <4>1, SteadyCalls DEF Steady
      <4>3. Prepared(s, t, "request")
        BY <3>4, <4>1 DEF Prepared, Apart, Steady, Framed
      <4>4. x.state = t
        BY <3>2, <3>6 DEF t
      <4>5. Handled(s, x, "request")
        BY <1>1, <4>2, <4>3, <4>4, HandledByAnswer
      <4>6. Answers(c, PassthroughChunk(counted, m))
        BY <1>4, <1>5, <3>3, <3>4, <3>6, PassthroughAnswers
      <4> QED
        BY <3>2, <3>6, <4>5, <4>6 DEF x
    <3> QED
      BY <3>5, <3>6
  <2> QED
    BY <2>1, <2>2
<1>10. Ok(AccumulateRequestBody(c, marked, f, m))
  <2> DEFINE buffered == marked.mode["request"] = "buffered"
             added == [marked EXCEPT !.body["request"] = @ + m.len]
             run == [added EXCEPT !.buffered_request_body_processed = buffered]
             x == AccumulateRequestBody(c, marked, f, m)
  <2>1. CASE ExceedsBodyLimit(marked.body["request"], m.len)
    <3>1. x = Reply(marked, <<Immediate>>)
      BY <2>1 DEF AccumulateRequestBody
    <3> QED
      BY <1>3, <1>5, <1>6, <3>1
  <2>2. CASE ~ExceedsBodyLimit(marked.body["request"], m.len)
    <3>1. /\ added \in StateType
          /\ Prepared(marked, added, "request")
          /\ Calls(added, "request")
          /\ added.headers = marked.headers
          /\ added.eos = marked.eos /\ added.order = marked.order
      BY <1>1, <1>3, <1>5, <2>2, AddedCalls
    <3>2. x = Reply(added, <<>>) \/ x = RunRequestPipeline(c, run, f, Body, m.eos)
      BY <2>2 DEF AccumulateRequestBody
    <3> HIDE DEF added, x
    <3>3. Prepared(s, added, "request") /\ added.headers["request"]
      BY <1>5, <3>1 DEF Prepared, Apart
    <3>4. run \in StateType /\ Unmoved(added, run) /\ run.eos = added.eos /\ run.order = added.order
      BY <3>1 DEF StateType, Unmoved
    <3> HIDE DEF run
    <3>5. Prepared(s, run, "request") /\ Calls(run, "request") /\ run.headers["request"]
      BY <1>1, <3>1, <3>3, <3>4, UnmovedKeeps DEF Unmoved, Prepared, Apart
    <3>6. Ok(Reply(added, <<>>)) /\ Ok(RunRequestPipeline(c, run, f, Body, m.eos))
      BY <1>1, <1>4, <1>5, <1>7, <3>1, <3>3, <3>4, <3>5, RequestPipelineHandled
    <3> QED
      BY <3>2, <3>6 DEF x
  <2> QED
    BY <2>1, <2>2
<1>11. \/ r \in {RedeliveredBody(seen, m), Fail(seen, "invalid_argument"),
                 AccumulateRequestBody(c, marked, f, m)}
       \/ /\ r = ForwardRequestChunk(c, marked, f, m)
          /\ mode = "streamed" \/ ~c.needs["request"]
  BY DEF HandleRequestBody, seen, marked
<1> HIDE DEF r, Ok
<1>12. Ok(r)
  BY <1>8, <1>9, <1>10, <1>11
<1> QED
  BY <1>12 DEF Ok, r

\* handle_response_headers, on the first message of the direction.
LEMMA ResponseHeadersHandled ==
  ASSUME NEW c \in ChainType, NEW s \in LiveState, NEW f \in Outcomes,
         NEW m \in MessageType, m.side = "response", Fresh(s, "response"),
         s.headers["request"], s.streamed_request_bytes <= Limit
  PROVE  LET r == HandleResponseHeaders(c, s, f, m)
         IN Handled(s, r, "response") /\ Answers(c, r)
<1> DEFINE marked == MarkHeaders(s, m)
           parsed == [marked EXCEPT !.headers["response"] = TRUE]
           sent == [parsed EXCEPT !.headers_sent["response"] = TRUE]
           mode == s.mode["response"]
           delivery == IF mode = "fds" THEN "silent" ELSE "ack"
           r == HandleResponseHeaders(c, s, f, m)
           Ok(x) == Handled(s, x, "response") /\ Answers(c, x)
<1>1. "response" \in Sides /\ Headers \in Steps /\ s \in StateType
  BY DEF Sides, Steps, LiveState
<1>2. marked \in StateType /\ Unmoved(s, marked)
  BY <1>1, MarkType, Bookkeeping
<1> HIDE DEF marked
<1>3. /\ Prepared(s, marked, "response")
      /\ Fresh(marked, "response")
      /\ marked.headers["request"]
      /\ marked.mode = s.mode
  BY <1>1, <1>2, UnmovedKeeps DEF Unmoved
<1>4. parsed \in StateType
  BY <1>1, <1>2, SetFlagType
<1>5. /\ parsed.headers["response"]
      /\ parsed.headers["request"]
      /\ Prepared(s, parsed, "response")
      /\ ~parsed.filters_executed["response"]
      /\ parsed.hooks["response"] = marked.hooks["response"]
      /\ parsed.body["response"] = marked.body["response"]
      /\ parsed.mode = s.mode
  BY <1>1, <1>2, <1>3 DEF StateType, Prepared, Apart, Fresh, Sides
<1> HIDE DEF parsed
<1>6. /\ Once(parsed, "response")
      /\ Bounded(parsed, "response")
      /\ parsed.hooks["response"].headers = 0
      /\ mode # "streamed" => Calls(parsed, "response")
      /\ ~MissingHeaders(parsed, "response")
  BY <1>3, <1>5, LimitAssumption DEF Fresh, Once, Bounded, Calls, MissingHeaders
<1>7. sent \in StateType /\ Unmoved(parsed, sent)
  BY <1>1, <1>4, SetFlagType, Bookkeeping
<1> HIDE DEF sent
<1>8. /\ Prepared(s, sent, "response")
      /\ Once(sent, "response")
      /\ Bounded(sent, "response")
      /\ sent.hooks["response"].headers = 0
      /\ sent.headers["request"]
      /\ ~MissingHeaders(sent, "response")
  BY <1>1, <1>5, <1>6, <1>7, UnmovedKeeps DEF Unmoved, Prepared, Apart, MissingHeaders
<1>9. Ok(RunResponsePipeline(c, parsed, f, Headers, TRUE))
  <2>1. parsed.filters_executed["response"] <=> parsed.hooks["response"].headers = 1
    BY <1>5, <1>6
  <2>2. ASSUME NEW eos \in BOOLEAN
        PROVE  Ran(parsed, RunResponsePipeline(c, parsed, f, Headers, eos), "response")
    BY <1>1, <1>4, <1>5, <1>6, <2>1, ResponsePipelineRan
  <2>3. Ran(parsed, RunResponsePipeline(c, parsed, f, Headers, TRUE), "response")
    BY <2>2
  <2>4. ASSUME NEW eos \in BOOLEAN
        PROVE  Answers(c, RunResponsePipeline(c, parsed, f, Headers, eos))
    <3>1. Framed(parsed, RunResponsePipeline(c, parsed, f, Headers, eos).state, "response")
      BY <2>2 DEF Ran
    <3> QED
      BY <1>1, <1>4, <3>1, ResponsePipelineAnswers
  <2>5. Answers(c, RunResponsePipeline(c, parsed, f, Headers, TRUE))
    BY <2>4
  <2> QED
    BY <1>1, <1>5, <2>3, <2>5, HandledByPipeline
<1>10. /\ Ok(RunResponseHeaderFiltersEarly(sent, f, "send"))
       /\ Ok(RunResponseHeaderFiltersEarly(parsed, f, delivery))
  <2>1. /\ Ran(sent, RunResponseHeaderFiltersEarly(sent, f, "send"), "response")
        /\ Ran(parsed, RunResponseHeaderFiltersEarly(parsed, f, delivery), "response")
    BY <1>1, <1>4, <1>6, <1>7, <1>8, EarlyRan
  <2>2. /\ Answers(c, RunResponseHeaderFiltersEarly(sent, f, "send"))
        /\ Answers(c, RunResponseHeaderFiltersEarly(parsed, f, delivery))
    BY EarlyAnswers, BareFits DEF Answers
  <2> QED
    BY <1>1, <1>5, <1>8, <2>1, <2>2, HandledByPipeline
<1>11. ASSUME mode # "streamed", NEW o, AllBare(o) PROVE Ok(Reply(parsed, o))
  <2>1. Reply(parsed, o).state = parsed /\ Reply(parsed, o).out = o
    BY DEF Reply
  <2>2. Answers(c, Reply(parsed, o))
    BY <1>11, <2>1, BareFits DEF Answers
  <2> QED
    BY <1>1, <1>5, <1>6, <1>11, <2>1, <2>2, HandledByAnswer
<1>12. Ok(Fail(s, "invalid_argument"))
  <2>1. Prepared(s, s, "response") /\ Once(s, "response")
    BY <1>1, FreshCalls DEF Prepared, Apart
  <2> QED
    BY <1>1, <2>1, WaysToStop, HandledByStop, StopsSilent, SilentAnswers
<1>13. \/ r \in {Fail(s, "invalid_argument"), RunResponsePipeline(c, parsed, f, Headers, TRUE),
                 RunResponseHeaderFiltersEarly(sent, f, "send"),
                 RunResponseHeaderFiltersEarly(parsed, f, delivery)}
       \/ mode # "streamed" /\ \E o : AllBare(o) /\ r = Reply(parsed, o)
  BY BareAnswers DEF HandleResponseHeaders, sent, parsed, marked
<1> HIDE DEF r, Ok
<1>14. Ok(r)
  BY <1>9, <1>10, <1>11, <1>12, <1>13
<1> QED
  BY <1>14 DEF Ok, r

\* handle_response_body, when its direction is in order.
LEMMA ResponseBodyHandled ==
  ASSUME NEW c \in ChainType, NEW s \in LiveState, NEW f \in Outcomes,
         NEW m \in MessageType, m.side = "response", Calls(s, "response"),
         s.headers["request"], s.streamed_request_bytes <= Limit, s.order["response"] = Body
  PROVE  LET r == HandleResponseBody(c, s, f, m)
         IN Handled(s, r, "response") /\ Answers(c, r)
<1> DEFINE seen == [s EXCEPT !.body_receipt["response"] = TRUE]
           marked == MarkBody(seen, m)
           mode == s.mode["response"]
           r == HandleResponseBody(c, s, f, m)
           Ok(x) == Handled(s, x, "response") /\ Answers(c, x)
<1>1. "response" \in Sides /\ m.len \in Nat /\ s \in StateType
  BY DEF Sides, MessageType, LiveState
<1>2. seen \in StateType /\ Unmoved(s, seen)
  BY <1>1, SetFlagType, Bookkeeping
<1> HIDE DEF seen
<1>3. marked \in StateType /\ Unmoved(s, marked)
  <2>1. marked \in StateType /\ Unmoved(seen, marked)
    BY <1>1, <1>2, MarkType, Bookkeeping
  <2> QED
    BY <1>2, <2>1, UnmovedTransitive
<1>4. m.eos => marked.eos["response"].body
  BY <1>1, <1>2, EndsMarked
<1> HIDE DEF marked
<1>5. /\ Prepared(s, seen, "response") /\ Calls(seen, "response") /\ seen.headers["request"]
      /\ Prepared(s, marked, "response") /\ Calls(marked, "response")
      /\ marked.headers["request"] /\ marked.mode = s.mode
      /\ marked.streamed_request_bytes <= Limit /\ marked.order["response"] = Body
  BY <1>1, <1>2, <1>3, UnmovedKeeps DEF Unmoved
<1>6. ASSUME NEW t \in StateType, Prepared(s, t, "response"), Calls(t, "response")
      PROVE  /\ Ok(Fail(t, "invalid_argument"))
             /\ Ok(Fail(t, "resource_exhausted"))
  BY <1>1, <1>6, WaysToStop, HandledByStop, StopsSilent, SilentAnswers DEF Calls
<1>7. ASSUME NEW t \in StateType, Prepared(s, t, "response"), Calls(t, "response"),
             t.headers["request"]
      PROVE  Ok(Reply(t, <<>>))
  BY <1>1, <1>7, QuietReply, HandledByAnswer, StopsSilent, SilentAnswers
<1>8. Ok(RedeliveredBody(seen, m)) /\ Ok(Fail(seen, "invalid_argument"))
  BY <1>2, <1>5, <1>6, <1>7 DEF RedeliveredBody
<1>9. ASSUME ~c.needs["response"] PROVE Ok(PassthroughChunk(marked, m))
  <2> DEFINE x == PassthroughChunk(marked, m)
             t == x.state
  <2>1. Steady(marked, t, "response") /\ t.hooks = marked.hooks /\ t.body = marked.body
    BY <1>3, PassthroughKeeps
  <2> HIDE DEF x
  <2>2. Calls(t, "response") /\ t.headers["request"]
    BY <1>1, <1>5, <2>1, SteadyCalls DEF Steady, Framed
  <2>3. Prepared(s, t, "response")
    BY <1>5, <2>1 DEF Prepared, Apart, Steady, Framed
  <2>4. Handled(s, x, "response")
    BY <1>1, <2>2, <2>3, HandledByAnswer
  <2>5. Answers(c, PassthroughChunk(marked, m))
    BY <1>3, <1>4, <1>5, <1>9, PassthroughAnswers
  <2> QED
    BY <2>4, <2>5 DEF x
<1>10. ASSUME mode = "streamed" PROVE Ok(ProcessStreamedBodyChunk(c, marked, f, m))
  <2>1. Once(marked, m.side) /\ Bounded(marked, m.side) /\ Settled(marked, m.side)
    BY <1>5, <1>10 DEF Calls, Settled
  <2>2. Ran(marked, ProcessStreamedBodyChunk(c, marked, f, m), "response")
    BY <1>3, <2>1, StreamedChunkRan
  <2>3. Framed(marked, ProcessStreamedBodyChunk(c, marked, f, m).state, m.side)
    BY <2>2 DEF Ran
  <2>4. Answers(c, ProcessStreamedBodyChunk(c, marked, f, m))
    BY <1>3, <1>4, <1>5, <2>3, StreamedChunkAnswers
  <2> QED
    BY <1>1, <1>5, <2>2, <2>4, HandledByPipeline
<1>11. ASSUME mode # "streamed" PROVE Ok(AccumulateResponseBody(c, marked, f, m))
  <2> DEFINE added == [marked EXCEPT !.body["response"] = @ + m.len]
             x == AccumulateResponseBody(c, marked, f, m)
  <2>1. CASE ExceedsBodyLimit(marked.body["response"], m.len)
    <3>1. x = Fail(marked, "resource_exhausted")
      BY <2>1 DEF AccumulateResponseBody
    <3> QED
      BY <1>3, <1>5, <1>6, <3>1
  <2>2. CASE ~ExceedsBodyLimit(marked.body["response"], m.len)
    <3>1. /\ added \in StateType
          /\ Prepared(marked, added, "response")
          /\ Calls(added, "response")
          /\ added.headers = marked.headers
          /\ added.eos = marked.eos /\ added.order = marked.order
      BY <1>1, <1>3, <1>5, <2>2, AddedCalls
    <3>2. x = Reply(added, <<>>) \/ (m.eos /\ x = RunResponsePipeline(c, added, f, Body, TRUE))
      BY <2>2 DEF AccumulateResponseBody
    <3> HIDE DEF added, x
    <3>3. Prepared(s, added, "response") /\ added.headers["request"]
          /\ added.mode["response"] # "streamed"
      BY <1>5, <1>11, <3>1 DEF Prepared, Apart
    <3>4. ASSUME NEW eos \in BOOLEAN, m.eos
          PROVE  Ok(RunResponsePipeline(c, added, f, Body, eos))
      BY <1>4, <1>5, <3>1, <3>3, <3>4, ResponsePipelineHandled
    <3>5. Ok(Reply(added, <<>>)) /\ (m.eos => Ok(RunResponsePipeline(c, added, f, Body, TRUE)))
      BY <1>7, <3>1, <3>3, <3>4
    <3> QED
      BY <3>2, <3>5 DEF x
  <2> QED
    BY <2>1, <2>2
<1>12. \/ r \in {RedeliveredBody(seen, m), Fail(seen, "invalid_argument")}
       \/ r = PassthroughChunk(marked, m) /\ ~c.needs["response"]
       \/ r = ProcessStreamedBodyChunk(c, marked, f, m) /\ mode = "streamed"
       \/ r = AccumulateResponseBody(c, marked, f, m) /\ mode # "streamed"
  BY DEF HandleResponseBody, seen, marked
<1> HIDE DEF r, Ok
<1>13. Ok(r)
  BY <1>8, <1>9, <1>10, <1>11, <1>12
<1> QED
  BY <1>13 DEF Ok, r

\* handle_trailers, when its direction is in order.
LEMMA TrailersHandled ==
  ASSUME NEW c \in ChainType, NEW s \in LiveState, NEW f \in Outcomes, Allowed(c, f),
         NEW side \in Sides, Calls(s, side), s.headers["request"],
         s.streamed_request_bytes <= Limit
  PROVE  LET r == HandleTrailers(c, s, f, side)
         IN Handled(s, r, side) /\ Answers(c, r)
<1> DEFINE closed == CloseBody(s, side)
           trailing == RunTrailingBodyPipeline(c, closed, f, side)
           mode == s.mode[side]
           r == FinalizeBodyOnTrailers(c, s, f, side)
           Ok(x) == Handled(s, x, side) /\ Answers(c, x)
<1>1. s \in StateType /\ Body \in Steps
  BY DEF LiveState, Steps
<1>2. closed \in StateType /\ Unmoved(s, closed)
  BY <1>1, CloseBodyType, Bookkeeping
<1> HIDE DEF closed
<1>3. /\ Prepared(s, s, side)
      /\ Prepared(s, closed, side)
      /\ Calls(closed, side)
      /\ closed.headers["request"]
      /\ closed.mode = s.mode
  BY <1>2, UnmovedKeeps DEF Unmoved, Prepared, Apart
<1>4. ASSUME NEW t \in StateType, Prepared(s, t, side), Calls(t, side), t.headers["request"]
      PROVE  Ok(Reply(t, <<>>))
  BY <1>4, QuietReply, HandledByAnswer, StopsSilent, SilentAnswers
<1>5. ASSUME mode # "streamed" PROVE Ok(trailing)
  <2>1. ASSUME NEW eos \in BOOLEAN, ~eos, side = "request"
        PROVE  Ok(RunRequestPipeline(c, closed, f, Body, eos))
    BY <1>1, <1>2, <1>3, <2>1, RequestPipelineHandled
  <2>2. ASSUME NEW eos \in BOOLEAN, ~eos, side = "response"
        PROVE  Ok(RunResponsePipeline(c, closed, f, Body, eos))
    BY <1>2, <1>3, <1>5, <2>2, ResponsePipelineHandled
  <2>3. CASE side = "request"
    BY <2>1, <2>3 DEF RunTrailingBodyPipeline
  <2>4. CASE side = "response"
    BY <2>2, <2>4 DEF RunTrailingBodyPipeline
  <2> QED
    BY <2>3, <2>4 DEF Sides
<1>6. trailing \in ResultType /\ (Stops(trailing) \/ trailing.out # <<>>)
  <2>1. closed \in LiveState
    BY <1>2 DEF LiveState, Live, Unmoved
  <2>2. Good(trailing) /\ (Stops(trailing) \/ trailing.out # <<>>)
    BY <1>1, <2>1, RequestPipelineGood, ResponsePipelineGood
    DEF LiveState, RunTrailingBodyPipeline, RunRequestPipeline
  <2> QED
    BY <2>2 DEF Good
<1> HIDE DEF trailing
<1>7. ASSUME NEW x \in ResultType, NEW o, ~Stops(x), Ok(x), Fits(c, x.state, o)
      PROVE  Ok([x EXCEPT !.out = o])
  <2>1. [x EXCEPT !.out = o].state = x.state /\ [x EXCEPT !.out = o].out = o
    BY DEF ResultType
  <2>2. Handled(s, [x EXCEPT !.out = o], side)
    BY <1>7, <2>1 DEF Handled, Served
  <2> QED
    BY <1>7, <2>1, <2>2 DEF Answers
<1>8. ASSUME mode # "streamed" PROVE Ok(RunTrailingFdsBody(c, closed, f, side))
  <2> DEFINE head == <<Head(trailing.out)>>
  <2>1. ASSUME ~Stops(trailing) PROVE Fits(c, trailing.state, head)
    <3>1. trailing.out \in Seq(ResponseType) /\ trailing.out # <<>>
      BY <1>6, <2>1 DEF ResultType
    <3>2. 1 \in DOMAIN trailing.out /\ Head(trailing.out) = trailing.out[1]
      BY <3>1
    <3>3. Fit(c, trailing.state, Head(trailing.out))
      BY <1>5, <1>8, <3>2 DEF Answers, Fits
    <3> QED
      BY <3>3 DEF Fits
  <2> HIDE DEF head, Ok
  <2>2. ~Stops(trailing) => Ok([trailing EXCEPT !.out = head])
    BY <1>5, <1>6, <1>7, <1>8, <2>1
  <2>3. \/ RunTrailingFdsBody(c, closed, f, side) = trailing
        \/ /\ ~Stops(trailing)
           /\ RunTrailingFdsBody(c, closed, f, side) = [trailing EXCEPT !.out = head]
    BY DEF RunTrailingFdsBody, trailing, head
  <2> QED
    BY <1>5, <1>8, <2>2, <2>3
<1>9. ASSUME mode # "streamed" PROVE Ok(RunTrailingBufferedBody(c, closed, f, side))
  <2>1. Fits(c, trailing.state, <<>>)
    BY BareAnswers, BareFits
  <2> HIDE DEF Ok
  <2> QED
    BY <1>5, <1>6, <1>7, <1>9, <2>1 DEF RunTrailingBufferedBody, trailing
<1>10. ASSUME mode = "streamed" PROVE Ok(FlushStreamedBodyFilters(c, closed, f, side))
  <2>1. Once(closed, side) /\ Bounded(closed, side) /\ Settled(closed, side)
    BY <1>3, <1>10 DEF Calls, Settled
  <2>2. Ran(closed, FlushStreamedBodyFilters(c, closed, f, side), side)
    BY <1>2, <2>1, FlushRan
  <2> QED
    BY <1>3, <2>2, HandledByPipeline, FlushAnswers, SilentAnswers
<1>11. Ok(FlushDeferredFdsHeaders(closed, side))
  <2> DEFINE t == SendDeferredHeaders(closed, side)
  <2>1. Steady(closed, t, side) /\ t.hooks = closed.hooks /\ t.body = closed.body
    BY <1>2, DeferredSteady
  <2>2. FlushDeferredFdsHeaders(closed, side).state = t
    BY DEF FlushDeferredFdsHeaders, Reply
  <2> HIDE DEF t
  <2>3. Calls(t, side) /\ t.headers["request"]
    BY <1>3, <2>1, SteadyCalls DEF Steady, Framed
  <2>4. Prepared(s, t, side)
    BY <1>3, <2>1 DEF Prepared, Apart, Steady, Framed
  <2>5. Answers(c, FlushDeferredFdsHeaders(closed, side))
    BY DeferredAnswers, BareFits DEF Answers, FlushDeferredFdsHeaders, Reply
  <2> QED
    BY <2>2, <2>3, <2>4, <2>5, HandledByAnswer
<1>12. \/ r \in {Reply(s, <<>>), Reply(closed, <<>>), FlushDeferredFdsHeaders(closed, side)}
       \/ /\ r \in {RunTrailingFdsBody(c, closed, f, side),
                      RunTrailingBufferedBody(c, closed, f, side)}
          /\ mode # "streamed"
       \/ r = FlushStreamedBodyFilters(c, closed, f, side) /\ mode = "streamed"
  BY DEF FinalizeBodyOnTrailers, closed
<1>13. r \in ResultType
  BY FinalizeGood DEF Good
<1> HIDE DEF r, Ok
<1>14. Ok(r)
  BY <1>1, <1>2, <1>3, <1>4, <1>8, <1>9, <1>10, <1>11, <1>12
<1>15. Fits(c, r.state, Append(r.out, TrailersResponse(side)))
  <2>1. Append(r.out, TrailersResponse(side)) = r.out \o <<TrailersResponse(side)>>
    BY <1>13 DEF ResultType
  <2>2. r.out \in Seq(ResponseType) /\ <<TrailersResponse(side)>> \in Seq(ResponseType)
    BY <1>13, PlainType DEF ResultType, TrailersResponse, Mutations
  <2>3. Fits(c, r.state, <<TrailersResponse(side)>>)
    BY BareAnswers, BareFits
  <2> QED
    BY <1>14, <2>1, <2>2, <2>3, FitsBoth DEF Ok, Answers
<1>16. Ok(HandleTrailers(c, s, f, side))
  BY <1>7, <1>13, <1>14, <1>15 DEF HandleTrailers, r
<1> QED
  BY <1>16 DEF Ok

-----------------------------------------------------------------------------
(* dispatch_request.                                                        *)

\* What is known of the direction that a message is not about stays true.
LEMMA ApartKeeps ==
  ASSUME NEW s, NEW t, NEW side \in Sides, NEW o \in Sides \ {side}, Apart(s, t, side)
  PROVE  /\ Fresh(s, o) => Fresh(t, o)
         /\ Once(s, o) => Once(t, o)
         /\ Calls(s, o) /\ t.mode = s.mode => Calls(t, o)
BY DEF Apart, Fresh, Once, Calls, Bounded

\* check_and_advance moves the phase order, and nothing else.
LEMMA AdvanceKeeps ==
  ASSUME NEW s \in StateType, NEW m \in MessageType
  PROVE  LET a == Advance(s, m)
         IN /\ a.order[m.side] = m.step
            /\ \A o \in Sides \ {m.side} : a.order[o] = s.order[o]
            /\ a.local_reply <=>
                 (s.local_reply \/ (m.side = "response" /\ s.order["request"] = Unseen))
            /\ a.mode = s.mode
            /\ a.streamed_request_bytes = s.streamed_request_bytes
            /\ a.carried_context = s.carried_context
            /\ \A side \in Sides : /\ Fresh(s, side) => Fresh(a, side)
                                   /\ Calls(s, side) => Calls(a, side)
            /\ a.headers = s.headers
<1>1. m.side \in Sides
  BY DEF MessageType
<1>2. LET a == Advance(s, m)
      IN /\ a.order[m.side] = m.step
         /\ \A o \in Sides \ {m.side} : a.order[o] = s.order[o]
         /\ a.mode = s.mode
         /\ a.streamed_request_bytes = s.streamed_request_bytes
         /\ a.carried_context = s.carried_context
         /\ a.headers = s.headers
         /\ a.filters_executed = s.filters_executed
         /\ a.hooks = s.hooks
         /\ a.body = s.body
         /\ a.deferred = s.deferred
  BY <1>1 DEF StateType, Advance
<1>3. Advance(s, m).local_reply <=>
        (s.local_reply \/ (m.side = "response" /\ s.order["request"] = Unseen))
  BY DEF StateType, Advance
<1> HIDE DEF Advance
<1> QED
  BY <1>2, <1>3 DEF Fresh, Calls, Once, Bounded

\* local_reply_passthrough touches neither the flags nor the filters nor the bytes.
LEMMA LocalReplyKeeps ==
  ASSUME NEW s \in StateType, NEW m \in MessageType, m.side = "response",
         s.deferred["response"] = {}
  PROVE  Unmoved(s, LocalReplyPassthrough(s, m).state)
<1>1. "response" \in Sides
  BY DEF Sides
<1>2. Unmoved(s, s)
  BY DEF Unmoved
<1>3. Unmoved(s, LocalReplyHeaders(s, m).state)
  <2> DEFINE marked == MarkHeaders(s, m)
             sent == [marked EXCEPT !.headers_sent["response"] = TRUE]
  <2>1. marked \in StateType /\ Unmoved(s, marked)
    BY <1>1, MarkType, Bookkeeping
  <2> HIDE DEF marked
  <2>2. Unmoved(marked, sent)
    BY <1>1, <2>1, Bookkeeping
  <2> HIDE DEF sent
  <2>3. Unmoved(s, sent)
    BY <2>1, <2>2, UnmovedTransitive
  <2>4. LocalReplyHeaders(s, m).state \in {s, marked, sent}
    BY DEF LocalReplyHeaders, Fail, Reply, marked, sent
  <2> QED
    BY <1>2, <2>1, <2>3, <2>4
<1>4. Unmoved(s, LocalReplyBody(s, m).state)
  <2> DEFINE marked == MarkBody(s, m)
             passed == SendDeferredHeaders(marked, "response")
  <2>1. marked \in StateType /\ Unmoved(s, marked)
    BY <1>1, MarkType, Bookkeeping
  <2>2. marked.deferred["response"] = {}
    BY <2>1 DEF Unmoved
  <2> HIDE DEF marked
  <2>3. Unmoved(marked, passed)
    BY <1>1, <2>1, <2>2 DEF SendDeferredHeaders, StateType, Unmoved
  <2>4. LocalReplyBody(s, m).state \in {s, marked, passed}
    BY DEF LocalReplyBody, RedeliveredBody, PassthroughChunk, Fail, Reply, marked, passed
  <2> HIDE DEF passed
  <2>5. Unmoved(s, passed)
    BY <2>1, <2>3, UnmovedTransitive
  <2> QED
    BY <1>2, <2>1, <2>4, <2>5
<1>5. \/ LocalReplyPassthrough(s, m) \in {LocalReplyHeaders(s, m), LocalReplyBody(s, m)}
      \/ LocalReplyPassthrough(s, m).state = s
  BY DEF LocalReplyPassthrough, Reply
<1> QED
  BY <1>2, <1>3, <1>4, <1>5

\* Responses that leave what Envoy holds as it is, and the exchange open.
Passed(o) ==
  \A i \in DOMAIN o : ~IsImmediate(o[i]) /\ o[i].content # "replace" /\ o[i].mutation = {}

\* body_responses without a replacement: streamed pieces, or what Envoy holds.
LEMMA BodyPasses ==
  ASSUME NEW side, NEW some \in BOOLEAN, NEW len, NEW held, NEW mode, NEW eos \in BOOLEAN,
         ~some \/ mode = "fds"
  PROVE  Passed(BodyResponses(side, some, len, held, {}, mode, eos))
<1> DEFINE n == IF some THEN len ELSE 0
           one == [Plain("body", side, {}) EXCEPT
                     !.content = IF some THEN "replace" ELSE "keep",
                     !.len = IF some THEN len ELSE held]
<1>1. CASE mode = "fds"
  <2>1. ASSUME NEW k, NEW e \in BOOLEAN
        PROVE  LET x == StreamedResponse(side, k, {}, e)
               IN ~IsImmediate(x) /\ x.content # "replace" /\ x.mutation = {}
    BY DEF StreamedResponse, Plain, IsImmediate
  <2>2. ASSUME NEW i \in 1..Pieces(n)
        PROVE  BodyResponsesStreamed(side, n, {}, eos)[i] =
                 StreamedResponse(side, PieceLen(n, i), {}, eos /\ i = Pieces(n))
    BY DEF BodyResponsesStreamed
  <2>3. DOMAIN BodyResponsesStreamed(side, n, {}, eos) = 1..Pieces(n)
    BY DEF BodyResponsesStreamed
  <2>4. ASSUME NEW i \in 1..Pieces(n)
        PROVE  LET x == BodyResponsesStreamed(side, n, {}, eos)[i]
               IN ~IsImmediate(x) /\ x.content # "replace" /\ x.mutation = {}
    BY <2>1, <2>2
  <2>5. Passed(BodyResponsesStreamed(side, n, {}, eos))
    BY <2>3, <2>4 DEF Passed
  <2> QED
    BY <1>1, <2>5 DEF BodyResponses
<1>2. CASE mode # "fds"
  <2>1. ~IsImmediate(one) /\ one.content # "replace" /\ one.mutation = {}
    BY <1>2 DEF Plain, IsImmediate
  <2>2. BodyResponses(side, some, len, held, {}, mode, eos) = <<one>>
    BY <1>2 DEF BodyResponses
  <2> HIDE DEF one
  <2> QED
    BY <2>1, <2>2 DEF Passed
<1> QED
  BY <1>1, <1>2

\* So do nothing, plain headers and trailers responses, and one after another.
LEMMA PlainPasses ==
  ASSUME NEW side
  PROVE  /\ Passed(<<>>)
         /\ Passed(<<HeadersResponse(side, {})>>)
         /\ Passed(<<TrailersResponse(side)>>)
<1>1. \A x \in {HeadersResponse(side, {}), TrailersResponse(side)} :
        ~IsImmediate(x) /\ x.content # "replace" /\ x.mutation = {}
  BY DEF HeadersResponse, TrailersResponse, Plain, IsImmediate
<1> QED
  BY <1>1 DEF Passed

\* Two lists of answers that pass through make one.
LEMMA PassedBoth ==
  ASSUME NEW p \in Seq(ResponseType), NEW q \in Seq(ResponseType), Passed(p), Passed(q)
  PROVE  Passed(p \o q)
<1> SUFFICES ASSUME NEW i \in 1..(Len(p) + Len(q))
             PROVE  LET x == (p \o q)[i]
                    IN ~IsImmediate(x) /\ x.content # "replace" /\ x.mutation = {}
  BY DEF Passed
<1>1. CASE i <= Len(p)
  <2>1. (p \o q)[i] = p[i] /\ i \in DOMAIN p
    BY <1>1
  <2> QED
    BY <2>1 DEF Passed
<1>2. CASE i > Len(p)
  <2>1. (p \o q)[i] = q[i - Len(p)] /\ i - Len(p) \in DOMAIN q
    BY <1>2
  <2> QED
    BY <2>1 DEF Passed
<1> QED
  BY <1>1, <1>2

\* local_reply_passthrough answers every phase without a mutation.
LEMMA LocalReplyAnswers ==
  ASSUME NEW c, NEW s \in StateType, NEW m \in MessageType, m.side = "response",
         s.local_reply, s.carried_context = "stream", s.deferred["response"] = {},
         s.order["response"] = m.step
  PROVE  LET r == LocalReplyPassthrough(s, m)
         IN Answers(c, r) /\ Passed(r.out)
<1> DEFINE Ok(x) == Answers(c, x) /\ Passed(x.out)
           marked == MarkBody(s, m)
           mode == s.mode["response"]
           some == m.len > 0
           d == DeferredHeaders(marked, "response")
           b == BodyResponses("response", some, m.len, m.len, {}, mode, m.eos)
           k(none) == BodyResponses("response", none, 0, m.len, {}, mode, m.eos)
<1>1. "response" \in Sides /\ m.len \in Nat /\ m.eos \in BOOLEAN /\ some \in BOOLEAN
      /\ mode \in BodyModes /\ {} \in Mutations
  BY DEF Sides, MessageType, StateType, Mutations
<1>2. marked \in StateType /\ Unmoved(s, marked) /\ (m.eos => marked.eos["response"].body)
  BY <1>1, MarkType, Bookkeeping, EndsMarked
<1> HIDE DEF marked
<1>3. ASSUME NEW t, NEW o, AllBare(o), Passed(o) PROVE Ok(Reply(t, o))
  BY <1>3, BareFits DEF Answers, Reply
<1>4. ASSUME NEW t, NEW err PROVE Ok(Fail(t, err))
  BY StopsSilent, SilentAnswers, PlainPasses DEF Fail
<1>5. /\ \A t : Ok(Reply(t, <<>>))
      /\ \A t : Ok(Reply(t, <<HeadersResponse("response", {})>>))
      /\ \A t : Ok(Reply(t, <<TrailersResponse("response")>>))
  BY <1>3, BareAnswers, PlainPasses
<1>6. Ok(LocalReplyHeaders(s, m))
  BY <1>4, <1>5 DEF LocalReplyHeaders
<1>7. ASSUME m.step = Body, mode = "fds" PROVE Ok(PassthroughChunk(marked, m))
  <2>1. Answers(c, PassthroughChunk(marked, m))
    BY <1>1, <1>2, <1>7, PassthroughAnswers DEF Unmoved
  <2>2. PassthroughChunk(marked, m).out = d \o b
    BY <1>2 DEF PassthroughChunk, Reply, Unmoved
  <2>3. Passed(d)
    BY <1>2, PlainPasses DEF DeferredHeaders, DeferredHeaderResponse, Unmoved
  <2>4. d \in Seq(ResponseType)
    BY <1>1, <1>2, DeferredType
  <2> HIDE DEF some, d
  <2>5. Passed(b)
    BY <1>1, <1>7, BodyPasses
  <2>6. b \in Seq(ResponseType)
    BY <1>1, BodyResponsesType
  <2> HIDE DEF b
  <2> QED
    BY <2>1, <2>2, <2>3, <2>4, <2>5, <2>6, PassedBoth
<1>8. ASSUME m.step = Body, NEW none \in BOOLEAN, ~none PROVE Ok(Reply(marked, k(none)))
  <2>1. ~Withholds(c, marked)
    BY <1>2 DEF Withholds, Unmoved
  <2>2. Fits(c, marked, k(none))
    BY <1>1, <1>2, <1>8, <2>1, BodyResponsesFit DEF Unmoved
  <2>3. Passed(k(none))
    BY <1>1, <1>8, BodyPasses
  <2> HIDE DEF k
  <2> QED
    BY <2>2, <2>3 DEF Answers, Reply
<1>9. Ok(RedeliveredBody(s, m))
  BY <1>4, <1>5 DEF RedeliveredBody
<1>10. m.step = Body => Ok(Reply(marked, k(FALSE)))
  BY <1>8
<1> HIDE DEF Ok
<1>11. m.step = Body => Ok(LocalReplyBody(s, m))
  BY <1>4, <1>7, <1>9, <1>10 DEF LocalReplyBody, marked
<1>12. Ok(LocalReplyPassthrough(s, m))
  BY <1>5, <1>6, <1>11 DEF LocalReplyPassthrough
<1> QED
  BY <1>12 DEF Ok

\* The modes of the directions that have begun.
ModesKept(s, t) == \A side \in Sides : s.order[side] # Unseen => t.mode[side] = s.mode[side]

\* What dispatch_request does to a waiting stream.
Dispatched(c, s, r) ==
  /\ \A side \in Sides : Once(r.state, side)
  /\ r.state.streamed_request_bytes <= Limit
  /\ ModesKept(s, r.state)
  /\ Stops(r) \/ Waiting(r.state)
  /\ Answers(c, r)
  /\ Announced(s, r)
  /\ r.state.local_reply => Unfiltered(r.state) /\ Passed(r.out)

\* A local reply passes through.
LEMMA LocalReplyDispatched ==
  ASSUME NEW c, NEW s \in StateType, NEW m \in MessageType, Waiting(s),
         s.streamed_request_bytes <= Limit, ~OutOfOrder(s, m), Advance(s, m).local_reply
  PROVE  Dispatched(c, s, LocalReplyPassthrough(Advance(s, m), m))
<1> DEFINE a == Advance(s, m)
           r == LocalReplyPassthrough(a, m)
           t == r.state
<1>1. "request" \in Sides /\ "response" \in Sides /\ m.side \in Sides
  BY DEF Sides, MessageType
<1>2. s.order["request"] = Unseen
  BY AdvanceKeeps DEF Waiting, Opened
<1>3. m.side = "response"
  BY <1>1, <1>2, AdvanceKeeps DEF OutOfOrder, Sides
<1>4. /\ a \in StateType
      /\ a.order["request"] = Unseen
      /\ a.carried_context = s.carried_context
      /\ a.streamed_request_bytes = s.streamed_request_bytes
      /\ a.mode = s.mode
      /\ a.order["response"] = m.step
      /\ \A side \in Sides : Fresh(s, side) => Fresh(a, side)
  BY <1>1, <1>2, <1>3, AdvanceType, AdvanceKeeps
<1>5. Unfiltered(a)
  BY <1>2, <1>4 DEF Waiting, Unfiltered
<1>6. a.local_reply
  OBVIOUS
<1> HIDE DEF a
<1>7. Unmoved(a, t)
  BY <1>1, <1>3, <1>4, <1>5, LocalReplyKeeps DEF Unfiltered, Fresh
<1>8. Answers(c, r) /\ Passed(r.out)
  BY <1>1, <1>3, <1>4, <1>5, <1>6, LocalReplyAnswers DEF Unfiltered, Fresh
<1> HIDE DEF r
<1>9. \A side \in Sides : Fresh(t, side) /\ Calls(t, side) /\ Once(t, side)
  BY <1>5, <1>7, UnmovedKeeps, FreshCalls DEF Unfiltered
<1>10. Waiting(t)
  BY <1>4, <1>5, <1>6, <1>7, <1>9 DEF Waiting, Opened, Unfiltered, Unmoved
<1>11. ModesKept(s, t) /\ t.streamed_request_bytes <= Limit /\ Announced(s, r)
  BY <1>4, <1>7 DEF Unmoved, ModesKept, Announced
<1>12. Unfiltered(t)
  BY <1>5, <1>7, <1>9 DEF Unfiltered, Unmoved
<1>13. Dispatched(c, s, r)
  BY <1>8, <1>9, <1>10, <1>11, <1>12 DEF Dispatched
<1> QED
  BY <1>13 DEF a, r

\* A handled message of a stream that is no local reply.
LEMMA HandledDispatched ==
  ASSUME NEW c, NEW s \in StateType, NEW a, NEW m \in MessageType, NEW r, Waiting(s),
         a.order[m.side] = m.step, a.mode = s.mode,
         \A o \in Sides \ {m.side} : a.order[o] = s.order[o],
         ~a.local_reply, a.order["request"] # Unseen,
         \A side \in Sides : Calls(s, side) => Calls(a, side),
         \A side \in Sides : Fresh(s, side) => Fresh(a, side),
         Handled(a, r, m.side), Answers(c, r)
  PROVE  Dispatched(c, s, r)
<1> DEFINE t == r.state
<1>1. m.side \in Sides /\ m.step # Unseen
  BY DEF MessageType, Steps, Unseen, Headers, Body, Trailers
<1>2. /\ Apart(a, t, m.side)
      /\ t.mode = s.mode
      /\ t.streamed_request_bytes <= Limit
      /\ Once(t, m.side)
      /\ Stops(r) \/ (Calls(t, m.side) /\ t.headers["request"])
  BY DEF Handled, Served
<1>3. \A o \in Sides \ {m.side} :
        /\ Once(t, o)
        /\ Calls(t, o)
        /\ s.order[o] = Unseen => Fresh(t, o)
  <2>1. \A o \in Sides : Calls(a, o) /\ Once(a, o) /\ (s.order[o] = Unseen => Fresh(a, o))
    BY DEF Waiting, Calls
  <2> QED
    BY <1>1, <1>2, <2>1, ApartKeeps
<1>4. t.order = a.order /\ t.local_reply = a.local_reply
  BY <1>2 DEF Apart
<1> HIDE DEF t
<1>5. ASSUME ~Stops(r) PROVE Waiting(t)
  <2>1. \A side \in Sides : Calls(t, side)
    BY <1>2, <1>3, <1>5
  <2>2. \A side \in Sides : t.order[side] = Unseen => Fresh(t, side)
    BY <1>1, <1>3, <1>4
  <2>3. Opened(t)
    BY <1>2, <1>4, <1>5 DEF Opened
  <2> QED
    BY <1>4, <2>1, <2>2, <2>3 DEF Waiting
<1>6. \A side \in Sides : Once(t, side)
  BY <1>2, <1>3
<1>7. Announced(s, r)
  BY <1>2 DEF Announced, t
<1> QED
  BY <1>2, <1>4, <1>5, <1>6, <1>7 DEF Dispatched, ModesKept, t

\* The first phase of a direction is headers, later phases are not.
LEMMA PhaseOrder ==
  ASSUME NEW s \in StateType, NEW m \in MessageType, ~OutOfOrder(s, m)
  PROVE  m.step = Headers <=> s.order[m.side] = Unseen
BY DEF StateType, MessageType, OutOfOrder, InvalidTransition, Steps, Headers, Body, Trailers, Unseen

\* Every message leaves a waiting stream waiting, or ends it.
LEMMA DispatchKeeps ==
  ASSUME NEW c \in ChainType, NEW s \in LiveState, NEW f \in Outcomes, Allowed(c, f),
         NEW m \in MessageType, Waiting(s), s.streamed_request_bytes <= Limit
  PROVE  Dispatched(c, s, DispatchRequest(c, s, f, m))
<1> DEFINE a == Advance(s, m)
           r == DispatchRequest(c, s, f, m)
<1>1. s \in StateType /\ m.side \in Sides /\ "request" \in Sides /\ "response" \in Sides
      /\ m.step \in Steps
  BY DEF LiveState, MessageType, Sides
<1>2. CASE BodyNotExpected(s, m) \/ OutOfOrder(s, m)
  <2>1. r = Fail(s, "invalid_argument")
    BY <1>2 DEF DispatchRequest
  <2>2. r.state = s /\ Stops(r) /\ r.out = <<>>
    <3>1. r.state = s /\ Stops(r)
      BY <1>1, <2>1, WaysToStop
    <3> QED
      BY <2>1, <3>1 DEF Fail
  <2>3. Answers(c, r) /\ Passed(r.out)
    BY <2>1, <2>2, StopsSilent, SilentAnswers, PlainPasses
  <2>4. s.local_reply => Unfiltered(s)
    BY DEF Waiting, Opened
  <2>5. (\A side \in Sides : Once(s, side)) /\ ModesKept(s, s) /\ Announced(s, r)
    BY <2>2 DEF Waiting, Calls, ModesKept, Announced
  <2> HIDE DEF r
  <2>6. Dispatched(c, s, r)
    BY <2>2, <2>3, <2>4, <2>5 DEF Dispatched
  <2> QED
    BY <2>6 DEF r
<1>3. CASE ~BodyNotExpected(s, m) /\ ~OutOfOrder(s, m) /\ a.local_reply
  <2>1. r = LocalReplyPassthrough(a, m)
    BY <1>3 DEF DispatchRequest
  <2> QED
    BY <1>1, <1>3, <2>1, LocalReplyDispatched
<1>4. CASE ~BodyNotExpected(s, m) /\ ~OutOfOrder(s, m) /\ ~a.local_reply
  <2>1. /\ a.order[m.side] = m.step
        /\ \A o \in Sides \ {m.side} : a.order[o] = s.order[o]
        /\ a.mode = s.mode
        /\ a.streamed_request_bytes <= Limit
        /\ \A side \in Sides : /\ Fresh(s, side) => Fresh(a, side)
                               /\ Calls(s, side) => Calls(a, side)
        /\ a.headers = s.headers
        /\ ~s.local_reply
        /\ ~(m.side = "response" /\ s.order["request"] = Unseen)
    BY <1>1, <1>4, AdvanceKeeps
  <2>2. a \in LiveState
    BY <1>1, LiveUpdates
  <2>3. m.step = Headers <=> s.order[m.side] = Unseen
    BY <1>1, <1>4, PhaseOrder
  <2>4. r = CASE m.step = Trailers -> HandleTrailers(c, a, f, m.side)
              [] m.step = Headers /\ m.side = "request" -> HandleRequestHeaders(c, a, f, m)
              [] m.step = Body /\ m.side = "request" -> HandleRequestBody(c, a, f, m)
              [] m.step = Headers /\ m.side = "response" -> HandleResponseHeaders(c, a, f, m)
              [] OTHER -> HandleResponseBody(c, a, f, m)
    BY <1>4 DEF DispatchRequest
  <2>5. \A side \in Sides : Calls(a, side) /\ (s.order[side] = Unseen => Fresh(a, side))
    BY <2>1 DEF Waiting
  <2>6. ASSUME ~(m.step = Headers /\ m.side = "request")
        PROVE  s.headers["request"] /\ a.order["request"] # Unseen
    <3>1. s.order["request"] # Unseen
      BY <1>1, <2>1, <2>3, <2>6 DEF Sides
    <3> QED
      BY <1>1, <2>1, <3>1 DEF Waiting, Opened, Steps, Headers, Body, Trailers, Unseen
  <2> HIDE DEF a
  <2>7. ASSUME ~(m.step = Headers /\ m.side = "request"), Handled(a, r, m.side), Answers(c, r)
        PROVE  Dispatched(c, s, r)
    BY <1>1, <1>4, <2>1, <2>6, <2>7, HandledDispatched
  <2>8. CASE m.step = Trailers
    <3>1. r = HandleTrailers(c, a, f, m.side)
      BY <2>4, <2>8 DEF Headers, Body, Trailers
    <3>2. m.step # Headers
      BY <2>8 DEF Trailers, Headers
    <3>3. /\ Handled(a, HandleTrailers(c, a, f, m.side), m.side)
          /\ Answers(c, HandleTrailers(c, a, f, m.side))
      BY <1>1, <2>1, <2>2, <2>5, <2>6, <3>2, TrailersHandled
    <3> QED
      BY <2>7, <3>1, <3>2, <3>3
  <2>9. CASE m.step = Headers /\ m.side = "request"
    <3>1. r = HandleRequestHeaders(c, a, f, m)
      BY <2>4, <2>9 DEF Headers, Body, Trailers
    <3>2. Fresh(a, "request")
      BY <1>1, <2>3, <2>5, <2>9
    <3>3. /\ Served(a, HandleRequestHeaders(c, a, f, m), "request")
          /\ Answers(c, HandleRequestHeaders(c, a, f, m))
          /\ Announced(a, HandleRequestHeaders(c, a, f, m))
      BY <2>1, <2>2, <2>9, <3>2, RequestHeadersServed
    <3> DEFINE t == r.state
    <3>4. /\ Apart(a, t, "request")
          /\ t.streamed_request_bytes <= Limit
          /\ Once(t, "request")
          /\ Stops(r) \/ (Calls(t, "request") /\ t.headers["request"])
      BY <3>1, <3>3 DEF Served
    <3>5. s.order["request"] = Unseen /\ s.order["response"] = Unseen
      BY <2>1, <2>3, <2>9 DEF Waiting, Opened
    <3>6. Fresh(t, "response")
      BY <1>1, <2>5, <3>4, <3>5, ApartKeeps
    <3>7. Calls(t, "response") /\ Once(t, "response")
      BY <1>1, <3>6, FreshCalls
    <3>8. t.order["request"] # Unseen /\ ~t.local_reply
      BY <1>4, <2>1, <2>9, <3>4 DEF Apart, Headers, Unseen, a
    <3> HIDE DEF t
    <3>9. ASSUME ~Stops(r) PROVE Waiting(t)
      BY <3>4, <3>6, <3>7, <3>8, <3>9 DEF Waiting, Opened, Sides
    <3>10. Announced(s, r) /\ Answers(c, r)
      BY <2>1, <3>1, <3>3 DEF Announced
    <3>11. ModesKept(s, t) /\ \A side \in Sides : Once(t, side)
      BY <3>4, <3>5, <3>7 DEF ModesKept, Sides
    <3> QED
      BY <3>4, <3>8, <3>9, <3>10, <3>11 DEF Dispatched, t
  <2>10. CASE m.step = Body /\ m.side = "request"
    <3>1. r = HandleRequestBody(c, a, f, m)
      BY <2>4, <2>10 DEF Headers, Body, Trailers
    <3>2. m.step # Headers
      BY <2>10 DEF Body, Headers
    <3>3. /\ Handled(a, HandleRequestBody(c, a, f, m), m.side)
          /\ Answers(c, HandleRequestBody(c, a, f, m))
      BY <1>1, <2>1, <2>2, <2>5, <2>6, <2>10, <3>2, RequestBodyHandled
    <3> QED
      BY <2>7, <3>1, <3>2, <3>3
  <2>11. CASE m.step = Headers /\ m.side = "response"
    <3>1. r = HandleResponseHeaders(c, a, f, m)
      BY <2>4, <2>11 DEF Headers, Body, Trailers
    <3>2. Fresh(a, "response")
      BY <1>1, <2>3, <2>5, <2>11
    <3>3. /\ Handled(a, HandleResponseHeaders(c, a, f, m), m.side)
          /\ Answers(c, HandleResponseHeaders(c, a, f, m))
      BY <2>1, <2>2, <2>6, <2>11, <3>2, ResponseHeadersHandled
    <3> QED
      BY <2>7, <2>11, <3>1, <3>3
  <2>12. CASE m.step = Body /\ m.side = "response"
    <3>1. r = HandleResponseBody(c, a, f, m)
      BY <2>4, <2>12 DEF Headers, Body, Trailers
    <3>2. m.step # Headers
      BY <2>12 DEF Body, Headers
    <3>3. /\ Handled(a, HandleResponseBody(c, a, f, m), m.side)
          /\ Answers(c, HandleResponseBody(c, a, f, m))
      BY <1>1, <2>1, <2>2, <2>5, <2>6, <2>12, <3>2, ResponseBodyHandled
    <3> QED
      BY <2>7, <3>1, <3>2, <3>3
  <2> QED
    BY <1>1, <2>8, <2>9, <2>10, <2>11, <2>12 DEF Steps, Sides
<1> QED
  BY <1>2, <1>3, <1>4

-----------------------------------------------------------------------------
(* The message loop.                                                        *)

\* Only the first message of a stream configures it, and nothing has been processed
\* by then.
LEMMA ConfiguredWaiting ==
  ASSUME StreamInv, Running, NEW field \in AcceptedFields
  PROVE  LET s == Configured(state, field)
         IN /\ s \in LiveState
            /\ Waiting(s)
            /\ s.streamed_request_bytes <= Limit
            /\ s.order = state.order
            /\ \A side \in Sides : state.order[side] # Unseen => s.mode = state.mode
            /\ s.hooks = state.hooks
            /\ first_message_processed => s = state
<1> DEFINE s == Configured(state, field)
<1>1. state \in LiveState /\ state \in StateType
  BY DEF StreamInv, IInv, TypeOK, ContextIntact, LiveState, Live
<1>2. s \in LiveState
  BY <1>1, FieldsTyped, ConfiguredLive
<1>3. Waiting(state) /\ state.streamed_request_bytes <= Limit
  BY DEF StreamInv
<1>4. CASE field.kind = "absent"
  BY <1>2, <1>3, <1>4 DEF Configured
<1>5. CASE field.kind # "absent"
  <2>1. ~first_message_processed
    BY <1>5 DEF AcceptedFields, Absent
  <2>2. \A side \in Sides : state.order[side] = Unseen
    BY <2>1 DEF StreamInv
  <2>3. /\ s.order = state.order
        /\ s.local_reply = state.local_reply
        /\ s.carried_context = state.carried_context
        /\ s.streamed_request_bytes = state.streamed_request_bytes
        /\ s.headers = state.headers
        /\ s.filters_executed = state.filters_executed
        /\ s.hooks = state.hooks
        /\ s.body = state.body
        /\ s.deferred = state.deferred
    BY <1>1, <1>5 DEF Configured, StateType
  <2> HIDE DEF s
  <2>4. \A side \in Sides : Fresh(s, side)
    BY <1>3, <2>2, <2>3 DEF Waiting, Fresh
  <2>5. \A side \in Sides : Calls(s, side)
    BY <2>4, FreshCalls
  <2>6. Opened(s) /\ (s.order["request"] = Unseen => Unfiltered(s))
    BY <1>3, <2>3, <2>4 DEF Waiting, Opened, Unfiltered
  <2>7. Waiting(s)
    BY <2>4, <2>5, <2>6 DEF Waiting
  <2> QED
    BY <1>2, <1>3, <2>1, <2>2, <2>3, <2>7 DEF s
<1> QED
  BY <1>4, <1>5

\* The filters of a message are allowed what the chain lets them do.
LEMMA OutcomesAllowed ==
  ASSUME NEW c, NEW s, NEW m, NEW f \in FilterOutcomes(c, s, m)
  PROVE  f \in Outcomes /\ Allowed(c, f)
BY DEF FilterOutcomes, Outcomes, BodyOutcomes, HeaderOutcomes, Allowed

\* What a received message does, up to what is sent of the answer.
LEMMA ReceiveDispatches ==
  ASSUME StreamInv, NEW m \in MessageType, ReceiveAny(m)
  PROVE  \E f \in Outcomes, field \in AcceptedFields :
           LET s == Configured(state, field)
               r == DispatchRequest(chain, s, f, m)
           IN /\ Running
              /\ chain \in ChainType
              /\ Allowed(chain, f)
              /\ s \in LiveState
              /\ Waiting(s)
              /\ Dispatched(chain, s, r)
              /\ Good(r)
              /\ Finish(r)
              /\ first_message_processed'
              /\ chain' = chain
<1>1. PICK f \in FilterOutcomes(chain, state, m), field \in AcceptedFields : Receive(m, field, f)
  BY DEF ReceiveAny
<1> DEFINE s == Configured(state, field)
           r == DispatchRequest(chain, s, f, m)
<1>2. chain \in ChainType
  BY StreamAssumption DEF StreamInv, IInv, TypeOK
<1>3. f \in Outcomes /\ Allowed(chain, f)
  BY OutcomesAllowed
<1>4. Running /\ Finish(r) /\ first_message_processed' /\ chain' = chain
  BY <1>1 DEF Receive
<1>5. s \in LiveState /\ Waiting(s) /\ s.streamed_request_bytes <= Limit
  BY <1>4, ConfiguredWaiting
<1> HIDE DEF s
<1>6. Dispatched(chain, s, r) /\ Good(r)
  BY <1>2, <1>3, <1>5, DispatchKeeps, DispatchGood
<1> QED
  BY <1>2, <1>3, <1>4, <1>5, <1>6 DEF s

\* A stream that goes on does so with all that its handler returned.
LEMMA FinishRunning ==
  ASSUME NEW r, Good(r), Finish(r), Running'
  PROVE  ~Stops(r) /\ state' = r.state /\ out' = r.out
<1>1. r.err \in Errors
  BY DEF Good, ResultType
<1> QED
  BY <1>1 DEF Finish, Running, Errors, Stops

\* What is left of the state of a stream that ends.
LEMMA FinishState ==
  ASSUME NEW r, Finish(r)
  PROVE  state' = r.state \/ (state' = ReleaseBuffers(r.state) /\ status' = "immediate")
BY DEF Finish

\* What release_buffers_after_immediate leaves of the state.
LEMMA ReleaseKeeps ==
  ASSUME NEW s \in StateType
  PROVE  LET t == ReleaseBuffers(s)
         IN /\ t.hooks = s.hooks
            /\ t.mode = s.mode
            /\ t.order = s.order
            /\ t.eos = s.eos
            /\ t.local_reply = s.local_reply
            /\ t.carried_context = s.carried_context
            /\ t.streamed_request_bytes = 0
            /\ \A side \in Sides : t.body[side] = 0
BY DEF ReleaseBuffers, StateType, Both

\* One pass of the message loop preserves the invariant.
LEMMA ReceiveStreamInv ==
  ASSUME StreamInv, NEW m \in MessageType, ReceiveAny(m)
  PROVE  StreamInv'
<1>1. PICK f \in Outcomes, field \in AcceptedFields :
           LET s == Configured(state, field)
               r == DispatchRequest(chain, s, f, m)
           IN /\ Running
              /\ Dispatched(chain, s, r)
              /\ Good(r)
              /\ Finish(r)
              /\ first_message_processed'
  BY ReceiveDispatches
<1> DEFINE s == Configured(state, field)
           r == DispatchRequest(chain, s, f, m)
<1>2. Dispatched(chain, s, r) /\ Good(r) /\ Finish(r)
  BY <1>1
<1>3. IInv'
  BY ReceiveIInv DEF StreamInv
<1> HIDE DEF s, r
<1>4. r.state \in StateType
  BY <1>2 DEF Good, ResultType
<1>5. (\A side \in Sides : Once(state', side)) /\ state'.streamed_request_bytes <= Limit
  BY <1>2, <1>4, FinishState, ReleaseKeeps, LimitAssumption DEF Dispatched, Once
<1>6. Running' => Waiting(state')
  BY <1>2, FinishRunning DEF Dispatched
<1>7. (\A side \in Sides : Once(state, side))'
  BY <1>5 DEF Once
<1>8. Running' => Waiting(state)'
  BY <1>6 DEF Waiting, Calls, Fresh, Opened, Unfiltered, Once, Bounded
<1> QED
  BY <1>1, <1>3, <1>5, <1>7, <1>8 DEF StreamInv

\* Nothing has been processed of a new stream.
LEMMA InitStreamInv == Init => StreamInv
<1> SUFFICES ASSUME Init PROVE StreamInv
  OBVIOUS
<1>1. IInv
  BY InitIInv
<1>2. /\ state.carried_context = "stream"
      /\ state.streamed_request_bytes = 0
      /\ \A side \in Sides : Fresh(state, side) /\ state.order[side] = Unseen
  BY DEF Init, NewState, Both, Fresh
<1>3. "request" \in Sides /\ "response" \in Sides
  BY DEF Sides
<1>4. \A side \in Sides : Calls(state, side) /\ Once(state, side)
  BY <1>2, FreshCalls
<1>5. Waiting(state)
  BY <1>2, <1>3, <1>4 DEF Waiting, Opened, Unfiltered
<1> QED
  BY <1>1, <1>2, <1>4, <1>5, LimitAssumption DEF StreamInv

\* Every step preserves the invariant.
LEMMA NextStreamInv == StreamInv /\ [Next]_vars => StreamInv'
<1> SUFFICES ASSUME StreamInv, [Next]_vars PROVE StreamInv'
  OBVIOUS
<1>1. ASSUME NEW side \in Sides, ReceiveHeaders(side) PROVE StreamInv'
  BY <1>1, MessagesTyped, ReceiveStreamInv DEF ReceiveHeaders
<1>2. ASSUME NEW side \in Sides, ReceiveBody(side) PROVE StreamInv'
  BY <1>2, MessagesTyped, ReceiveStreamInv DEF ReceiveBody
<1>3. ASSUME NEW side \in Sides, ReceiveTrailers(side) PROVE StreamInv'
  BY <1>3, MessagesTyped, ReceiveStreamInv DEF ReceiveTrailers
<1>4. IInv'
  BY NextIInv DEF StreamInv
<1>5. CASE ReceiveEmpty
  <2>1. PICK field \in AcceptedFields :
          Running /\ state' = Configured(state, field) /\ first_message_processed'
    BY <1>5 DEF ReceiveEmpty
  <2>2. /\ Waiting(state')
        /\ state'.streamed_request_bytes <= Limit
        /\ state'.hooks = state.hooks
    BY <2>1, ConfiguredWaiting
  <2>3. (\A side \in Sides : Once(state, side))' /\ Waiting(state)'
    BY <2>2 DEF StreamInv, Waiting, Calls, Fresh, Opened, Unfiltered, Once, Bounded
  <2> QED
    BY <1>4, <2>1, <2>2, <2>3 DEF StreamInv
<1>6. ASSUME state' = state, ~Running' PROVE StreamInv'
  BY <1>4, <1>6 DEF StreamInv, Once
<1>7. CASE RefuseConfig
  BY <1>6, <1>7 DEF RefuseConfig, Running
<1>8. CASE InboundEnds("ok") \/ InboundEnds("internal")
  BY <1>6, <1>8 DEF InboundEnds, Running
<1>9. CASE UNCHANGED vars
  <2>1. UNCHANGED <<state, first_message_processed, status>>
    BY <1>9 DEF vars
  <2> QED
    BY <1>4, <2>1
    DEF StreamInv, Running, Waiting, Calls, Fresh, Opened, Unfiltered, Once, Bounded
<1> QED
  BY <1>1, <1>2, <1>3, <1>5, <1>7, <1>8, <1>9 DEF Next

\* All of this holds of every stream, for every chain, configuration and limit.
THEOREM StreamInvariant == Spec => []StreamInv
BY InitStreamInv, NextStreamInv, PTL DEF Spec

\* execute_request and execute_response are reached from four places each in
\* src/src/pipeline.rs; no sequence of messages reaches two of them in one
\* direction, and none reaches the end-of-stream call of the body filters first.
THEOREM HeaderFiltersCalledOnceFirst == Spec => []HeaderFiltersOnceFirst
<1>1. StreamInv => HeaderFiltersOnceFirst
  <2> SUFFICES ASSUME StreamInv, NEW side \in Sides
               PROVE  /\ state.hooks[side].headers <= 1
                      /\ state.hooks[side].eos > 0 => state.hooks[side].headers = 1
    BY DEF HeaderFiltersOnceFirst
  <2>1. Once(state, side)
    BY DEF StreamInv
  <2> QED
    BY <2>1 DEF Once
<1> QED
  BY StreamInvariant, <1>1, PTL

\* check_body_limit, reject_streamed_request_over_limit and buffer_response_chunk
\* bound what a stream holds, whatever the sizes and the order of the chunks are.
THEOREM BytesWithinLimit == Spec => []WithinLimit
<1>1. StreamInv => WithinLimit
  BY DEF StreamInv, WithinLimit, Waiting, Calls, Bounded
<1> QED
  BY StreamInvariant, <1>1, PTL

-----------------------------------------------------------------------------
(* What is sent, message by message.                                        *)

\* What was sent last fits the state of the stream, and a local reply is still
\* untouched. Each clause needs StreamInv: what a message is answered depends on the
\* modes, the ends of stream and the filter calls that earlier messages left behind.
AnswerInv ==
  /\ StreamInv
  /\ Fits(chain, state, out)
  /\ state.local_reply => Unfiltered(state) /\ status # "immediate" /\ Passed(out)

\* Whatever was sent of an answer, it fits what the answer left behind.
LEMMA FinishAnswers ==
  ASSUME NEW c, NEW r, Good(r), Answers(c, r), Finish(r),
         r.state.local_reply => Unfiltered(r.state) /\ Passed(r.out)
  PROVE  /\ Fits(c, state', out')
         /\ state'.local_reply => /\ Unfiltered(state')
                                  /\ Passed(out')
                                  /\ status' = status \/ status' # "immediate"
<1>1. r.state \in StateType /\ r.out \in Seq(ResponseType) /\ r.err \in Errors
  BY DEF Good, ResultType
<1>2. Fits(c, r.state, <<>>) /\ Passed(<<>>)
  BY BareAnswers, BareFits, PlainPasses
<1>3. CASE r.err # "none" /\ state' = r.state /\ status' = r.err /\ out' = <<>>
  BY <1>1, <1>2, <1>3 DEF Errors
<1>4. CASE r.err = "none" /\ state' = r.state /\ status' = status /\ out' = r.out
  BY <1>4 DEF Answers
<1>5. CASE HasImmediate(r.out) /\ state' = ReleaseBuffers(r.state) /\ out' = r.out
  <2>1. ~r.state.local_reply
    BY <1>5 DEF HasImmediate, Passed
  <2>2. /\ state'.mode = r.state.mode
        /\ state'.order = r.state.order
        /\ state'.eos = r.state.eos
        /\ state'.local_reply = r.state.local_reply
        /\ state'.carried_context = r.state.carried_context
    BY <1>1, <1>5, ReleaseKeeps
  <2>3. ASSUME NEW i \in DOMAIN r.out PROVE Fit(c, state', r.out[i])
    <3>1. Fit(c, r.state, r.out[i])
      BY DEF Answers, Fits
    <3> QED
      BY <2>2, <3>1 DEF Fit, Withholds
  <2> QED
    BY <1>5, <2>1, <2>2, <2>3 DEF Fits
<1>6. CASE \E sent \in 0..(Len(r.out) - 1) :
             state' = r.state /\ status' = "ok" /\ out' = SubSeq(r.out, 1, sent)
  <2>1. PICK sent \in 0..(Len(r.out) - 1) :
          state' = r.state /\ status' = "ok" /\ out' = SubSeq(r.out, 1, sent)
    BY <1>6
  <2>2. ASSUME NEW i \in DOMAIN out' PROVE i \in DOMAIN r.out /\ out'[i] = r.out[i]
    BY <1>1, <2>1
  <2>3. Fits(c, r.state, out')
    BY <2>2 DEF Answers, Fits
  <2>4. Passed(r.out) => Passed(out')
    BY <2>2 DEF Passed
  <2> QED
    BY <2>1, <2>3, <2>4
<1> QED
  BY <1>3, <1>4, <1>5, <1>6 DEF Finish

\* One pass of the message loop preserves this.
LEMMA ReceiveAnswerInv ==
  ASSUME AnswerInv, NEW m \in MessageType, ReceiveAny(m)
  PROVE  AnswerInv'
<1>1. StreamInv
  BY DEF AnswerInv
<1>2. PICK f \in Outcomes, field \in AcceptedFields :
           LET s == Configured(state, field)
               r == DispatchRequest(chain, s, f, m)
           IN /\ Running
              /\ Dispatched(chain, s, r)
              /\ Good(r)
              /\ Finish(r)
              /\ chain' = chain
  BY <1>1, ReceiveDispatches
<1> DEFINE s == Configured(state, field)
           r == DispatchRequest(chain, s, f, m)
<1>3. Running /\ Dispatched(chain, s, r) /\ Good(r) /\ Finish(r) /\ chain' = chain
  BY <1>2
<1>4. StreamInv'
  BY <1>1, ReceiveStreamInv
<1> HIDE DEF s, r
<1>5. /\ Fits(chain, state', out')
      /\ state'.local_reply => /\ Unfiltered(state')
                               /\ Passed(out')
                               /\ status' = status \/ status' # "immediate"
  BY <1>3, FinishAnswers DEF Dispatched
<1>6. Fits(chain, state, out)'
  BY <1>3, <1>5 DEF Fits, Fit, Withholds
<1>7. (state.local_reply => Unfiltered(state) /\ status # "immediate" /\ Passed(out))'
  BY <1>3, <1>5 DEF Running, Unfiltered, Fresh, Passed
<1> QED
  BY <1>4, <1>6, <1>7 DEF AnswerInv

\* Nothing was sent on a new stream.
LEMMA InitAnswerInv == Init => AnswerInv
<1> SUFFICES ASSUME Init PROVE AnswerInv
  OBVIOUS
<1>1. StreamInv
  BY InitStreamInv
<1>2. out = <<>> /\ ~state.local_reply
  BY DEF Init, NewState
<1>3. Fits(chain, state, out)
  BY <1>2, BareAnswers, BareFits
<1> QED
  BY <1>1, <1>2, <1>3 DEF AnswerInv

\* Every step preserves it.
LEMMA NextAnswerInv == AnswerInv /\ [Next]_vars => AnswerInv'
<1> SUFFICES ASSUME AnswerInv, [Next]_vars PROVE AnswerInv'
  OBVIOUS
<1>1. ASSUME NEW side \in Sides, ReceiveHeaders(side) PROVE AnswerInv'
  BY <1>1, MessagesTyped, ReceiveAnswerInv DEF ReceiveHeaders
<1>2. ASSUME NEW side \in Sides, ReceiveBody(side) PROVE AnswerInv'
  BY <1>2, MessagesTyped, ReceiveAnswerInv DEF ReceiveBody
<1>3. ASSUME NEW side \in Sides, ReceiveTrailers(side) PROVE AnswerInv'
  BY <1>3, MessagesTyped, ReceiveAnswerInv DEF ReceiveTrailers
<1>4. StreamInv /\ StreamInv'
  BY NextStreamInv DEF AnswerInv
<1>5. ASSUME chain' = chain, out' = <<>>, status' # "immediate",
             state'.local_reply => Unfiltered(state')
      PROVE  AnswerInv'
  <2>1. Fits(chain, state', out') /\ Passed(out')
    BY <1>5, BareAnswers, BareFits, PlainPasses
  <2>2. Fits(chain, state, out)' /\ Passed(out)'
    BY <1>5, <2>1 DEF Fits, Fit, Withholds, Passed
  <2>3. (state.local_reply => Unfiltered(state))'
    BY <1>5 DEF Unfiltered, Fresh
  <2> QED
    BY <1>4, <1>5, <2>2, <2>3 DEF AnswerInv
<1>6. CASE ReceiveEmpty
  <2>1. PICK field \in AcceptedFields :
          /\ Running
          /\ state' = Configured(state, field)
          /\ out' = <<>>
          /\ status' = status
          /\ chain' = chain
    BY <1>6 DEF ReceiveEmpty
  <2>2. Waiting(state')
    BY <1>4, <2>1, ConfiguredWaiting
  <2>3. state'.local_reply => Unfiltered(state')
    BY <2>2 DEF Waiting, Opened
  <2> QED
    BY <1>5, <2>1, <2>3 DEF Running
<1>7. CASE RefuseConfig \/ InboundEnds("ok") \/ InboundEnds("internal")
  <2>1. chain' = chain /\ state' = state /\ out' = <<>> /\ status' # "immediate"
    BY <1>7 DEF RefuseConfig, InboundEnds
  <2> QED
    BY <1>5, <2>1 DEF AnswerInv
<1>8. CASE UNCHANGED vars
  BY <1>4, <1>8 DEF vars, AnswerInv, Fits, Fit, Withholds, Unfiltered, Fresh, Passed
<1> QED
  BY <1>1, <1>2, <1>3, <1>6, <1>7, <1>8 DEF Next

\* All of this holds of every stream.
THEOREM AnswersFit == Spec => []AnswerInv
BY InitAnswerInv, NextAnswerInv, PTL DEF Spec

\* No response claims an end of stream that Envoy did not announce: of the pieces of
\* body_responses_streamed, and of a body that trailers close, none is marked final
\* unless a chunk of that direction was.
THEOREM FinalPieceClosesBody == Spec => []FinalOnlyAtEndOfStream
<1>1. AnswerInv => FinalOnlyAtEndOfStream
  BY DEF AnswerInv, Fits, Fit, FinalOnlyAtEndOfStream
<1> QED
  BY AnswersFit, <1>1, PTL

\* process_streamed_body_chunk, the pipelines and passthrough_chunk: with body
\* filters no byte leaves that they did not see, for every body length, and none of a
\* response that a filter wants complete leaves early.
THEOREM BodyFiltersNotBypassed == Spec => []NothingForwardedUnfiltered
<1>1. AnswerInv => NothingForwardedUnfiltered
  BY DEF AnswerInv, Fits, Fit, Withholds, NothingForwardedUnfiltered, BufferedResponse
<1> QED
  BY AnswersFit, <1>1, PTL

\* local_reply_passthrough: whatever phases a local reply has, no filter of the chain
\* is called for it and none of its responses changes it.
THEOREM LocalRepliesPassThrough == Spec => []LocalReplyUnfiltered
<1>1. AnswerInv => LocalReplyUnfiltered
  <2> SUFFICES ASSUME AnswerInv, state.local_reply
               PROVE  /\ \A side \in Sides : /\ state.hooks[side].headers = 0
                                             /\ state.hooks[side].eos = 0
                      /\ state.body["response"] = 0
                      /\ status # "immediate"
                      /\ \A i \in DOMAIN out : out[i].content # "replace" /\ out[i].mutation = {}
    BY DEF LocalReplyUnfiltered
  <2>1. Unfiltered(state) /\ status # "immediate" /\ Passed(out)
    BY DEF AnswerInv
  <2>2. "response" \in Sides
    BY DEF Sides
  <2> QED
    BY <2>1, <2>2 DEF Unfiltered, Fresh, Passed
<1> QED
  BY AnswersFit, <1>1, PTL


-----------------------------------------------------------------------------
(* The observed stream.                                                     *)

\* The history variable only watches.
LEMMA ObservedSteps == [ONext]_ovars => [Next]_vars
BY DEF ONext, ovars, Observe, Next

\* Every behaviour of the observed stream is one of the stream, so that what is
\* proved of the stream holds where TLC checks it.
THEOREM ObservedIsStream == OSpec => Spec
<1>1. OInit => Init
  BY DEF OInit
<1> QED
  BY <1>1, ObservedSteps, PTL DEF OSpec, Spec

\* A received message changes no mode of a direction that has begun.
LEMMA ReceiveKeepsModes ==
  ASSUME StreamInv, NEW m \in MessageType, ReceiveAny(m)
  PROVE  ModesKept(state, state')
<1>1. PICK f \in Outcomes, field \in AcceptedFields :
           LET s == Configured(state, field)
               r == DispatchRequest(chain, s, f, m)
           IN /\ Running
              /\ Dispatched(chain, s, r)
              /\ Good(r)
              /\ Finish(r)
  BY ReceiveDispatches
<1> DEFINE s == Configured(state, field)
           r == DispatchRequest(chain, s, f, m)
<1>2. Running /\ Dispatched(chain, s, r) /\ Good(r) /\ Finish(r)
  BY <1>1
<1>3. /\ s.order = state.order
      /\ \A side \in Sides : state.order[side] # Unseen => s.mode = state.mode
  BY <1>2, ConfiguredWaiting
<1> HIDE DEF s, r
<1>4. r.state \in StateType
  BY <1>2 DEF Good, ResultType
<1>5. state'.mode = r.state.mode
  BY <1>2, <1>4, FinishState, ReleaseKeeps
<1> QED
  BY <1>2, <1>3, <1>5 DEF Dispatched, ModesKept

\* No step does.
LEMMA NextKeepsModes == StreamInv /\ [Next]_vars => ModesKept(state, state')
<1> SUFFICES ASSUME StreamInv, [Next]_vars PROVE ModesKept(state, state')
  OBVIOUS
<1>1. ASSUME NEW side \in Sides, ReceiveHeaders(side) PROVE ModesKept(state, state')
  BY <1>1, MessagesTyped, ReceiveKeepsModes DEF ReceiveHeaders
<1>2. ASSUME NEW side \in Sides, ReceiveBody(side) PROVE ModesKept(state, state')
  BY <1>2, MessagesTyped, ReceiveKeepsModes DEF ReceiveBody
<1>3. ASSUME NEW side \in Sides, ReceiveTrailers(side) PROVE ModesKept(state, state')
  BY <1>3, MessagesTyped, ReceiveKeepsModes DEF ReceiveTrailers
<1>4. CASE ReceiveEmpty
  <2>1. PICK field \in AcceptedFields : Running /\ state' = Configured(state, field)
    BY <1>4 DEF ReceiveEmpty
  <2>2. \A side \in Sides : state.order[side] # Unseen => state'.mode = state.mode
    BY <2>1, ConfiguredWaiting
  <2> QED
    BY <2>2 DEF ModesKept
<1>5. CASE state' = state
  BY <1>5 DEF ModesKept
<1> QED
  BY <1>1, <1>2, <1>3, <1>4, <1>5 DEF Next, RefuseConfig, InboundEnds, vars

\* apply_protocol_config and apply_response_mode_override come too early to change
\* the mode of a direction that has begun.
THEOREM ModesSettled == OSpec => ModeSettled
<1>1. StreamInv /\ [ONext]_ovars =>
        [\A side \in Sides :
           state.order[side] # Unseen => state'.mode[side] = state.mode[side]]_ovars
  BY ObservedSteps, NextKeepsModes DEF ModesKept
<1> QED
  BY <1>1, ObservedIsStream, StreamInvariant, PTL DEF OSpec, ModeSettled

\* A message that changes a mode announces it, once the first message is through.
LEMMA ReceiveAnnounces ==
  ASSUME StreamInv, NEW m \in MessageType, ReceiveAny(m), Running', first_message_processed
  PROVE  state'.mode = state.mode \/ \E i \in DOMAIN out' : out'[i].override
<1>1. PICK f \in Outcomes, field \in AcceptedFields :
           LET s == Configured(state, field)
               r == DispatchRequest(chain, s, f, m)
           IN /\ Running
              /\ Dispatched(chain, s, r)
              /\ Good(r)
              /\ Finish(r)
  BY ReceiveDispatches
<1> DEFINE s == Configured(state, field)
           r == DispatchRequest(chain, s, f, m)
<1>2. Running /\ Dispatched(chain, s, r) /\ Good(r) /\ Finish(r)
  BY <1>1
<1>3. s = state
  BY <1>2, ConfiguredWaiting
<1> HIDE DEF s, r
<1>4. state' = r.state /\ out' = r.out
  BY <1>2, FinishRunning
<1> QED
  BY <1>2, <1>3, <1>4 DEF Dispatched, Announced

\* Every step of a stream that goes on does.
LEMMA NextAnnounces ==
  ASSUME StreamInv, [Next]_vars, Running', first_message_processed
  PROVE  state'.mode = state.mode \/ \E i \in DOMAIN out' : out'[i].override
<1> DEFINE Told == state'.mode = state.mode \/ \E i \in DOMAIN out' : out'[i].override
<1>1. ASSUME NEW side \in Sides, ReceiveHeaders(side) PROVE Told
  BY <1>1, MessagesTyped, ReceiveAnnounces DEF ReceiveHeaders
<1>2. ASSUME NEW side \in Sides, ReceiveBody(side) PROVE Told
  BY <1>2, MessagesTyped, ReceiveAnnounces DEF ReceiveBody
<1>3. ASSUME NEW side \in Sides, ReceiveTrailers(side) PROVE Told
  BY <1>3, MessagesTyped, ReceiveAnnounces DEF ReceiveTrailers
<1>4. CASE ReceiveEmpty
  <2>1. PICK field \in AcceptedFields : Running /\ state' = Configured(state, field)
    BY <1>4 DEF ReceiveEmpty
  <2> QED
    BY <2>1, ConfiguredWaiting
<1>5. CASE state' = state
  BY <1>5
<1> QED
  BY <1>1, <1>2, <1>3, <1>4, <1>5 DEF Next, RefuseConfig, InboundEnds, vars

\* set_response_mode_streamed and response_body_mode agree: apply_response_mode_override
\* is the only place that changes a mode after the first message, it tells Envoy
\* whenever it does, and it tells nobody it does not treat as STREAMED.
THEOREM OverridesAnnounced == OSpec => OverrideAgrees
<1> DEFINE Agrees == Running' =>
             LET overridden == \E i \in DOMAIN out' : out'[i].override
             IN /\ first_message_processed /\ state'.mode # state.mode => overridden
                /\ overridden => state'.mode["response"] = "streamed"
<1>1. ASSUME AnswerInv, AnswerInv', [ONext]_ovars PROVE Agrees
  <2>1. StreamInv /\ [Next]_vars
    BY <1>1, ObservedSteps DEF AnswerInv
  <2>2. ASSUME Running', first_message_processed
        PROVE  state'.mode = state.mode \/ \E i \in DOMAIN out' : out'[i].override
    BY <2>1, <2>2, NextAnnounces
  <2>3. \A i \in DOMAIN out' : out'[i].override => state'.mode["response"] = "streamed"
    BY <1>1 DEF AnswerInv, Fits, Fit
  <2> QED
    BY <2>2, <2>3
<1>2. AnswerInv /\ AnswerInv' /\ [ONext]_ovars => [Agrees]_ovars
  BY <1>1
<1> QED
  BY <1>2, ObservedIsStream, AnswersFit, PTL DEF OSpec, OverrideAgrees
=============================================================================
