# Verification of praxis-extproc

praxis-extproc is an Envoy external processor. Envoy opens one bidirectional gRPC
stream per HTTP request and sends the headers, body chunks and trailers of the
request and of the response; the server runs a chain of filters on them and tells
Envoy what to change. This directory holds TLA+ models of the server, from its
start-up to its exit, the TLC runs that check them and proofs that TLAPS checks.

## 1. The system

| Part | Source | State | Operations |
|---|---|---|---|
| Stream task | `src/src/server.rs` | `StreamState`, `first_message_processed` | receive a message, apply the configuration of the first one, dispatch, send the responses, stop after an immediate response |
| Sequencing | `src/src/protocol.rs` | `PhaseOrderTracker`, `EosTracker` | check and advance the order of phases, check and mark end of stream |
| Handlers | `src/src/handlers.rs` | - (works on `StreamState`) | one per phase, local replies, trailers |
| Pipelines | `src/src/pipeline.rs` | the carried filter context | run header, body and selected-upstream filters, defer header mutations, withhold and flush bodies |
| Response builders | `src/src/response.rs` | - | headers, body (split in pieces of 62 KiB), trailers, immediate responses, mode override |
| Response mode | `src/src/response_mode.rs` | the loaded guardrail configuration | does this request select a guardrail, may its response be streamed |
| Adapter | `src/src/adapter.rs` | - | convert headers, compute header mutations |
| Process | `src/src/bin/praxis_extproc.rs` | drain and force signals | start, drain, force after a deadline |
| Side services | `health.rs`, `metrics.rs` | serving status, counters, one task per scrape connection | health, scraping and its authorization |
| Start-up | `bin/praxis_extproc.rs`, `config.rs`, `grpc_limits.rs`, `fips.rs`, `tls.rs` | the prepared settings | install the crypto provider, resolve limits, load and validate, build the pipeline, refuse without FIPS, `--validate` or serve |
| TLS listener | `tls.rs` | handshakes under way | accept, handshake under a deadline, hand over |
| FIPS tasks | `xtask/src/fips` | - | attest a host and an image, probe a running image |

How they interact: the stream task owns a `StreamState` and calls
`dispatch_request` for every message; dispatch checks the order of phases and calls
a handler; the handler marks end of stream, decides by body mode and by what the
chain needs, and calls a pipeline; the pipeline takes the carried context out of the
state, runs filters, puts it back and builds the responses, which the task sends in
order. Streams share nothing that changes, so one stream at a time is modelled.

The process supervises three services: the gRPC server as foreground future, health and
metrics as spawned tasks. It starts the sidecars, waits for metrics to be ready, starts
the foreground and takes whichever ends first; a signal makes health report NotServing and
the gRPC server drain, with a timer that cancels what is left at the deadline.

Before that, `main` prepares: `--validate` and serving share the preparation and then check
the rest along paths of their own. A process that may not serve (no FIPS mode, filters that
cannot be built) stays up with its sidecars and reports NotServing. In front of the gRPC
server sits a TLS accept loop whose handshakes are limited in number and time; the metrics
endpoint asks the Kubernetes API twice per scrape. The FIPS tasks look at the same process
from outside, as a container.

What is hard here is not parallelism within a stream but the number of orders in
which legal work arrives: four body modes per direction, two directions that
interleave, bodies that end by a flag, by trailers or with the headers, headers
responses that are sent at once, with the first chunk or at the end, filters that may
run at four different times, redelivered final chunks, local replies of earlier
filters, rejections and errors at every hook, and a peer that stops receiving.

What makes each part correct:

* stream task: the carried context survives every path that lets the stream go on;
  the configuration does not change under a direction; a stream that Envoy drives
  properly ends and is not refused;
* sequencing and builders: per direction Envoy sees one headers response, then body
  responses, at most one final one and nothing after it, then trailers;
* handlers and pipelines: header filters run once and before body filters, body
  filters get one end-of-stream call per body, header mutations are delivered, bytes
  are never forwarded around a filter, limits hold for the sum of the chunks,
  selected-upstream filters fail closed;
* response mode: the stream and Envoy agree on the mode of the response body;
* adapter: filters see what Envoy holds, and Envoy ends up holding what filters asked for;
* start-up: validation and serving agree, what is configured is enforced, numbers are exact;
* listeners: a client that stalls, or an API server that is silent, delays nobody else and
  decides nothing;
* process: a drain loses no answer before its deadline, the process exits once asked to,
  whatever its clients do, success means it was asked to stop, an unready process serves
  nothing.

## 2. Modules

| Module | Models | Contents |
|---|---|---|
| `Protocol` | `protocol.rs` | phase order and end-of-stream rules as operators on the state record |
| `Response` | `response.rs` | responses as records; splitting a body into pieces |
| `Pipeline` | `pipeline.rs` | one operator per function, from a state and a filter outcome to a result `[state, out, err]` |
| `ResponseMode` | `response_mode.rs` | the selector of a configuration and the two decisions taken per request |
| `Handlers` | `handlers.rs` | one operator per handler |
| `ExtProcStream` | `server.rs` | the variables, the message loop, `Spec`; an arbitrary peer |
| `ObservedStream` | - | the same with a history variable for what the peer has received, and the properties about it |
| `Exchange` | - | abstract specification: what a stream promises its peer |
| `EnvoyStream` | - | the same composed with a conforming Envoy (external); liveness |
| `ServerLifecycle` | `bin/praxis_extproc.rs`, `health.rs`, `process` of `server.rs`, the life of `metrics.rs` | start-up, supervision, streams with their response channels, drain, deadline, exit |
| `Adapter` | `adapter.rs`, `mutation_affects_routing` of `response.rs` | one operator per function, on header lists; how Envoy applies a mutation (external) |
| `HeaderExchange` | - | one message with headers: conversion, edits, collection, application; or a filter's own reply |
| `GrpcLimits` | `grpc_limits.rs` | parsing of a quantity, scaling, rounding and overflow |
| `Startup` | `bin/praxis_extproc.rs`, `config.rs`, `fips.rs`, the settings of `tls.rs` | one step per stage of `prepare`, `validate_config`, `run`, for both commands |
| `FipsProbe` | `xtask/src/fips/{host_check,certified,runtime_probe}.rs` | the FIPS tasks, composed with the `serve` process of `Startup` |
| `TlsListener` | the accept loop of `tls.rs` | backlog, handshake slots, deadlines |
| `MetricsService` | `metrics.rs` | connections, routing, token and access reviews, timeout |
| `Listeners` | - | `TlsListener` and `MetricsService` through a shutdown |
| `MC...` | - | sets of chains, configurations, inputs and messages for TLC |
| `ExtProcStreamProofs`, `ObservedProofs`, `ExchangeProofs`, `EnvoyProofs` | - | lemmas and theorems about the stream: its state, its filter calls and responses, what its peer has received, and a conforming Envoy; each module on top of the one before |
| `LifecycleProofs`, `ListenerProofs`, `StartupProofs`, `AdapterProofs` | - | the same for the process, the listeners, start-up with the FIPS tasks, and the header exchange |

State. `state` has one field per field of `StreamState`; pairs such as
`request_body`/`response_body` are functions of the direction. Bodies are their
lengths, a header mutation is the set of who asked for it (`"filter"` for header
filters, `"length"` for `with_content_length`), the request and response themselves
are the Booleans "has been received". `carried_context` is `"drained"` for `None`,
otherwise the response body mode it carries. `hooks` counts filter calls up to two
and is the only field the code does not have. `chain` stands for the immutable
pipeline: which bodies it needs, whether it has selected-upstream filters and whether
one of them writes, whether it has the StreamBuffer capability, and the guardrail
configuration.

Actions. A message is handled in one step, the pass of the loop in
`process_messages` from `inbound.next()` to the last `tx.send`: the task is
sequential and nobody else touches its state. The step ends in one of the four
disjuncts of `Finish`: an error, an answer, an immediate response (which also drops
the buffers), or a peer that stopped receiving after some of the responses. Filters
are external; `FilterOutcomes` enumerates all that the pipeline distinguishes
(continue, mutate, ask for the whole body, reject, fail; keep, empty or grow a body).

`ServerLifecycle` looks at the same stream from outside. A stream is a task (`serving`;
`reporting` while it sends the error that ended it; `ended`), a response channel (how many
responses it holds, how many are still to be sent) and its HTTP/2 connection; a message yields
some responses or an error. Connections come before streams: the drain closes the listener to
new connections, but one that is open takes streams until its own shutdown completes
(`GoAway`), so streams also open while the process drains. The timer is armed first
(`GrpcArms`) and tonic notices the signal later (`GrpcDrains`), as in
`shutdown_with_deadline`. Here every `tx.send` is a step of its own, because blocking on a full
channel matters, and the forced cancellation may come between any two. `reporting` is apart
because that send is outside the `select!` and is not cancelled by the force latch. `main`
is the place in `run_with_sidecars`, `foreground` the progress of `serve_grpc` (or the wait
of an unready process), which moves only while `main` selects. `deadline` is the timer with
the latch. `cut` collects the streams that ended with answers undelivered. When
`serve_bounded` drops the serving future, connections may close at once or live until the
process ends; nothing here relies on which. `ready` abstracts `prepare` and `fips_refusal`,
which `Startup` details.

`HeaderExchange` details what the stream models abstract to "a header mutation". A header
list is a function from names to the values of that name in order, since entries of different
names never influence each other. Values are members of four classes (visible ASCII, other
UTF-8, legal bytes that are not UTF-8, illegal bytes), which is all the conversions
distinguish, and travel as `value` and `raw_value`. Filters of a request note what to append,
set and remove, filters of a response edit the map; `Apply` is Envoy, which removes and then
takes the options in order.

`Startup` runs both commands on the same `input`, which holds the file, the environment, the
command line and the host. Every stage of the code is a step that goes on or ends the process;
`HealthFails` is the one concurrent event (the health task's bind). `FipsProbe` takes the
`serve` process as the container it probes: its polls read `process` between any two of the
server's steps.

In `TlsListener` a connection is in the backlog, in a slot of `buffer_unordered` (shaking,
or finished and not yet taken) or gone. In `MetricsService` the API server decides a review
(`HandleTokenReview`, `HandleAccessReview`) apart from the moment its reply arrives
(`TokenReviewed`, `AccessReviewed`), so that a timeout may come in between.

`Exchange` says, per direction, how far the peer has asked and how far it was answered, and
that answers go forward and never past what was asked. `ObservedStream` implements it
(`ImplementsExchange`): `asked` is read off the phase order and the end-of-stream flags,
`answered` off the history of the responses.

Left out of the models: metric values and logs, the text of rejections and header mutations
that body filters ask for.

Definitions whose comment starts with "Mutant" are wrong variants of the definition
that follows them. No specification uses them; they show that the properties notice
such a mistake.

## 3. Runs

The stream runs use pieces of one byte (`ChunkLimit = 1`), so that a body of two bytes is
already split.

| Run | Peer | Chains and modes | Checks |
|---|---|---|---|
| `stream` | any | no selected-upstream filters; all 16 pairs of modes | the eight invariants below, the refinement `ImplementsExchange` |
| `guardrails` | any | guardrails always or by header, StreamBuffer, both values of `send_body_without_waiting` | `OverrideAgrees`, `ModeSettled` |
| `envoy` | conforming | with and without selected-upstream filters, all 16 pairs of modes, both values of `send_body_without_waiting` | `ConformingAccepted`, `BodyFiltersFinishOnce`, `SelectedFiltersOnce` |
| `envoy_ends` | conforming, fair | with and without selected-upstream filters, all 16 pairs of modes | `StreamEnds` |
| `lifecycle` | two clients that may stop reading, go away or open streams during the drain; services that may fail; fair process | channel of one response | `OnlyDeadlineCuts`, `CleanExit`, `HealthAnswersDuringDrain`, `UnreadyServesNothing`, `DeadlineCancels`, `ShutdownCompletes` |

| Run | Inputs | Checks |
|---|---|---|
| `adapter` | header lists of up to two fields, every shape of pseudo-headers, up to two edits or a reply with repeated names | `TypeOK`, `ResponseRoundTrip`, `RequestEditsTakeEffect`, `LengthAgrees`, `RouteCacheCleared`, `FiltersSeeWhatEnvoyHolds` |
| `startup` | one good input and those that differ from it in one subject: host and FIPS, file, limits, TLS, guardrails, FIPS tasks; one request per process | `ValidateAgrees`, `FipsOrInspectable`, `ClientCertificatesRequired`, `ReceiveSizeExact`, `LimitsFitOrWarned`, `GuardrailsNotBypassed`, `VerdictSound`, `ProbeConcludes` |
| `listeners` | four clients (one prompt, two silent, one unwelcome) and two slots; one scrape connection with two requests and two tokens | `RenderAuthorized`, `DenialsDecided`, `PromptClientServed`, `ScrapeAnswered` |

The invariants of `stream`: `TypeOK`, `ContextIntact`, `HeaderFiltersOnceFirst`,
`MutationDelivered`, `LocalReplyUnfiltered`, `NothingForwardedUnfiltered`,
`FinalOnlyAtEndOfStream` and `WithinLimit`. Each is stated above its definition in
`ExtProcStream` or `ObservedStream`.

Some properties carry an exception that is written into them. `MutationDelivered` excepts
every BUFFERED body that trailers close, whose mutations `rejection_only` drops with a
warning. `ImplementsExchange` takes as answered the FULL_DUPLEX_STREAMED local reply of the
finding below. `RequestEditsTakeEffect` says what becomes of a set value that is not visible
ASCII: it replaces everything, but arrives empty (`adapter.rs:223`). `ShutdownCompletes`
excepts a health Watch call that stays open, and `ProbeConcludes` holds under the hypothesis
that the probe's handshakes and tests return.

Bounds. Body messages carry 0 or 1 byte and the accumulation limit is 1 or 2, so a
second non-empty chunk reaches or exceeds it; filters add one byte, so results of two
pieces occur. With any peer the number of messages is not bounded: lengths are
bounded by the limits and the counters of `hooks` saturate. A conforming Envoy sends
at most `MaxChunks` = 2 body messages per direction, enough for a first, a final and,
in FULL_DUPLEX_STREAMED, a redelivered chunk. Runs stop without deadlock checking
because an ended stream has no next step; `NeverStalled` and `StreamEnds` say what
deadlock checking would. The life-cycle run has a channel of one response, so a client that does not read blocks
its stream on the response to the second message, or on the error; two streams let one
finish while the other blocks.

In `adapter` two edits are enough for any two operations to meet on one name, and every name
of the edits can be one that Envoy holds with two values. In `startup` the machine is scaled
down: `usize` ends at 127 and `u128` at 32767, suffixes are 3, 4 and their powers, so that
every overflow and every rounding of the parser occurs with numbers of three digits. The
subjects of the inputs are varied one at a time, each over all its combinations; steps of
different subjects only meet in whether an earlier one already ended the process. In
`listeners` two silent clients fill both slots while the prompt one waits; the second request
of the connection comes with another token than the first.

Fairness. `StreamEnds` assumes that something happens as long as Envoy may send or
close: Envoy sends finite bodies, and the stream task, a spawned tokio task, handles
each message in one pass. The formula `Fairness` is weak fairness of `ENext` with its
enabling condition written out (`CanAct`). Nothing is assumed about which message
Envoy sends next, nor about the filters. `ShutdownCompletes` assumes that the runtime polls
what can go on (main, foreground, health, metrics) and that the timer expires; nothing is
assumed of clients or of the signal. `DeadlineCancels` assumes in addition that a stream task
whose `select!` has the force branch ready is polled (`Cancel`), also while it waits for its
client; of what else stream tasks do nothing is assumed. `ProbeConcludes` assumes that the
probe, a sequential program, goes on and that its clock runs. Its handshakes and its test run
have no timeout in the code, so that they return (`CallReturns`) is no fairness but a
hypothesis of the property: an image that accepts a connection and stays silent hangs the
probe.
`PromptClientServed` assumes that the accept loop and tonic are polled, that timers fire and
that a client that answers does answer; a silent one need never close. `ScrapeAnswered`
assumes only the timer of the call, nothing of the API server.

### Findings

| Run | What the code does | What is said of it |
|---|---|---|
| `local_reply_trailers` | the headers response of a FULL_DUPLEX_STREAMED local reply waits for a body chunk; when trailers follow the headers it is never sent (`handlers.rs:88`) | "every response phase continues unchanged" (`handlers.rs:40`), and the test `local_reply_streamed_body_and_trailers_pass_through` |
| `buffered_response_trailers` | a BUFFERED response body without `end_of_stream` is not answered (`handlers.rs:542`), so an Envoy that waits for the answer before it sends the trailers waits for ever; the request direction handles this case (`handlers.rs:441`) | work held back for end of stream "must run now or the stream stalls" (`handlers.rs:576`) |
| `health_watch` | the health task is awaited without a bound and its graceful shutdown waits for open calls, so a client with a health Watch call keeps the process alive (`praxis_extproc.rs:423`) | streams are "cancelled with `UNAVAILABLE` so the process can exit promptly" (`docs/configuration.md:187`) |
| `immediate_headers` | every header of a filter's own reply overwrites, so of several values of one name only the last reaches the client (`adapter.rs:349`) | "headers from both the pair list and the header map must be emitted" (`adapter.rs:982`); further values "append, which is the only way ExtProc can express a multi-valued header" (`adapter.rs:286`) |

The second finding rests on what the source says of Envoy: that BUFFERED sends one
complete body message also when trailers end the message (`server.rs:603`), and that
Envoy waits for its answer. The third takes from the source that tonic's graceful drain
waits for connections to become idle (`praxis_extproc.rs:552`); that a Watch call stays
open as long as its client wants is the gRPC health protocol. The runs with a conforming
Envoy leave the first two situations out (`ParkedTrailers` and `ResponseBodyTrailers` are
FALSE), and `ShutdownCompletes` excepts a Watch call that stays open; the violation runs
let them in. The fourth takes the meaning of the append actions from their names and from
`adapter.rs:286`.

Also seen in the code, without a run of their own:

* trailers that close an open body run the body filters' end-of-stream call
  (`handlers.rs:577`), while `docs/architecture.md:111` says "passthrough responses (no
  filter hooks)";
* BUFFERED response headers are acknowledged before the response filters run
  (`handlers.rs:469`), while `docs/architecture.md:95` says "Response-phase filters run
  immediately so header mutations are included in the reply";
* health reports Serving before metrics is ready and before the gRPC listener is bound
  (`praxis_extproc.rs:396`), while `docs/architecture.md:206` says "the ExtProc gRPC server
  is running";
* the runtime probe's configuration (`xtask/src/fips/runtime_probe.rs:395`) leaves
  `metrics_auth` at its default, enabled, so outside a cluster the image exits and the probe
  fails on a host in FIPS mode, with a message that blames the host
  (`runtime_probe.rs:194`), while its header says that "the host needs podman and nothing
  else". `VerdictSound` holds nevertheless: it does not say that a good host passes;
* the probe's deadline, "How long the image gets to come up" (`runtime_probe.rs:52`), is
  looked at only after a handshake has returned (`runtime_probe.rs:209`), and the handshake is
  a blocking call without a timeout (`runtime_probe.rs:266`), so an image whose socket accepts
  and stays silent is waited for without end; so is a test run that hangs;
* a request header that a filter sets to a value that is not visible ASCII is sent empty
  (`adapter.rs:223`), while the values of response headers keep all their bytes
  (`adapter.rs:287`).

## 4. Proofs

`TypeCorrect` and `ContextNeverLost` state `Spec => []TypeOK` and
`Spec => []ContextIntact` for every value of the constants: any set of chains, any
configurations, any body lengths, any limits and any positive piece size. The
assumptions are the named ones of the modules (`ChunkLimitAssumption`,
`LimitAssumption`, `StreamAssumption`), which only give the constants their types.

The two are proved together, with `IInv == TypeOK /\ ContextIntact`. Neither is
inductive alone: a handler's result is shown to be typed and live only from a live
state, and liveness of the state is a statement about typed records. A result is
`Good` when it is typed and either ends the stream (an error or an immediate
response) or leaves the context in its slot. `ExtProcStreamProofs` shows that every
pipeline returns a good result from a live state, although the hooks inside it run on
a drained one, then the same of every handler and of dispatch, and then of every
action. Two lemmas are of interest by themselves:
`PieceLenType` (the last piece of a streamed body starts inside the body, for every
length and every piece size) and the part of `RequestPipelineGood` and
`ResponsePipelineGood` that a pipeline that does not end the stream always answers,
on which the trailers handler relies.

`ObservedProofs` proves what a stream does and what it sends, in two layers, again for every
value of the constants. The first is about filter calls and limits. `HeaderFiltersOnceFirst`
is far from inductive: whether a handler calls the header filters is decided by
`filters_executed`, which says nothing once a handler has taken the headers out of the state,
by the body mode, and by whether the direction has begun. `StreamInv` therefore says of a
stream that waits for a message, per direction, that `filters_executed` and the count of
calls agree as long as the headers are there, that in STREAMED mode the filters have been
called with them, that what is held is within the limit until body filters rewrite it
(`Calls`, `Bounded`), that a direction not yet seen is untouched (`Fresh`), that request
headers are kept once seen (`Opened`) and that a stream without a request is an untouched
local reply (`Unfiltered`). `StreamInvariant` yields `HeaderFiltersOnceFirst`, `WithinLimit`
and, with the steps of `ObservedStream`, the action properties `ModeSettled` and
`OverrideAgrees`. The proof follows the calls: a pipeline of one direction leaves the other
direction and the protocol state alone (`Framed`) and leaves its own either stopped or with
its calls counted (`Ran`); handlers put pipelines together (`Handled`), dispatch puts
handlers together.

The second layer is about responses. `AnswerInv` says that each response sent last `Fit`s the
state it left behind. `Answers` is the same of the result of one handler, and needs the first
layer: whether a piece may be marked final, whether a body response may be a passthrough and
whether bytes are being withheld all depend on what earlier messages left in the state. It
yields `FinalOnlyAtEndOfStream`, `NothingForwardedUnfiltered` and `LocalReplyUnfiltered`. A
peer that stops receiving gets a prefix of the responses, so the statement is about every
response and not about the last one. `ObservedIsStream` carries all of this over to the
specification with the history variable, which is the one TLC checks.

`ExchangeProofs` relates the state to the history variable: what the peer has received of a
direction is all the code may rely on when it decides what to send next. `WireInv` says of a
stream that waits, per direction, that nothing came out of order and nothing ahead of what was
asked (`Reached`), that a direction whose body has ended has had its headers response, that
while a body is pending the stage reached is the one that belongs to the body mode, to the
needs of the chain and to `headers_sent` (`Current`), and that a mutation that filters asked
for has been sent or is still owed: parked in the state, with a message to come that will
carry it (`Owing`, `Parked`). The last two need each other. Whether a handler may put the
headers response in front of a body response depends on the stage; whether the mutation is
lost depends on which response the pipeline builds. `PeersWired` is this invariant;
`MutationsDelivered` follows from it, and so does `StreamImplementsExchange`, step by step:
initial states map to initial states, and every step of `OSpec` to a step of `Exchange` or a
stutter, those of a peer that stops receiving included. The argument goes along the calls
again. `Handed` says what a handler does to one direction: the counts of filter calls, the
responses in order, and the wire invariant with these responses received. It is shown for
every way a handler may go (streamed chunk, passthrough, accumulation, redelivery,
first-chunk headers, trailers that close a body, local reply) and put together by dispatch.

`EnvoyProofs` adds the peer. `Conforms` is what `MaySend` makes of a message in terms of the
server's own checks: it is in order, its body is expected, a BUFFERED body comes once,
trailers come to an open body. `Counts` says of a direction that has begun that no
end-of-stream call was made before the body ended, that one was made when it has (for a chain
that needs the body, in a mode in which Envoy sends one), the same of the selected-upstream
filters on the request side, and that no BUFFERED body has been processed before a body
message was sent, which is where the number of chunks that Envoy has sent enters. `EInv` is
`Counts` for both directions, "never twice", "never refused", and that selected-upstream
filters have run when a body or trailers have passed; it is inductive on top of `StreamInv`
and `WireInv`. It yields `ConformingAccepted`, `BodyFiltersFinishOnce` and
`SelectedFiltersOnce` for every chain, every pair of modes, every limit and every `MaxChunks`,
also where Envoy may send the trailers of the two findings (`ParkedTrailers`,
`ResponseBodyTrailers`): those stall a stream, but are not refused and lose no call.

`StartupProofs` proves the six invariants of start-up and the verdict of the FIPS tasks for
any set of inputs. `StartInv` says of each of the two processes that it has passed the checks
of every stage behind it (`ChecksPassed`), took its settings from its own inputs
(`SettingsTaken`), and ended for a reason that is in the inputs (`EndsJustified`); the last is
what relates two processes that never communicate, and so what `ValidateAgrees` needs.
`ReceiveSizeExact` rests on lemmas about division with remainder and about `ScaleAndCeil`, for
every width of the integers and every table of suffixes; `RecvEnv` lets it use that a power
of ten is a natural number, because the provers have no arithmetic of `^`. The attempt to
prove `GuardrailsNotBypassed` found that `FromConfig` was written as a CASE whose guards
overlap, which in TLA+ leaves open which branch is taken (TLC takes the first one); it is now
the chain of early returns that the code is. `ProbeInv` adds that behind its handshake the
probe looks at a container that was not refused; `ProbedProcessStarts` says that the
composition is still the start-up specification.

`AdapterProofs` proves the six invariants of the header exchange for any names, values, header
lists and sequences of edits. `ExchangeInv` says that the answer is what the context collects
to, and the result is that answer applied to what Envoy held. The properties then follow from
lemmas about `EnvoyApplies`: the last overwriting option decides, options behind it append,
and without one the kept values come first. `FieldsTyped` and `FiltersSeeHeld` are about the
conversion: which fields of a list of any length survive `append_header` (`NthIs`,
`AppendedLegal`, `AllAppended`). `TypedInv` adds to `TypeOK` the length and the path that
filters leave, from which options are built; `SeenInv` says that what filters see is what was
converted, however often they edited since.

`LifecycleProofs` proves the four safety invariants of the life cycle and its type invariant
for any set of streams, any channel capacity and any number of responses per message
(`LifecycleAssumption`). The inductive invariant adds to them where the supervisor is
(`Supervised`), that the timer belongs to a drain that was asked for (`Asked`), that
connections exist only behind a bound server and are all idle when it completes before the
deadline (`StreamsFollow`, `Absent`, `UnopenedEmpty`), and that health stops only after the
select (`HealthStaysUp`). `OnlyDeadlineCuts` needs `StreamsFollow`: what the exit of the
process may cut is decided when the drain ends, and idle connections must be shown to take no
stream from then on.

`ListenerProofs` proves the type invariant of `Listeners`, with the backlog that holds every
waiting connection exactly once, and the two invariants of the run `listeners`, for any
finite set of clients, any concurrency, any connections, tokens and requests
(`TlsListenerAssumption`, `MetricsAssumption`). The two invariants of the metrics endpoint
need `Calling`: a task that waits for a call has a token, and one that asks for the access of
a user holds the user of that token; without it an arriving "yes" could be another user's.

What stays with TLC: the six liveness properties (`StreamEnds`, `DeadlineCancels`,
`ShutdownCompletes`, `ProbeConcludes`, `PromptClientServed`, `ScrapeAnswered`), because fairness and ENABLED are out
of the prover's reach. Every invariant and every action property that a passing run checks,
and the refinement, are also theorems.

Two definitions have the form they have because of the proofs. The library's induction
theorems take an operator as parameter, which the provers cannot instantiate, so nothing can
be shown of a fold or of `SelectSeq` for sequences of any length. `See` (what a peer makes of
a sequence of responses) and `AppendHeader` (the legal fields of a name) are therefore closed
forms: they say which position holds what. The lemmas about them rest on finite sets
(`FiniteSetTheorems`) and on the fact that a set of naturals has a least element (`Least`,
from `WFMin`).

## 5. State of the plan

Done: every component of the server with its safety and liveness runs, the refinement of
`Exchange`, and proofs of all safety properties.

What could be added:

1. a property for the one hazard without one: health that reports Serving before the gRPC
   listener is bound; the code promises no order there, and the documentation's wording is
   listed above;
2. the safety halves of the liveness arguments (a measure that every step of a stream of
   Envoy decreases), as far as they are invariants;
3. several requests on one metrics connection with more than two tokens, and the counters of
   `metrics.rs`, should something come to depend on them.

## 6. Not modelled

* The counters of `metrics.rs` (`record_*`) and the rendered text: values that nothing reads.
* The YAML syntax of `config.rs`, the reading of certificates and OpenSSL's cryptography: a
  file or context is good or not.
* `xtask` beyond host-check and runtime-probe: report, binary scan, dependency graph, source
  guards and environment listing are batch inspections of files.
* A failed `accept` of the TLS listener, which concerns no client, and the protobuf layout.
* The filters themselves, tonic, Kubernetes and Envoy are external and appear as choices.
