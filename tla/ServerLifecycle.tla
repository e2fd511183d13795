--------------------------- MODULE ServerLifecycle ---------------------------
(***************************************************************************)
(* The life of the server process: start-up, the gRPC server with its      *)
(* streams, the health and metrics services, and shutdown with a drain      *)
(* deadline (src/src/bin/praxis_extproc.rs, health.rs and the process       *)
(* method of server.rs).  What a stream does with a message is the subject  *)
(* of ExtProcStream; here a message yields some responses or an error.      *)
(***************************************************************************)
EXTENDS Naturals

CONSTANTS
    Streams,        \* the gRPC streams that clients may open
    ChannelSize,    \* RESPONSE_CHANNEL_SIZE
    MaxResponses,   \* bound on the responses to one message
    HealthWatches   \* may a client hold a health Watch call open?

ASSUME LifecycleAssumption ==
    /\ ChannelSize \in Nat \ {0}
    /\ MaxResponses \in Nat \ {0}
    /\ HealthWatches \in BOOLEAN

VARIABLES
    ready,       \* the pipeline was built and FIPS does not forbid to serve
    drain,       \* the latch of spawn_drain_signal
    deadline,    \* the timer of shutdown_with_deadline and its force latch
    main,        \* where run_with_sidecars is
    selected,    \* which supervised future its select! took
    result,      \* what it returns
    foreground,  \* the foreground future: serve_grpc or the wait of serve_unready
    health,      \* the health task, its ExtProc status, an open Watch call
    metrics,     \* the metrics task
    stream,      \* per stream: its task, its response channel, its connection
    cut          \* streams ended before their answers were delivered

control == <<main, selected, result>>
side == <<health, metrics>>
vars == <<ready, drain, deadline, main, selected, result, foreground, health,
          metrics, stream, cut>>

StreamType == [task: {"none", "serving", "reporting", "ended"},
               queue: 0..ChannelSize,
               pending: 0..MaxResponses,
               conn: {"none", "open", "leaving", "closed"}]

(* Every variable keeps its type; the response channel never holds more     *)
(* than its capacity.                                                       *)
TypeOK ==
    /\ ready \in BOOLEAN
    /\ drain \in BOOLEAN
    /\ deadline \in {"unarmed", "armed", "fired"}
    /\ main \in {"starting", "select", "health", "metrics", "returned", "exited"}
    /\ selected \in {"none", "foreground", "health", "metrics"}
    /\ result \in {"none", "ok", "error"}
    /\ foreground \in {"none", "waiting", "binding", "accepting", "signalled",
                       "draining", "ok", "error"}
    /\ health \in [task: {"starting", "running", "stopped", "error"},
                   status: {"unset", "serving", "not_serving"},
                   watch: {"none", "open"}]
    /\ metrics \in {"starting", "running", "stopped", "failed", "panicked"}
    /\ stream \in [Streams -> StreamType]
    /\ cut \in SUBSET Streams

-----------------------------------------------------------------------------

(* run, serve_pipeline: an unready process runs the same supervisor with a  *)
(* foreground that only waits.  The three tasks have been spawned.          *)
Init ==
    /\ ready \in BOOLEAN
    /\ drain = FALSE
    /\ deadline = "unarmed"
    /\ main = "starting"
    /\ selected = "none"
    /\ result = "none"
    /\ foreground = "none"
    /\ health = [task |-> "starting", status |-> "unset", watch |-> "none"]
    /\ metrics = "starting"
    /\ stream = [s \in Streams |->
                   [task |-> "none", queue |-> 0, pending |-> 0, conn |-> "none"]]
    /\ cut = {}

Alive == main # "exited"

(* drop(shutdown_tx): the select! is over and the sidecars are told to stop. *)
Shutdown == main \notin {"starting", "select"}

(* A connection that can carry messages; "leaving" once its GOAWAY is         *)
(* complete, which lets its stream go on and refuses another one.           *)
Connected(s) == stream[s].conn \in {"open", "leaving"}

(* Nothing is left to do for a stream: it was not opened, its connection is   *)
(* gone, or its task has ended and the client has taken every response.     *)
Finished(s) ==
    \/ stream[s].task = "none"
    \/ stream[s].conn = "closed"
    \/ stream[s].task = "ended" /\ stream[s].queue = 0

Unfinished == {s \in Streams : ~Finished(s)}

(* What tonic waits for: a connection that takes no further stream and has    *)
(* finished the one it had.                                                 *)
Idle(s) == stream[s].conn # "open" /\ Finished(s)

-----------------------------------------------------------------------------
(* One stream: process and the task it spawns.                              *)

(* tonic accepts a connection.  A connection is seen from each of its streams, *)
(* so one that carries several is one that several of them have.             *)
Connect(s) ==
    /\ main = "select"
    /\ foreground = "accepting"
    /\ stream[s].conn = "none"
    /\ stream' = [stream EXCEPT ![s].conn = "open"]
    /\ UNCHANGED <<ready, drain, deadline, control, foreground, side, cut>>

(* process: connections are tasks of their own, so streams are accepted on    *)
(* them during the drain too, until the GOAWAY.                             *)
Open(s) ==
    /\ Alive
    /\ stream[s].conn = "open"
    /\ stream[s].task = "none"
    /\ stream' = [stream EXCEPT ![s].task = "serving"]
    /\ UNCHANGED <<ready, drain, deadline, control, foreground, side, cut>>

Waiting(s) == stream[s].task = "serving" /\ stream[s].pending = 0

(* A message was dispatched; its responses are to be sent one by one.  (A     *)
(* message without a response changes nothing here.)                        *)
Handle(s) ==
    /\ Alive
    /\ Waiting(s)
    /\ Connected(s)
    /\ \E n \in 1..MaxResponses : stream' = [stream EXCEPT ![s].pending = n]
    /\ UNCHANGED <<ready, drain, deadline, control, foreground, side, cut>>

(* The inbound stream ends, or fails: then the error is still to be sent.   *)
InboundEnds(s) ==
    /\ Alive
    /\ Waiting(s)
    /\ \E task \in {"ended", "reporting"} :
         stream' = [stream EXCEPT ![s].task = task]
    /\ UNCHANGED <<ready, drain, deadline, control, foreground, side, cut>>

HasRoom(s) == Connected(s) /\ stream[s].queue < ChannelSize

(* tx.send of a response: it waits for room, and ends the stream when the    *)
(* receiver is gone.  The last response may be an immediate one, which ends   *)
(* the stream as well.                                                      *)
Send(s) ==
    /\ Alive
    /\ stream[s].task = "serving"
    /\ stream[s].pending > 0
    /\ \/ /\ HasRoom(s)
          /\ \E task \in {"serving", "ended"} :
               /\ stream[s].pending > 1 => task = "serving"
               /\ stream' = [stream EXCEPT
                    ![s].queue = @ + 1, ![s].pending = @ - 1, ![s].task = task]
       \/ /\ stream[s].conn = "closed"
          /\ stream' = [stream EXCEPT ![s].task = "ended", ![s].pending = 0]
    /\ UNCHANGED <<ready, drain, deadline, control, foreground, side, cut>>

(* tx.send of the error that ended handle_stream: the select! is over, so    *)
(* only room in the channel or a closed connection lets the task go on.     *)
Report(s) ==
    /\ Alive
    /\ stream[s].task = "reporting"
    /\ \/ /\ HasRoom(s)
          /\ stream' = [stream EXCEPT ![s].queue = @ + 1, ![s].task = "ended"]
       \/ /\ stream[s].conn = "closed"
          /\ stream' = [stream EXCEPT ![s].task = "ended"]
    /\ UNCHANGED <<ready, drain, deadline, control, foreground, side, cut>>

(* Mutant: the force latch is looked at between two messages.               *)
CancelBetweenMessages(s) ==
    /\ Alive
    /\ deadline = "fired"
    /\ Waiting(s)
    /\ stream' = [stream EXCEPT
         ![s].task = "ended", ![s].pending = 0,
         ![s].queue = IF HasRoom(s) THEN @ + 1 ELSE @]
    /\ cut' = cut \cup {s}
    /\ UNCHANGED <<ready, drain, deadline, control, foreground, side>>

(* wait_force won: handle_stream is dropped wherever it waits, and           *)
(* UNAVAILABLE is put into the channel if there is room.                    *)
Cancel(s) ==
    /\ Alive
    /\ deadline = "fired"
    /\ stream[s].task = "serving"
    /\ stream' = [stream EXCEPT
         ![s].task = "ended", ![s].pending = 0,
         ![s].queue = IF HasRoom(s) THEN @ + 1 ELSE @]
    /\ cut' = cut \cup {s}
    /\ UNCHANGED <<ready, drain, deadline, control, foreground, side>>

(* The client takes a response, or goes away, and the channel with it.      *)
ClientReads(s) ==
    /\ Alive
    /\ Connected(s)
    /\ stream[s].queue > 0
    /\ stream' = [stream EXCEPT ![s].queue = @ - 1]
    /\ UNCHANGED <<ready, drain, deadline, control, foreground, side, cut>>

ClientGone(s) ==
    /\ Alive
    /\ Connected(s)
    /\ stream' = [stream EXCEPT ![s].conn = "closed", ![s].queue = 0]
    /\ UNCHANGED <<ready, drain, deadline, control, foreground, side, cut>>

(* A connection that tonic has told to shut down sends GOAWAY, and refuses    *)
(* streams when the client has acknowledged it, which it may never do.      *)
GoAway(s) ==
    /\ Alive
    /\ foreground \in {"draining", "ok"}
    /\ stream[s].conn = "open"
    /\ stream' = [stream EXCEPT ![s].conn = "leaving"]
    /\ UNCHANGED <<ready, drain, deadline, control, foreground, side, cut>>

-----------------------------------------------------------------------------
(* The health and metrics services.                                         *)

(* Mutant: readiness does not depend on the pipeline.                       *)
HealthStartsServing ==
    /\ Alive
    /\ health.task = "starting"
    /\ health' = [health EXCEPT !.task = "running", !.status = "serving"]
    /\ UNCHANGED <<ready, drain, deadline, control, foreground, metrics, stream, cut>>

(* set_initial_status, then listening.                                      *)
HealthStarts ==
    /\ Alive
    /\ health.task = "starting"
    /\ health' = [health EXCEPT !.task = "running",
                    !.status = IF ready THEN "serving" ELSE "not_serving"]
    /\ UNCHANGED <<ready, drain, deadline, control, foreground, metrics, stream, cut>>

(* A transport error: the address cannot be bound, or serving fails.        *)
HealthFails ==
    /\ Alive
    /\ health.task \in {"starting", "running"}
    /\ health' = [health EXCEPT !.task = "error", !.watch = "none"]
    /\ UNCHANGED <<ready, drain, deadline, control, foreground, metrics, stream, cut>>

(* Mutant: report_not_serving_on_drain returns, which ends the select! of    *)
(* health::serve and with it the health server.                             *)
HealthDrainsAndStops ==
    /\ Alive
    /\ health.task = "running"
    /\ drain
    /\ health' = [task |-> "stopped", status |-> "not_serving", watch |-> "none"]
    /\ UNCHANGED <<ready, drain, deadline, control, foreground, metrics, stream, cut>>

(* report_not_serving_on_drain: the status flips and the future stays       *)
(* pending, so that the server goes on answering.                           *)
HealthDrains ==
    /\ Alive
    /\ health.task = "running"
    /\ drain
    /\ health' = [health EXCEPT !.status = "not_serving"]
    /\ UNCHANGED <<ready, drain, deadline, control, foreground, metrics, stream, cut>>

(* The graceful shutdown of the health server waits for open calls.         *)
HealthStops ==
    /\ Alive
    /\ Shutdown
    /\ health.task = "running"
    /\ health.watch = "none"
    /\ health' = [health EXCEPT !.task = "stopped"]
    /\ UNCHANGED <<ready, drain, deadline, control, foreground, metrics, stream, cut>>

(* A client of the health service opens or closes a Watch call.             *)
Watch ==
    /\ HealthWatches
    /\ Alive
    /\ health.task = "running"
    /\ \/ health.watch = "open" /\ health' = [health EXCEPT !.watch = "none"]
       \/ health.watch = "none" /\ ~Shutdown /\ health' = [health EXCEPT !.watch = "open"]
    /\ UNCHANGED <<ready, drain, deadline, control, foreground, metrics, stream, cut>>

(* metrics::serve: the listener is bound and ready is sent; or starting it   *)
(* fails and the sender of ready is dropped; a running task may panic.      *)
MetricsReady ==
    /\ Alive
    /\ metrics = "starting"
    /\ metrics' = "running"
    /\ UNCHANGED <<ready, drain, deadline, control, foreground, health, stream, cut>>

MetricsFails ==
    /\ Alive
    /\ \/ metrics = "starting" /\ metrics' = "failed"
       \/ metrics = "running" /\ metrics' = "panicked"
    /\ UNCHANGED <<ready, drain, deadline, control, foreground, health, stream, cut>>

(* accept_loop breaks.                                                      *)
MetricsStops ==
    /\ Alive
    /\ Shutdown
    /\ metrics = "running"
    /\ metrics' = "stopped"
    /\ UNCHANGED <<ready, drain, deadline, control, foreground, health, stream, cut>>

-----------------------------------------------------------------------------
(* The foreground future, which runs while run_with_sidecars selects.       *)

(* SIGTERM or SIGINT.                                                       *)
Signal ==
    /\ Alive
    /\ ~drain
    /\ drain' = TRUE
    /\ UNCHANGED <<ready, deadline, control, foreground, side, stream, cut>>

(* Mutant: serve_unready does not wait for the signal.                      *)
WaitDrainAtOnce ==
    /\ main = "select"
    /\ foreground = "waiting"
    /\ foreground' = "ok"
    /\ UNCHANGED <<ready, drain, deadline, control, side, stream, cut>>

(* serve_unready: wait_drain.                                               *)
WaitDrain ==
    /\ main = "select"
    /\ foreground = "waiting"
    /\ drain
    /\ foreground' = "ok"
    /\ UNCHANGED <<ready, drain, deadline, control, side, stream, cut>>

(* serve_grpc: the TLS configuration is built and the listener bound.       *)
GrpcBinds ==
    /\ main = "select"
    /\ foreground = "binding"
    /\ foreground' = "accepting"
    /\ UNCHANGED <<ready, drain, deadline, control, side, stream, cut>>

GrpcFails ==
    /\ main = "select"
    /\ foreground = "binding"
    /\ foreground' = "error"
    /\ UNCHANGED <<ready, drain, deadline, control, side, stream, cut>>

(* shutdown_with_deadline: the timer is spawned, then the future completes.  *)
GrpcArms ==
    /\ main = "select"
    /\ foreground = "accepting"
    /\ drain
    /\ foreground' = "signalled"
    /\ deadline' = "armed"
    /\ UNCHANGED <<ready, drain, control, side, stream, cut>>

(* tonic sees it complete: the listener is closed and the connections, whose  *)
(* streams go on, are told to shut down.                                    *)
GrpcDrains ==
    /\ main = "select"
    /\ foreground = "signalled"
    /\ foreground' = "draining"
    /\ UNCHANGED <<ready, drain, deadline, control, side, stream, cut>>

(* Mutant: the drain looks at the tasks and forgets what the channels hold. *)
GrpcDrainedTasks ==
    /\ main = "select"
    /\ foreground = "draining"
    /\ \A s \in Streams : stream[s].task \in {"none", "ended"}
    /\ foreground' = "ok"
    /\ UNCHANGED <<ready, drain, deadline, control, side, stream, cut>>

(* serve_bounded: the serving future completes.                             *)
GrpcDrained ==
    /\ main = "select"
    /\ foreground = "draining"
    /\ \A s \in Streams : Idle(s)
    /\ foreground' = "ok"
    /\ UNCHANGED <<ready, drain, deadline, control, side, stream, cut>>

(* The timer flips the force latch.                                         *)
DeadlineExpires ==
    /\ Alive
    /\ deadline = "armed"
    /\ deadline' = "fired"
    /\ UNCHANGED <<ready, drain, control, foreground, side, stream, cut>>

(* Mutant: serve_bounded waits for the serving future only.                 *)
GrpcForcedNever ==
    /\ FALSE
    /\ UNCHANGED vars

(* serve_bounded: the serving future is dropped.  Its connections close now  *)
(* or, where tonic has detached them, with the process.                     *)
GrpcForced ==
    /\ main = "select"
    /\ foreground = "draining"
    /\ deadline = "fired"
    /\ foreground' = "ok"
    /\ cut' = cut \cup Unfinished
    /\ \/ stream' = [s \in Streams |->
                       IF Connected(s) THEN [stream[s] EXCEPT !.conn = "closed", !.queue = 0]
                                       ELSE stream[s]]
       \/ UNCHANGED stream
    /\ UNCHANGED <<ready, drain, deadline, control, side>>

-----------------------------------------------------------------------------
(* run_with_sidecars.                                                       *)

(* The metrics service never became ready: its error is returned at once.   *)
StartFails ==
    /\ main = "starting"
    /\ metrics = "failed"
    /\ result' = "error"
    /\ main' = "returned"
    /\ UNCHANGED <<ready, drain, deadline, selected, foreground, side, stream, cut>>

StartForeground ==
    /\ main = "starting"
    /\ metrics \in {"running", "panicked"}
    /\ main' = "select"
    /\ foreground' = IF ready THEN "binding" ELSE "waiting"
    /\ UNCHANGED <<ready, drain, deadline, selected, result, side, stream, cut>>

(* The three branches of the select!; the sidecar that was not selected is   *)
(* awaited next, health before metrics.                                     *)
SelectForeground ==
    /\ main = "select"
    /\ foreground \in {"ok", "error"}
    /\ selected' = "foreground"
    /\ result' = foreground
    /\ main' = "health"
    /\ UNCHANGED <<ready, drain, deadline, foreground, side, stream, cut>>

SelectHealth ==
    /\ main = "select"
    /\ health.task \in {"stopped", "error"}
    /\ selected' = "health"
    /\ result' = IF health.task = "stopped" THEN "ok" ELSE "error"
    /\ main' = "metrics"
    /\ UNCHANGED <<ready, drain, deadline, foreground, side, stream, cut>>

SelectMetrics ==
    /\ main = "select"
    /\ metrics = "panicked"
    /\ selected' = "metrics"
    /\ result' = "error"
    /\ main' = "health"
    /\ UNCHANGED <<ready, drain, deadline, foreground, side, stream, cut>>

(* drain("health", ...) and drain("metrics", ...).                          *)
AwaitHealth ==
    /\ main = "health"
    /\ health.task \in {"stopped", "error"}
    /\ main' = IF selected = "metrics" THEN "returned" ELSE "metrics"
    /\ UNCHANGED <<ready, drain, deadline, selected, result, foreground, side,
                   stream, cut>>

AwaitMetrics ==
    /\ main = "metrics"
    /\ metrics \in {"stopped", "panicked"}
    /\ main' = "returned"
    /\ UNCHANGED <<ready, drain, deadline, selected, result, foreground, side,
                   stream, cut>>

(* main returns: the runtime is dropped with every task and connection.     *)
Exit ==
    /\ main = "returned"
    /\ main' = "exited"
    /\ cut' = cut \cup Unfinished
    /\ stream' = [s \in Streams |->
                    [stream[s] EXCEPT
                       !.task = IF @ = "none" THEN @ ELSE "ended",
                       !.queue = 0, !.pending = 0, !.conn = "closed"]]
    /\ UNCHANGED <<ready, drain, deadline, selected, result, foreground, side>>

-----------------------------------------------------------------------------

StreamStep(s) ==
    \/ Connect(s)
    \/ Open(s)
    \/ Handle(s)
    \/ InboundEnds(s)
    \/ Send(s)
    \/ Report(s)
    \/ Cancel(s)
    \/ ClientReads(s)
    \/ ClientGone(s)
    \/ GoAway(s)

SidecarStep ==
    \/ HealthStarts
    \/ HealthFails
    \/ HealthDrains
    \/ HealthStops
    \/ Watch
    \/ MetricsReady
    \/ MetricsFails
    \/ MetricsStops

ForegroundStep ==
    \/ WaitDrain
    \/ GrpcBinds
    \/ GrpcFails
    \/ GrpcArms
    \/ GrpcDrains
    \/ GrpcDrained
    \/ GrpcForced

MainStep ==
    \/ StartFails
    \/ StartForeground
    \/ SelectForeground
    \/ SelectHealth
    \/ SelectMetrics
    \/ AwaitHealth
    \/ AwaitMetrics
    \/ Exit

Next ==
    \/ \E s \in Streams : StreamStep(s)
    \/ SidecarStep
    \/ Signal
    \/ DeadlineExpires
    \/ ForegroundStep
    \/ MainStep

(* The runtime polls every task that can go on, and the timer expires.       *)
(* Nothing is assumed of clients: they may never read, never close, never    *)
(* send, never acknowledge a GOAWAY; nor of the signal.                     *)
Fairness ==
    /\ WF_vars(HealthStarts)
    /\ WF_vars(HealthDrains)
    /\ WF_vars(HealthStops)
    /\ WF_vars(MetricsReady)
    /\ WF_vars(MetricsStops)
    /\ WF_vars(DeadlineExpires)
    /\ WF_vars(ForegroundStep)
    /\ WF_vars(MainStep)
    /\ \A s \in Streams : WF_vars(Cancel(s))

Spec == Init /\ [][Next]_vars

FairSpec == Spec /\ Fairness

-----------------------------------------------------------------------------

(* A stream loses answers only when the drain deadline has expired or a      *)
(* sidecar has failed: a shutdown in which the clients take their answers in *)
(* time cuts nothing, and neither does one in which they open more streams   *)
(* on the connections they have (serve_bounded, run_with_sidecars).         *)
OnlyDeadlineCuts ==
    cut # {} => deadline = "fired" \/ selected \in {"health", "metrics"}

(* The process ends with success only because it was asked to stop and its   *)
(* foreground has finished: a sidecar that ends, or an unready process that   *)
(* finds nothing to do, is never a clean exit.                              *)
CleanExit == result = "ok" => drain /\ selected = "foreground"

(* The health service goes on answering until the gRPC server has drained    *)
(* ("while the server keeps answering until shutdown completes", health.rs):  *)
(* it stops during the drain only by its own error, never by the signal.    *)
HealthAnswersDuringDrain ==
    foreground \in {"accepting", "signalled", "draining"} /\ main = "select"
        => health.task # "stopped"

(* An unready process (no pipeline, or FIPS required and not in effect) never *)
(* reports Serving and never takes a stream.                                *)
UnreadyServesNothing ==
    ~ready => /\ health.status # "serving"
              /\ \A s \in Streams : stream[s].task = "none"

(* The deadline ends every stream that is still being processed: one that     *)
(* blocks on a full channel, one that was opened after the latch flipped on   *)
(* a connection that never left, and also while something else keeps the     *)
(* process from exiting (wait_force).                                       *)
DeadlineCancels ==
    \A s \in Streams :
      deadline = "fired" /\ stream[s].task = "serving" ~> stream[s].task # "serving"

(* Once asked to stop the process exits, even if clients never read a        *)
(* response: the drain deadline bounds what they can hold up                *)
(* (serve_bounded).  Only a health Watch call that stays open is excepted.  *)
ShutdownCompletes ==
    []<>(health.watch = "none") => (drain ~> (main = "exited"))

(* What docs/configuration.md says of the deadline: with it the process can  *)
(* exit promptly, so that no client keeps it from exiting.                  *)
ExitsPromptly == drain ~> (main = "exited")
=============================================================================
