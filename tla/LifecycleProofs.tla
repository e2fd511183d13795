--------------------------- MODULE LifecycleProofs ---------------------------
(***************************************************************************)
(* Theorems about ServerLifecycle, for any set of streams, any channel      *)
(* capacity and any number of responses per message.                       *)
(***************************************************************************)
EXTENDS ServerLifecycle, TLAPS

(* Where run_with_sidecars is tells what the select! has decided.           *)
Supervised ==
    /\ main \in {"starting", "select"} => selected = "none"
    /\ main = "starting" => foreground = "none"
    /\ Shutdown => \/ selected \in {"health", "metrics"}
                   \/ selected = "foreground" /\ foreground \in {"ok", "error"}
                   \/ selected = "none" /\ foreground = "none"

(* The foreground drains and completes only after the signal, and the timer  *)
(* belongs to a shutdown that has begun.                                    *)
Asked ==
    /\ foreground \in {"signalled", "draining", "ok"} => drain
    /\ deadline # "unarmed" => foreground \in {"signalled", "draining", "ok"}

(* A client without a connection has no stream.                             *)
Absent(s) == stream[s].task = "none" /\ ~Connected(s)

(* Connections exist only behind a gRPC server that was bound, and a server   *)
(* that completed before its deadline has idle ones only.                   *)
StreamsFollow ==
    /\ foreground \in {"none", "waiting", "binding", "error"}
         => \A s \in Streams : Absent(s)
    /\ foreground = "ok" /\ deadline # "fired" => \A s \in Streams : Idle(s)

(* A channel holds responses only after its stream was opened.              *)
UnopenedEmpty == \A s \in Streams : stream[s].task = "none" => stream[s].queue = 0

(* An unready process has no gRPC server.                                   *)
UnreadyWaits ==
    ~ready => /\ foreground \in {"none", "waiting", "ok"}
              /\ \A s \in Streams : Absent(s)
              /\ UnreadyServesNothing

(* A health task ends by itself only with an error.                         *)
HealthStaysUp == health.task = "stopped" => Shutdown

IInv ==
    /\ TypeOK
    /\ Supervised
    /\ Asked
    /\ StreamsFollow
    /\ UnopenedEmpty
    /\ UnreadyWaits
    /\ HealthStaysUp
    /\ OnlyDeadlineCuts
    /\ CleanExit

(* A step that leaves the streams alone keeps what is idle idle.            *)
LEMMA FinishedFrame ==
    ASSUME UNCHANGED stream
    PROVE  /\ \A s \in Streams : /\ Idle(s)' <=> Idle(s)
                                 /\ Absent(s)' <=> Absent(s)
           /\ Unfinished' = Unfinished
  BY DEF Finished, Unfinished, Idle, Absent, Connected

(* What ends a stream, or takes its connection away, leaves a stream.        *)
LEMMA EndedTyped ==
    ASSUME NEW r \in StreamType
    PROVE  /\ [r EXCEPT !.task = "ended", !.pending = 0] \in StreamType
           /\ [r EXCEPT !.conn = "closed", !.queue = 0] \in StreamType
           /\ [r EXCEPT !.task = IF @ = "none" THEN @ ELSE "ended",
                        !.queue = 0, !.pending = 0, !.conn = "closed"] \in StreamType
<1>1. 0 \in 0..ChannelSize /\ 0 \in 0..MaxResponses
  BY LifecycleAssumption
<1>2. [r EXCEPT !.task = "ended", !.pending = 0] \in StreamType
  BY <1>1 DEF StreamType
<1>3. [r EXCEPT !.conn = "closed", !.queue = 0] \in StreamType
  BY <1>1 DEF StreamType
<1>4. CASE r.task = "none"
  BY <1>1, <1>2, <1>3, <1>4 DEF StreamType
<1>5. CASE r.task # "none"
  BY <1>1, <1>2, <1>3, <1>5 DEF StreamType
<1> QED BY <1>4, <1>5

(* The initial states satisfy the invariant.                                *)
LEMMA Initially == Init => IInv
<1>1. SUFFICES ASSUME Init PROVE IInv
  OBVIOUS
<1>2. stream \in [Streams -> StreamType]
  BY <1>1, LifecycleAssumption DEF Init, StreamType
<1>3. TypeOK
  BY <1>1, <1>2 DEF Init, TypeOK
<1>4. StreamsFollow /\ UnopenedEmpty /\ UnreadyWaits
  BY <1>1 DEF Init, StreamsFollow, UnopenedEmpty, Idle, Finished, Absent, Connected,
              UnreadyWaits, UnreadyServesNothing
<1> QED
  BY <1>1, <1>3, <1>4
  DEF Init, IInv, Supervised, Shutdown, Asked, HealthStaysUp, OnlyDeadlineCuts, CleanExit

(* A step of one stream never opens another on an idle connection, and only   *)
(* the force latch cuts one.                                                *)
LEMMA StreamStepInv ==
    ASSUME IInv, NEW s \in Streams, StreamStep(s)
    PROVE  IInv'
<1>0. ChannelSize \in Nat /\ MaxResponses \in Nat
  BY LifecycleAssumption
<1>1. /\ UNCHANGED <<ready, drain, deadline, control, foreground, side>>
      /\ cut' = cut \/ deadline = "fired"
  BY DEF StreamStep, Connect, Open, Handle, InboundEnds, Send, Report, Cancel, ClientReads,
         ClientGone, GoAway, control, side
<1>2. /\ stream' \in [Streams -> StreamType]
      /\ cut' \in SUBSET Streams
  <2>1. stream \in [Streams -> StreamType] /\ cut \in SUBSET Streams
    BY DEF IInv, TypeOK
  <2>2. CASE Open(s) \/ InboundEnds(s)
    BY <1>0, <2>1, <2>2 DEF StreamType, Open, InboundEnds
  <2>8. CASE Connect(s) \/ GoAway(s)
    BY <1>0, <2>1, <2>8 DEF StreamType, Connect, GoAway
  <2>7. CASE Handle(s)
    <3>1. PICK n \in 1..MaxResponses : stream' = [stream EXCEPT ![s].pending = n]
      BY <2>7 DEF Handle
    <3>2. n \in 0..MaxResponses
      BY <1>0
    <3>3. [stream[s] EXCEPT !.pending = n] \in StreamType
      BY <2>1, <3>2 DEF StreamType
    <3>4. cut' = cut
      BY <2>7 DEF Handle
    <3> QED BY <2>1, <3>1, <3>3, <3>4
  <2>3. CASE Send(s)
    BY <1>0, <2>1, <2>3 DEF StreamType, Send, HasRoom
  <2>4. CASE Report(s)
    BY <1>0, <2>1, <2>4 DEF StreamType, Report, HasRoom
  <2>5. CASE Cancel(s)
    <3>1. stream' \in [Streams -> StreamType]
      <4>1. CASE HasRoom(s)
        BY <1>0, <2>1, <2>5, <4>1 DEF StreamType, Cancel, HasRoom
      <4>2. CASE ~HasRoom(s)
        <5>1. stream' = [stream EXCEPT ![s] = [@ EXCEPT !.task = "ended", !.pending = 0]]
          BY <2>1, <2>5, <4>2 DEF StreamType, Cancel
        <5>2. [stream[s] EXCEPT !.task = "ended", !.pending = 0] \in StreamType
          BY <2>1, EndedTyped
        <5> QED BY <2>1, <5>1, <5>2
      <4> QED BY <4>1, <4>2
    <3> QED BY <2>1, <2>5, <3>1 DEF Cancel
  <2>6. CASE ClientReads(s) \/ ClientGone(s)
    BY <1>0, <2>1, <2>6 DEF StreamType, ClientReads, ClientGone
  <2> QED BY <2>2, <2>3, <2>4, <2>5, <2>6, <2>7, <2>8 DEF StreamStep
<1>3. \A t \in Streams \ {s} : stream'[t] = stream[t]
  BY DEF IInv, TypeOK, StreamType, StreamStep, Connect, Open, Handle, InboundEnds, Send,
         Report, Cancel, ClientReads, ClientGone, GoAway
<1>4. \/ foreground = "accepting"
      \/ ~Absent(s) /\ (Idle(s) => Idle(s)')
  <2> USE DEF Absent, Idle, Connected
  <2>1. stream \in [Streams -> StreamType]
    BY DEF IInv, TypeOK
  <2>2. CASE Connect(s) \/ Open(s) \/ GoAway(s)
    BY <2>2 DEF Connect, Open, GoAway
  <2>3. CASE Handle(s) \/ InboundEnds(s)
    BY <2>1, <2>3 DEF StreamType, Handle, InboundEnds, Waiting, Finished
  <2>4. CASE Send(s)
    BY <2>1, <2>4 DEF StreamType, Send, HasRoom, Finished
  <2>5. CASE Report(s) \/ Cancel(s)
    BY <2>1, <2>5 DEF StreamType, Report, Cancel, HasRoom, Finished
  <2>6. CASE ClientReads(s)
    <3>1. stream[s].task # "none"
      BY <2>6 DEF IInv, UnopenedEmpty, ClientReads
    <3> QED BY <2>1, <2>6, <3>1 DEF StreamType, ClientReads, Finished
  <2>7. CASE ClientGone(s)
    BY <2>1, <2>7 DEF StreamType, ClientGone, Finished
  <2> QED BY <2>2, <2>3, <2>4, <2>5, <2>6, <2>7 DEF StreamStep
<1>8. UnopenedEmpty'
  <2>1. stream'[s].task # "none" \/ stream'[s].queue = 0
    <3>1. stream \in [Streams -> StreamType]
      BY DEF IInv, TypeOK
    <3>2. CASE Open(s) \/ InboundEnds(s) \/ Send(s)
      BY <3>1, <3>2 DEF StreamType, Open, InboundEnds, Send
    <3>3. CASE Report(s) \/ Cancel(s)
      BY <3>1, <3>3 DEF StreamType, Report, Cancel
    <3>6. CASE Connect(s) \/ ClientGone(s) \/ GoAway(s)
      BY <3>1, <3>6 DEF IInv, UnopenedEmpty, StreamType, Connect, ClientGone, GoAway
    <3>5. CASE Handle(s)
      BY <3>1, <3>5 DEF StreamType, Handle, Waiting
    <3>4. CASE ClientReads(s)
      BY <3>1, <3>4 DEF IInv, UnopenedEmpty, StreamType, ClientReads
    <3> QED BY <3>2, <3>3, <3>4, <3>5, <3>6 DEF StreamStep
  <2> QED BY <2>1, <1>3 DEF IInv, UnopenedEmpty
<1>5. StreamsFollow'
  <2>1. foreground \in {"none", "waiting", "binding", "error"} => FALSE
    BY <1>4 DEF IInv, StreamsFollow
  <2>2. ASSUME foreground = "ok", deadline # "fired", NEW t \in Streams
        PROVE  Idle(t)'
    <3>1. Idle(t)
      BY <2>2 DEF IInv, StreamsFollow
    <3>2. CASE t = s
      BY <3>1, <3>2, <1>4, <2>2
    <3>3. CASE t # s
      BY <3>1, <3>3, <1>3 DEF Idle, Finished
    <3> QED BY <3>2, <3>3
  <2> QED BY <2>1, <2>2, <1>1 DEF StreamsFollow
<1>6. UnreadyWaits'
  <2>1. ready
    <3>1. SUFFICES ASSUME ~ready PROVE FALSE
      BY DEF IInv, TypeOK
    <3>2. foreground # "accepting" /\ Absent(s)
      BY <3>1 DEF IInv, UnreadyWaits, UnreadyServesNothing
    <3> QED BY <3>2, <1>4
  <2> QED BY <2>1, <1>1 DEF UnreadyWaits
<1>7. OnlyDeadlineCuts'
  BY <1>1 DEF IInv, OnlyDeadlineCuts, control
<1> QED
  BY <1>1, <1>2, <1>5, <1>6, <1>7, <1>8
  DEF IInv, TypeOK, Supervised, Shutdown, Asked, HealthStaysUp, CleanExit, control, side

(* The sidecars touch neither the foreground nor the streams.               *)
LEMMA SidecarStepInv ==
    ASSUME IInv, SidecarStep
    PROVE  IInv'
<1>1. UNCHANGED <<ready, drain, deadline, control, foreground, stream, cut>>
  BY DEF SidecarStep, HealthStarts, HealthFails, HealthDrains, HealthStops, Watch,
         MetricsReady, MetricsFails, MetricsStops
<1>2. TypeOK'
  <2>1. CASE HealthStarts \/ HealthFails \/ HealthDrains \/ HealthStops \/ Watch
    <3>1. UNCHANGED metrics
      BY <2>1 DEF HealthStarts, HealthFails, HealthDrains, HealthStops, Watch
    <3>2. /\ health'.task \in {"running", "stopped", "error"}
          /\ health'.status \in {"unset", "serving", "not_serving"}
          /\ health'.watch \in {"none", "open"}
          /\ health' = [task |-> health'.task, status |-> health'.status,
                       watch |-> health'.watch]
      <4>1. CASE HealthStarts
        BY <4>1 DEF IInv, TypeOK, HealthStarts
      <4>2. CASE HealthFails
        BY <4>2 DEF IInv, TypeOK, HealthFails
      <4>3. CASE HealthDrains \/ HealthStops
        BY <4>3 DEF IInv, TypeOK, HealthDrains, HealthStops
      <4>4. CASE Watch
        BY <4>4 DEF IInv, TypeOK, Watch
      <4> QED BY <2>1, <4>1, <4>2, <4>3, <4>4
    <3> QED BY <1>1, <3>1, <3>2 DEF IInv, TypeOK, control
  <2>2. CASE MetricsReady \/ MetricsFails \/ MetricsStops
    BY <1>1, <2>2 DEF IInv, TypeOK, control, MetricsReady, MetricsFails, MetricsStops
  <2> QED BY <2>1, <2>2 DEF SidecarStep
<1>3. HealthStaysUp'
  BY <1>1 DEF IInv, TypeOK, HealthStaysUp, Shutdown, control, SidecarStep, HealthStarts,
         HealthFails, HealthDrains, HealthStops, Watch, MetricsReady, MetricsFails,
         MetricsStops
<1>4. UnreadyWaits'
  BY <1>1, FinishedFrame
  DEF IInv, TypeOK, UnreadyWaits, UnreadyServesNothing, SidecarStep, HealthStarts,
      HealthFails, HealthDrains, HealthStops, Watch, MetricsReady, MetricsFails,
      MetricsStops
<1>5. StreamsFollow' /\ UnopenedEmpty'
  BY <1>1, FinishedFrame DEF IInv, StreamsFollow, UnopenedEmpty
<1> QED
  BY <1>1, <1>2, <1>3, <1>4, <1>5
  DEF IInv, Supervised, Shutdown, Asked, OnlyDeadlineCuts, CleanExit, control

(* The gRPC server completes with finished streams, or after the deadline.  *)
LEMMA ForegroundStepInv ==
    ASSUME IInv, ForegroundStep
    PROVE  IInv'
<1>1. UNCHANGED <<ready, drain, control, side>> /\ main = "select"
  BY DEF ForegroundStep, WaitDrain, GrpcBinds, GrpcFails, GrpcArms, GrpcDrains, GrpcDrained,
         GrpcForced
<1>2. CASE GrpcForced
  <2>1. cut' \in SUBSET Streams
    BY <1>2 DEF IInv, TypeOK, GrpcForced, Unfinished
  <2>2. \A s \in Streams : [stream[s] EXCEPT !.conn = "closed", !.queue = 0] \in StreamType
    BY EndedTyped DEF IInv, TypeOK
  <2>3. stream' \in [Streams -> StreamType] /\ UnopenedEmpty'
    <3>1. CASE UNCHANGED stream
      BY <3>1 DEF IInv, TypeOK, UnopenedEmpty
    <3>2. CASE stream' = [s \in Streams |->
                 IF Connected(s) THEN [stream[s] EXCEPT !.conn = "closed", !.queue = 0]
                                 ELSE stream[s]]
      <4>1. stream' \in [Streams -> StreamType]
        BY <2>2, <3>2 DEF IInv, TypeOK
      <4>2. \A s \in Streams : stream'[s].queue = 0 \/ stream'[s] = stream[s]
        BY <3>2 DEF IInv, TypeOK, StreamType
      <4> QED BY <4>1, <4>2 DEF IInv, UnopenedEmpty
    <3> QED BY <1>2, <3>1, <3>2 DEF GrpcForced
  <2>4. /\ foreground = "draining" /\ foreground' = "ok"
        /\ deadline = "fired" /\ UNCHANGED deadline
    BY <1>2 DEF GrpcForced
  <2>5. ready /\ drain
    BY <2>4 DEF IInv, TypeOK, UnreadyWaits, Asked
  <2>6. TypeOK'
    BY <1>1, <2>1, <2>3, <2>4 DEF IInv, TypeOK, control, side
  <2>7. StreamsFollow' /\ UnreadyWaits' /\ OnlyDeadlineCuts'
    BY <1>1, <2>4, <2>5 DEF StreamsFollow, UnreadyWaits, OnlyDeadlineCuts
  <2> QED
    BY <1>1, <2>3, <2>4, <2>5, <2>6, <2>7
    DEF IInv, Supervised, Shutdown, Asked, HealthStaysUp, CleanExit, control, side
<1>3. CASE WaitDrain \/ GrpcBinds \/ GrpcFails \/ GrpcArms \/ GrpcDrains \/ GrpcDrained
  <2>1. UNCHANGED <<stream, cut>>
    BY <1>3 DEF WaitDrain, GrpcBinds, GrpcFails, GrpcArms, GrpcDrains, GrpcDrained
  <2>2. StreamsFollow' /\ UnopenedEmpty'
    <3>1. WaitDrain \/ GrpcDrained => \A s \in Streams : Idle(s)
      BY DEF IInv, StreamsFollow, WaitDrain, GrpcDrained, Idle, Finished, Absent, Connected
    <3> QED
      BY <1>3, <2>1, <3>1, FinishedFrame
      DEF IInv, StreamsFollow, UnopenedEmpty, WaitDrain, GrpcBinds, GrpcFails, GrpcArms,
          GrpcDrains, GrpcDrained
  <2> QED
    BY <1>1, <1>3, <2>1, <2>2, FinishedFrame
    DEF IInv, TypeOK, Supervised, Shutdown, Asked, UnreadyWaits, UnreadyServesNothing,
        HealthStaysUp, OnlyDeadlineCuts, CleanExit, control, side, WaitDrain, GrpcBinds,
        GrpcFails, GrpcArms, GrpcDrains, GrpcDrained
<1> QED BY <1>2, <1>3 DEF ForegroundStep

(* Leaving the supervisor cuts nothing that the drain had to finish.        *)
LEMMA ExitInv ==
    ASSUME IInv, Exit
    PROVE  IInv'
<1>1. /\ cut' \in SUBSET Streams
      /\ stream' \in [Streams -> StreamType]
  <2>1. \A s \in Streams :
          [stream[s] EXCEPT !.task = IF @ = "none" THEN @ ELSE "ended",
                            !.queue = 0, !.pending = 0, !.conn = "closed"] \in StreamType
    BY EndedTyped DEF IInv, TypeOK
  <2> QED BY <2>1 DEF IInv, TypeOK, Exit, Unfinished
<1>2. \A s \in Streams : /\ stream'[s].conn = "closed"
                         /\ stream'[s].queue = 0
                         /\ stream[s].task = "none" <=> stream'[s].task = "none"
  BY DEF IInv, TypeOK, StreamType, Exit
<1>3. deadline # "fired" /\ selected \notin {"health", "metrics"} => Unfinished = {}
  <2>1. SUFFICES ASSUME deadline # "fired", selected \notin {"health", "metrics"}
                 PROVE  \A s \in Streams : Finished(s)
    BY DEF Unfinished
  <2>2. foreground \in {"none", "ok", "error"}
    BY <2>1 DEF IInv, Supervised, Shutdown, Exit
  <2> QED BY <2>1, <2>2 DEF IInv, StreamsFollow, Idle, Finished, Absent
<1>4. OnlyDeadlineCuts'
  BY <1>3 DEF IInv, OnlyDeadlineCuts, Exit
<1>5. StreamsFollow' /\ UnopenedEmpty'
  BY <1>2 DEF IInv, StreamsFollow, UnopenedEmpty, Idle, Finished, Absent, Connected, Exit
<1>6. UnreadyWaits'
  BY <1>2 DEF IInv, UnreadyWaits, UnreadyServesNothing, Absent, Connected, Exit, side
<1>7. TypeOK'
  <2>1. /\ main' = "exited"
        /\ UNCHANGED <<ready, drain, deadline, selected, result, foreground, health, metrics>>
    BY DEF Exit, side
  <2> QED BY <1>1, <2>1 DEF IInv, TypeOK
<1> QED
  BY <1>4, <1>5, <1>6, <1>7
  DEF IInv, Supervised, Shutdown, Asked, HealthStaysUp, CleanExit, Exit, side

(* The steps of run_with_sidecars.                                          *)
LEMMA MainStepInv ==
    ASSUME IInv, MainStep
    PROVE  IInv'
<1>1. CASE Exit
  BY <1>1, ExitInv
<1>2. CASE \/ StartFails \/ StartForeground \/ SelectForeground \/ SelectHealth
           \/ SelectMetrics \/ AwaitHealth \/ AwaitMetrics
  <2>1. UNCHANGED <<ready, drain, deadline, side, stream, cut>>
    BY <1>2 DEF StartFails, StartForeground, SelectForeground, SelectHealth,
                SelectMetrics, AwaitHealth, AwaitMetrics
  <2>2. StreamsFollow' /\ UnopenedEmpty'
    BY <1>2, <2>1, FinishedFrame
    DEF IInv, StreamsFollow, UnopenedEmpty, Supervised, StartFails, StartForeground,
        SelectForeground, SelectHealth, SelectMetrics, AwaitHealth, AwaitMetrics
  <2>3. TypeOK' /\ Supervised' /\ Asked' /\ CleanExit'
    BY <1>2, <2>1
    DEF IInv, TypeOK, Supervised, Shutdown, Asked, HealthStaysUp, CleanExit, side, StartFails,
        StartForeground, SelectForeground, SelectHealth, SelectMetrics, AwaitHealth,
        AwaitMetrics
  <2>4. UnreadyWaits' /\ HealthStaysUp' /\ OnlyDeadlineCuts'
    BY <1>2, <2>1, FinishedFrame
    DEF IInv, TypeOK, Supervised, Shutdown, UnreadyWaits, UnreadyServesNothing, HealthStaysUp,
        OnlyDeadlineCuts, side, StartFails, StartForeground, SelectForeground,
        SelectHealth, SelectMetrics, AwaitHealth, AwaitMetrics
  <2> QED BY <2>2, <2>3, <2>4 DEF IInv
<1> QED BY <1>1, <1>2 DEF MainStep

(* The signal and the timer.                                                *)
LEMMA ClockStepInv ==
    ASSUME IInv, Signal \/ DeadlineExpires
    PROVE  IInv'
<1>1. UNCHANGED <<ready, control, foreground, side, stream, cut>>
  BY DEF Signal, DeadlineExpires
<1>2. StreamsFollow' /\ UnopenedEmpty'
  BY <1>1, FinishedFrame DEF IInv, StreamsFollow, UnopenedEmpty, Signal, DeadlineExpires
<1>3. TypeOK'
  <2>1. drain' \in BOOLEAN
    BY DEF IInv, TypeOK, Signal, DeadlineExpires
  <2>2. deadline' \in {"unarmed", "armed", "fired"}
    BY DEF IInv, TypeOK, Signal, DeadlineExpires
  <2> QED BY <1>1, <2>1, <2>2 DEF IInv, TypeOK, control, side
<1>4. UnreadyWaits' /\ HealthStaysUp'
  BY <1>1, FinishedFrame
  DEF IInv, UnreadyWaits, UnreadyServesNothing, HealthStaysUp, Shutdown, control, side
<1> QED
  BY <1>1, <1>2, <1>3, <1>4
  DEF IInv, Supervised, Shutdown, Asked, OnlyDeadlineCuts, CleanExit, control, Signal,
      DeadlineExpires

(* A stuttering step changes nothing the invariant speaks of.               *)
LEMMA StutterInv ==
    ASSUME IInv, UNCHANGED vars
    PROVE  IInv'
  BY FinishedFrame
  DEF IInv, vars, TypeOK, Supervised, Shutdown, Asked, StreamsFollow, UnopenedEmpty,
      UnreadyWaits, UnreadyServesNothing, HealthStaysUp, OnlyDeadlineCuts, CleanExit

(* The invariant holds in every reachable state.                            *)
LEMMA Invariance == Spec => []IInv
<1>1. IInv /\ [Next]_vars => IInv'
  BY StreamStepInv, SidecarStepInv, ForegroundStepInv, MainStepInv, ClockStepInv,
     StutterInv
  DEF Next
<1> QED BY Initially, <1>1, PTL DEF Spec

(* The variables of the process keep their types; a response channel never   *)
(* holds more than its capacity (server.rs, process).                       *)
THEOREM LifecycleTypeCorrect == Spec => []TypeOK
<1>1. IInv => TypeOK
  BY DEF IInv
<1> QED BY Invariance, <1>1, PTL

(* With any number of streams and any channel size, a stream loses answers   *)
(* only after the drain deadline or because a sidecar failed.               *)
THEOREM GracefulShutdown == Spec => []OnlyDeadlineCuts
<1>1. IInv => OnlyDeadlineCuts
  BY DEF IInv
<1> QED BY Invariance, <1>1, PTL

(* The process exits with success only when it was asked to stop.           *)
THEOREM CleanExitWhenAsked == Spec => []CleanExit
<1>1. IInv => CleanExit
  BY DEF IInv
<1> QED BY Invariance, <1>1, PTL

(* While the gRPC server serves or drains, the health task has not ended     *)
(* other than by an error of its own.                                       *)
THEOREM HealthOutlivesDrain == Spec => []HealthAnswersDuringDrain
<1>1. IInv => HealthAnswersDuringDrain
  BY DEF IInv, HealthStaysUp, Shutdown, HealthAnswersDuringDrain
<1> QED BY Invariance, <1>1, PTL

(* A process without a pipeline, or refused by FIPS, serves nothing.         *)
THEOREM UnreadyNeverServes == Spec => []UnreadyServesNothing
<1>1. IInv => UnreadyServesNothing
  BY DEF IInv, UnreadyWaits, UnreadyServesNothing
<1> QED BY Invariance, <1>1, PTL
=============================================================================
