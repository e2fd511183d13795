------------------------------ MODULE Listeners ------------------------------
(***************************************************************************)
(* The TLS listener and the metrics endpoint of one process, through its    *)
(* shutdown: the signal closes the gRPC listener, the end of the foreground *)
(* stops the metrics accept loop (run_with_sidecars), and the exit of the   *)
(* process takes what is left.  ServerLifecycle has the details of the      *)
(* shutdown itself.                                                         *)
(***************************************************************************)
EXTENDS TlsListener, MetricsService

VARIABLE phase   \* how far the shutdown is

vars == <<tls_vars, metrics_vars, phase>>

Init ==
  /\ TlsInit
  /\ MetricsInit
  /\ phase = "running"

Tls ==
  /\ phase # "exited"
  /\ TlsStep
  /\ UNCHANGED <<metrics_vars, phase>>

Metrics ==
  /\ phase # "exited"
  /\ MetricsStep
  /\ UNCHANGED <<tls_vars, phase>>

\* SIGTERM, with shutdown_with_deadline
Drain ==
  /\ phase = "running"
  /\ phase' = "draining"
  /\ CloseListener
  /\ UNCHANGED metrics_vars

\* The foreground is done and shutdown_tx is dropped.
StopSidecars ==
  /\ phase = "draining"
  /\ phase' = "stopping"
  /\ StopAccepting
  /\ UNCHANGED tls_vars

\* main returns, and the runtime drops the tasks that are left.
Exit ==
  /\ phase = "stopping"
  /\ phase' = "exited"
  /\ conn' = [k \in Connections |-> Closed]
  /\ UNCHANGED <<tls_vars, auth, accepting>>

Next == Tls \/ Metrics \/ Drain \/ StopSidecars \/ Exit

\* The listeners' own fairness: nothing has to be shut down.
Spec == Init /\ [][Next]_vars /\ TlsFairness /\ MetricsFairness

-----------------------------------------------------------------------------

\* Types of all variables; what the phase closed stays closed.
TypeOK ==
  /\ TlsTypeOK
  /\ MetricsTypeOK
  /\ phase \in {"running", "draining", "stopping", "exited"}
  /\ listening <=> phase = "running"
  /\ accepting <=> phase \in {"running", "draining"}
=============================================================================
