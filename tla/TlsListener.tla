----------------------------- MODULE TlsListener -----------------------------
(***************************************************************************)
(* The accept loop of the gRPC listener with TLS (src/src/tls.rs):          *)
(* connections wait in the backlog of the socket, at most Concurrency of    *)
(* them are in buffer_unordered, each with a handshake under its own        *)
(* deadline, and tonic takes the finished ones.  A failed accept is an      *)
(* error that finishes at once and concerns no client; it is left out.      *)
(***************************************************************************)
EXTENDS Naturals, Sequences, FiniteSets

CONSTANTS
  Clients,      \* connections that clients may make
  Kind,         \* [Clients -> Kinds]
  Concurrency   \* tls.handshake_concurrency

\* A prompt client offers h2 and its certificate and answers before the deadline;
\* a silent one sends nothing, or too late; an unwelcome one answers, but offers
\* another protocol (set_alpn_h2) or lacks the certificate that set_verify requires.
Kinds == {"prompt", "silent", "unwelcome"}

ASSUME TlsListenerAssumption ==
  /\ IsFiniteSet(Clients)
  /\ Kind \in [Clients -> Kinds]
  /\ Concurrency \in Nat \ {0}

VARIABLES
  listening,  \* tonic polls the incoming connections
  backlog,    \* connections the kernel holds, in order
  client      \* per client: where its connection is

tls_vars == <<listening, backlog, client>>

TlsInit ==
  /\ listening = TRUE
  /\ backlog = <<>>
  /\ client = [c \in Clients |-> "away"]

\* The futures in buffer_unordered: running, or finished and not yet taken.
InSlot(c) == client[c] \in {"shaking", "handshaken", "failed"}
Slots == {c \in Clients : InSlot(c)}

\* A client connects; the kernel queues it.
Connect(c) ==
  /\ listening
  /\ client[c] = "away"
  /\ backlog' = Append(backlog, c)
  /\ client' = [client EXCEPT ![c] = "backlog"]
  /\ UNCHANGED listening

Move(c, to) ==
  /\ client' = [client EXCEPT ![c] = to]
  /\ UNCHANGED <<listening, backlog>>

\* build_tls_incoming: buffer_unordered takes the next connection while it has
\* less than Concurrency futures.
Accept ==
  /\ listening
  /\ backlog # <<>>
  /\ Cardinality(Slots) < Concurrency
  /\ client' = [client EXCEPT ![Head(backlog)] = "shaking"]
  /\ backlog' = Tail(backlog)
  /\ UNCHANGED listening

\* perform_handshake with a client that answers
Handshake(c) ==
  /\ client[c] = "shaking"
  /\ Kind[c] # "silent"
  /\ Move(c, IF Kind[c] = "prompt" THEN "handshaken" ELSE "failed")

\* ... and with one that closes the connection
Abort(c) ==
  /\ client[c] = "shaking"
  /\ Kind[c] = "silent"
  /\ Move(c, "failed")

\* Mutant: the handshake has no deadline.
HandshakeTimeoutNever(c) ==
  /\ client[c] = "shaking"
  /\ Kind[c] = "silent"
  /\ FALSE
  /\ Move(c, "failed")

\* The deadline of build_tls_incoming, which starts with the handshake.
HandshakeTimeout(c) ==
  /\ client[c] = "shaking"
  /\ Kind[c] = "silent"
  /\ Move(c, "failed")

\* tonic takes a finished item: it serves the connection, or passes over the error.
Take(c) ==
  /\ listening
  /\ \/ client[c] = "handshaken" /\ Move(c, "served")
     \/ client[c] = "failed" /\ Move(c, "dropped")

\* serve_with_incoming_shutdown has its signal and drops the listener with all
\* that has not come through it.
CloseListener ==
  /\ listening
  /\ listening' = FALSE
  /\ backlog' = <<>>
  /\ client' = [c \in Clients |->
                  IF client[c] = "backlog" \/ InSlot(c) THEN "dropped" ELSE client[c]]

TlsStep ==
  \/ Accept
  \/ \E c \in Clients : \/ Connect(c)
                        \/ Handshake(c)
                        \/ Abort(c)
                        \/ HandshakeTimeout(c)
                        \/ Take(c)

\* The runtime polls what is ready, timers fire, prompt clients answer.  A silent
\* client need not close its connection.
TlsFairness ==
  /\ WF_tls_vars(Accept)
  /\ \A c \in Clients : /\ WF_tls_vars(Handshake(c))
                        /\ WF_tls_vars(HandshakeTimeout(c))
                        /\ WF_tls_vars(Take(c))

-----------------------------------------------------------------------------

\* The backlog holds every waiting connection once and no other.
TlsTypeOK ==
  /\ listening \in BOOLEAN
  /\ client \in [Clients -> {"away", "backlog", "shaking", "handshaken", "failed", "served",
                             "dropped"}]
  /\ backlog \in Seq(Clients)
  /\ {backlog[i] : i \in DOMAIN backlog} = {c \in Clients : client[c] = "backlog"}
  /\ \A i, j \in DOMAIN backlog : backlog[i] = backlog[j] => i = j

\* Clients that stall their handshakes, however many, do not keep out one that
\* answers: it is served unless the listener closes ("a stalled client is dropped
\* and its slot freed without blocking other accepts").
PromptClientServed ==
  \A c \in Clients :
    Kind[c] = "prompt" /\ client[c] = "backlog" ~> client[c] = "served" \/ ~listening
=============================================================================
