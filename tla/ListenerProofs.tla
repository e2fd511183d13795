---------------------------- MODULE ListenerProofs ----------------------------
(***************************************************************************)
(* Proofs about Listeners, for any clients, connections and bounds: types   *)
(* and what the metrics endpoint may answer.                                *)
(***************************************************************************)
EXTENDS Listeners, SequenceTheorems, TLAPS

-----------------------------------------------------------------------------
(* The TLS listener.                                                        *)

ClientStates == {"away", "backlog", "shaking", "handshaken", "failed", "served", "dropped"}

\* A client that moves without entering or leaving the backlog keeps the types.
LEMMA MoveKeeps ==
  ASSUME NEW c \in Clients, NEW to \in ClientStates \ {"backlog", "shaking"},
         TlsTypeOK, InSlot(c), Move(c, to)
  PROVE  TlsTypeOK'
<1> USE DEF ClientStates
<1>1. client' \in [Clients -> ClientStates] /\ listening' \in BOOLEAN /\ backlog' = backlog
  BY DEF TlsTypeOK, Move
<1>2. {d \in Clients : client'[d] = "backlog"} = {d \in Clients : client[d] = "backlog"}
  BY DEF TlsTypeOK, Move, InSlot
<1> QED
  BY <1>1, <1>2 DEF TlsTypeOK

\* connect: the new connection is the last of the backlog, once.
LEMMA ConnectKeeps ==
  ASSUME NEW c \in Clients, TlsTypeOK, Connect(c)
  PROVE  TlsTypeOK'
<1> USE DEF ClientStates
<1>1. /\ backlog \in Seq(Clients) /\ client \in [Clients -> ClientStates]
      /\ client[c] = "away"
      /\ backlog' = Append(backlog, c)
      /\ client' = [client EXCEPT ![c] = "backlog"]
      /\ listening' = listening
  BY DEF TlsTypeOK, Connect
<1>2. /\ DOMAIN backlog = 1..Len(backlog)
      /\ DOMAIN backlog' = 1..(Len(backlog) + 1)
      /\ backlog'[Len(backlog) + 1] = c
      /\ \A i \in DOMAIN backlog : backlog'[i] = backlog[i]
      /\ Len(backlog) \in Nat
      /\ backlog' \in Seq(Clients)
  BY <1>1
<1>3. c \notin {backlog[i] : i \in DOMAIN backlog}
  BY <1>1 DEF TlsTypeOK
<1>4. \A i, j \in DOMAIN backlog' : backlog'[i] = backlog'[j] => i = j
  BY <1>2, <1>3 DEF TlsTypeOK
<1>5. {backlog'[i] : i \in DOMAIN backlog'} = {backlog[i] : i \in DOMAIN backlog} \cup {c}
  BY <1>2
<1>6. {d \in Clients : client'[d] = "backlog"} = {d \in Clients : client[d] = "backlog"} \cup {c}
  BY <1>1
<1> QED
  BY <1>1, <1>2, <1>4, <1>5, <1>6 DEF TlsTypeOK

\* build_tls_incoming: the head of the backlog takes the slot that was free.
LEMMA AcceptKeeps ==
  ASSUME TlsTypeOK, Accept
  PROVE  TlsTypeOK'
<1> USE DEF ClientStates
<1> DEFINE h == Head(backlog)
<1>1. /\ backlog \in Seq(Clients) /\ backlog # <<>> /\ client \in [Clients -> ClientStates]
      /\ backlog' = Tail(backlog)
      /\ client' = [client EXCEPT ![h] = "shaking"]
      /\ listening' = listening
  BY DEF TlsTypeOK, Accept
<1>2. /\ DOMAIN backlog = 1..Len(backlog)
      /\ Len(backlog) \in Nat \ {0}
      /\ h = backlog[1] /\ 1 \in DOMAIN backlog
      /\ backlog' \in Seq(Clients)
      /\ DOMAIN backlog' = 1..(Len(backlog) - 1)
      /\ \A i \in DOMAIN backlog' : backlog'[i] = backlog[i + 1] /\ i + 1 \in DOMAIN backlog
  BY <1>1
<1>3. h \in Clients /\ client[h] = "backlog"
  BY <1>1, <1>2 DEF TlsTypeOK
<1>4. \A i, j \in DOMAIN backlog' : backlog'[i] = backlog'[j] => i = j
  BY <1>2 DEF TlsTypeOK
<1>5. {backlog'[i] : i \in DOMAIN backlog'} = {backlog[i] : i \in DOMAIN backlog} \ {h}
  <2>1. ASSUME NEW i \in DOMAIN backlog' PROVE backlog'[i] # h
    BY <1>2, <2>1 DEF TlsTypeOK
  <2>2. ASSUME NEW j \in DOMAIN backlog, backlog[j] # h
        PROVE  \E i \in DOMAIN backlog' : backlog'[i] = backlog[j]
    <3>1. j - 1 \in DOMAIN backlog' /\ (j - 1) + 1 = j
      BY <1>2, <2>2
    <3> QED
      BY <1>2, <3>1
  <2> QED
    BY <1>2, <2>1, <2>2
<1>6. {d \in Clients : client'[d] = "backlog"} = {d \in Clients : client[d] = "backlog"} \ {h}
  BY <1>1, <1>3
<1> QED
  BY <1>1, <1>2, <1>4, <1>5, <1>6 DEF TlsTypeOK

\* serve_with_incoming_shutdown drops what has not come through.
LEMMA CloseKeeps ==
  ASSUME TlsTypeOK, CloseListener
  PROVE  TlsTypeOK'
<1> USE DEF ClientStates
<1>1. /\ client' \in [Clients -> ClientStates]
      /\ \A c \in Clients : client'[c] # "backlog"
  BY DEF TlsTypeOK, CloseListener, InSlot
<1>2. backlog' = <<>> /\ listening' = FALSE
  BY DEF CloseListener
<1>3. backlog' \in Seq(Clients) /\ DOMAIN backlog' = {}
  BY <1>2
<1>4. {backlog'[i] : i \in DOMAIN backlog'} = {}
  BY <1>3
<1>5. {c \in Clients : client'[c] = "backlog"} = {}
  BY <1>1
<1> QED
  BY <1>1, <1>2, <1>3, <1>4, <1>5 DEF TlsTypeOK

(* Every step of the TLS listener keeps the invariant.                      *)
LEMMA TlsStepKeeps ==
  ASSUME TlsTypeOK, TlsStep
  PROVE  TlsTypeOK'
<1>1. CASE Accept
  BY <1>1, AcceptKeeps
<1>2. ASSUME NEW c \in Clients, Connect(c) PROVE TlsTypeOK'
  BY <1>2, ConnectKeeps
<1>3. ASSUME NEW c \in Clients, Handshake(c) \/ Abort(c) \/ HandshakeTimeout(c) PROVE TlsTypeOK'
  <2>1. InSlot(c) /\ (Move(c, "handshaken") \/ Move(c, "failed"))
    BY <1>3 DEF Handshake, Abort, HandshakeTimeout, InSlot
  <2> QED
    BY <2>1, MoveKeeps DEF ClientStates
<1>4. ASSUME NEW c \in Clients, Take(c) PROVE TlsTypeOK'
  <2>1. InSlot(c) /\ (Move(c, "served") \/ Move(c, "dropped"))
    BY <1>4 DEF Take, InSlot
  <2> QED
    BY <2>1, MoveKeeps DEF ClientStates
<1> QED
  BY <1>1, <1>2, <1>3, <1>4 DEF TlsStep

-----------------------------------------------------------------------------
(* The metrics endpoint.                                                    *)

Authns == {"none", "yes", "unnamed", "no", "error", "no_status", "no_authenticated"}
Authzs == {"none", "yes", "no", "error", "no_status"}
Answers == {"none", "rendered", "200", "401", "403", "404", "405", "500"}

ConnectionType ==
  [at : {"none", "reading", "token", "access", "answered", "closed"},
   request : RequestType, user : Users, authn : Authns, authz : Authzs,
   answer : Answers, requests : 0..MaxRequests]

\* The user of the token that was reviewed.
Reviewed(c) ==
  /\ c.authn \in {"yes", "unnamed"}
  /\ c.user = IF c.authn = "yes" THEN UserOf[c.request.authorization] ELSE Unnamed

\* A task that calls the API has a token to be reviewed, and one that asks for the
\* access of a user has the user of that token.
Calling(c) ==
  /\ c.at \in {"token", "access"} => auth /\ c.request.authorization \in Tokens
  /\ c.at = "access" => Reviewed(c)

\* What RenderAuthorized and DenialsDecided say of one connection.
AnswerJustified(c) ==
  /\ c.answer = "rendered" /\ auth =>
       c.request.authorization \in Tokens /\ Reviewed(c) /\ c.authz = "yes"
  /\ c.answer = "401" => c.request.authorization \notin Tokens \/ c.authn = "no"
  /\ c.answer = "403" => c.authz = "no"
  /\ c.answer = "500" => auth /\ c.request.authorization \in Tokens

Sound(c) == Calling(c) /\ (c.at = "answered" => AnswerJustified(c))

MetricsInv ==
  /\ auth \in BOOLEAN
  /\ accepting \in BOOLEAN
  /\ conn \in [Connections -> ConnectionType]
  /\ \A k \in Connections : Sound(conn[k])

\* A new or closed connection makes no claim.
LEMMA NewConnectionType ==
  /\ NewConnection \in ConnectionType
  /\ Closed \in ConnectionType
  /\ Idle \in RequestType
<1> USE MetricsAssumption DEF MetricsAssumption
<1>1. Idle \in RequestType
  BY DEF Idle, RequestType
<1>2. Unnamed \in Users /\ 0 \in 0..MaxRequests
  BY DEF Users
<1>3. NewConnection \in ConnectionType
  BY <1>1, <1>2 DEF NewConnection, ConnectionType, Authns, Authzs, Answers
<1>4. Closed \in ConnectionType
  BY <1>3 DEF Closed, NewConnection, ConnectionType
<1> QED
  BY <1>1, <1>3, <1>4

\* A step of one connection keeps the invariant of all.
LEMMA PutKeeps ==
  ASSUME NEW k \in Connections, NEW c \in ConnectionType, MetricsInv, Put(k, c), Sound(c)
  PROVE  MetricsInv'
<1>1. /\ auth' = auth /\ accepting' = accepting
      /\ conn' = [conn EXCEPT ![k] = c]
      /\ conn \in [Connections -> ConnectionType]
  BY DEF MetricsInv, Put
<1>2. conn' \in [Connections -> ConnectionType]
  BY <1>1
<1>3. ASSUME NEW j \in Connections PROVE Sound(conn[j])'
  <2>1. conn'[j] = IF j = k THEN c ELSE conn[j]
    BY <1>1
  <2>2. Sound(conn'[j])
    BY <2>1 DEF MetricsInv
  <2> QED
    BY <1>1, <2>2 DEF Sound, Calling, AnswerJustified, Reviewed
<1> QED
  BY <1>1, <1>2, <1>3 DEF MetricsInv

\* route_request and serve_metrics on a request of which nothing is known yet
LEMMA RouteRequestSound ==
  ASSUME auth \in BOOLEAN, NEW c \in ConnectionType, c.answer = "none",
         c.at \in {"none", "reading"}
  PROVE  RouteRequest(c) \in ConnectionType /\ Sound(RouteRequest(c))
<1> USE DEF ConnectionType, Answers
<1>1. ASSUME NEW status \in {"200", "404", "405"}
      PROVE  Answer(c, status) \in ConnectionType /\ Sound(Answer(c, status))
  BY DEF Answer, Sound, Calling, AnswerJustified
<1>2. ServeMetrics(c) \in ConnectionType /\ Sound(ServeMetrics(c))
  <2>1. CASE ~auth
    BY <2>1 DEF ServeMetrics, Answer, Sound, Calling, AnswerJustified
  <2>2. CASE auth /\ c.request.authorization \notin Tokens
    BY <2>2 DEF ServeMetrics, Answer, Sound, Calling, AnswerJustified
  <2>3. CASE auth /\ c.request.authorization \in Tokens
    BY <2>3 DEF ServeMetrics, Sound, Calling, AnswerJustified
  <2> QED
    BY <2>1, <2>2, <2>3
<1>3. RouteRequest(c) \in {Answer(c, "200"), Answer(c, "404"), Answer(c, "405"), ServeMetrics(c)}
  BY DEF RouteRequest
<1> QED
  BY <1>1, <1>2, <1>3

(* Every step of the metrics service keeps its part.                        *)
LEMMA MetricsStepKeeps ==
  ASSUME MetricsInv, MetricsStep
  PROVE  MetricsInv'
<1> USE DEF ConnectionType
<1>0. PICK k \in Connections :
        \/ AcceptConnection(k)
        \/ \E request \in HttpRequests : ReadRequest(k, request)
        \/ HandleTokenReview(k)
        \/ HandleAccessReview(k)
        \/ TokenReviewed(k)
        \/ AccessReviewed(k)
        \/ ApiTimeout(k)
        \/ KeepAlive(k)
        \/ Disconnect(k)
  BY DEF MetricsStep
<1> DEFINE c == conn[k]
<1>c. c \in ConnectionType /\ Sound(c) /\ auth \in BOOLEAN
  BY DEF MetricsInv
<1> HIDE DEF c
<1> USE DEF Sound, Calling
<1>1. CASE AcceptConnection(k)
  <2>1. Put(k, [c EXCEPT !.at = "reading"])
    BY <1>1 DEF AcceptConnection, c
  <2> QED
    BY <1>c, <2>1, PutKeeps
<1>2. ASSUME NEW request \in HttpRequests, ReadRequest(k, request) PROVE MetricsInv'
  <2> DEFINE n == [NewConnection EXCEPT !.request = request, !.requests = c.requests + 1]
  <2>1. c.requests < MaxRequests /\ Put(k, RouteRequest(n))
    BY <1>2 DEF ReadRequest, c
  <2>2. request \in RequestType /\ c.requests + 1 \in 0..MaxRequests
    BY <1>c, <2>1, MetricsAssumption DEF MetricsAssumption
  <2>3. n \in ConnectionType /\ n.answer = "none" /\ n.at = "none"
    BY <2>2, NewConnectionType DEF NewConnection
  <2> HIDE DEF n
  <2> QED
    BY <1>c, <2>1, <2>3, RouteRequestSound, PutKeeps
<1>3. CASE HandleTokenReview(k)
  <2>1. PICK v \in {"yes", "unnamed", "no", "error", "no_status", "no_authenticated"} :
          c.at = "token" /\ Put(k, [c EXCEPT !.authn = v])
    BY <1>3 DEF HandleTokenReview, c
  <2>2. [c EXCEPT !.authn = v] \in ConnectionType
    BY <1>c DEF Authns
  <2> QED
    BY <1>c, <2>1, <2>2, PutKeeps
<1>4. CASE HandleAccessReview(k)
  <2>1. PICK v \in {"yes", "no", "error", "no_status"} :
          c.at = "access" /\ Put(k, [c EXCEPT !.authz = v])
    BY <1>4 DEF HandleAccessReview, c
  <2>2. [c EXCEPT !.authz = v] \in ConnectionType
    BY <1>c DEF Authzs
  <2> QED
    BY <1>c, <2>1, <2>2, PutKeeps DEF Reviewed
<1>5. CASE TokenReviewed(k)
  <2>1. c.at = "token" /\ Put(k, AuthenticateToken(c))
    BY <1>5 DEF TokenReviewed, c
  <2>2. auth /\ c.request.authorization \in Tokens
    BY <1>c, <2>1
  <2>3. UserOf[c.request.authorization] \in Users /\ Unnamed \in Users
    BY <2>2 DEF Users
  <2>4. AuthenticateToken(c) \in ConnectionType
    BY <1>c, <2>3 DEF AuthenticateToken, Answer, Answers
  <2>5. Sound(AuthenticateToken(c))
    <3>1. CASE c.authn = "yes"
      BY <1>c, <2>2, <3>1 DEF AuthenticateToken, Reviewed
    <3>2. CASE c.authn = "unnamed"
      BY <1>c, <2>2, <3>2 DEF AuthenticateToken, Reviewed
    <3>3. CASE c.authn = "no"
      BY <1>c, <2>2, <3>3 DEF AuthenticateToken, Answer, AnswerJustified
    <3>4. CASE c.authn \notin {"yes", "unnamed", "no"}
      BY <1>c, <2>2, <3>4 DEF AuthenticateToken, Answer, AnswerJustified
    <3> QED
      BY <3>1, <3>2, <3>3, <3>4
  <2> QED
    BY <2>1, <2>4, <2>5, PutKeeps
<1>6. CASE AccessReviewed(k)
  <2>1. c.at = "access" /\ Put(k, AuthorizeMetricsAccess(c))
    BY <1>6 DEF AccessReviewed, c
  <2>2. auth /\ c.request.authorization \in Tokens /\ Reviewed(c)
    BY <1>c, <2>1
  <2>3. AuthorizeMetricsAccess(c) \in ConnectionType
    BY <1>c DEF AuthorizeMetricsAccess, Answer, Answers
  <2>4. Sound(AuthorizeMetricsAccess(c))
    <3>1. CASE c.authz = "yes"
      BY <1>c, <2>2, <3>1 DEF AuthorizeMetricsAccess, Answer, AnswerJustified, Reviewed
    <3>2. CASE c.authz = "no"
      BY <1>c, <2>2, <3>2 DEF AuthorizeMetricsAccess, Answer, AnswerJustified
    <3>3. CASE c.authz \notin {"yes", "no"}
      BY <1>c, <2>2, <3>3 DEF AuthorizeMetricsAccess, Answer, AnswerJustified
    <3> QED
      BY <3>1, <3>2, <3>3
  <2> QED
    BY <2>1, <2>3, <2>4, PutKeeps
<1>7. CASE ApiTimeout(k)
  <2>1. c.at \in {"token", "access"} /\ Put(k, Answer(c, "500"))
    BY <1>7 DEF ApiTimeout, c
  <2>2. auth /\ c.request.authorization \in Tokens
    BY <1>c, <2>1
  <2>3. Answer(c, "500") \in ConnectionType /\ Sound(Answer(c, "500"))
    BY <1>c, <2>2 DEF Answer, Answers, AnswerJustified
  <2> QED
    BY <2>1, <2>3, PutKeeps
<1>8. CASE KeepAlive(k)
  <2>1. Put(k, [c EXCEPT !.at = "reading"])
    BY <1>8 DEF KeepAlive, c
  <2> QED
    BY <1>c, <2>1, PutKeeps
<1>9. CASE Disconnect(k)
  <2>1. Put(k, Closed)
    BY <1>9 DEF Disconnect
  <2>2. Sound(Closed)
    BY DEF Closed, NewConnection
  <2> QED
    BY <2>1, <2>2, NewConnectionType, PutKeeps
<1> QED
  BY <1>0, <1>1, <1>2, <1>3, <1>4, <1>5, <1>6, <1>7, <1>8, <1>9

-----------------------------------------------------------------------------
(* The process.                                                             *)

ListenersInv ==
  /\ TlsTypeOK
  /\ MetricsInv
  /\ phase \in {"running", "draining", "stopping", "exited"}
  /\ listening <=> phase = "running"
  /\ accepting <=> phase \in {"running", "draining"}

(* The invariant holds at the start.                                        *)
LEMMA InitListeners == Init => ListenersInv
<1> SUFFICES ASSUME Init PROVE ListenersInv
  OBVIOUS
<1> USE DEF Init
<1>1. TlsTypeOK
  <2>1. /\ backlog \in Seq(Clients) /\ DOMAIN backlog = {}
        /\ client = [c \in Clients |-> "away"] /\ listening = TRUE
    BY DEF TlsInit
  <2>2. {backlog[i] : i \in DOMAIN backlog} = {} /\ {c \in Clients : client[c] = "backlog"} = {}
    BY <2>1
  <2> QED
    BY <2>1, <2>2 DEF TlsTypeOK
<1>2. MetricsInv
  <2>1. Sound(NewConnection)
    BY DEF Sound, Calling, NewConnection
  <2> QED
    BY <2>1, NewConnectionType DEF MetricsInit, MetricsInv
<1> QED
  BY <1>1, <1>2 DEF TlsInit, MetricsInit, ListenersInv

\* Each half of the invariant is about its own variables.
LEMMA TlsUnchanged ==
  ASSUME TlsTypeOK, UNCHANGED tls_vars
  PROVE  TlsTypeOK'
BY DEF tls_vars, TlsTypeOK

(* The metrics service while the TLS listener moves.                        *)
LEMMA MetricsUnchanged ==
  ASSUME MetricsInv, auth' = auth, conn' = conn, accepting' \in BOOLEAN
  PROVE  MetricsInv'
BY DEF MetricsInv, Sound, Calling, AnswerJustified, Reviewed

(* Every step keeps the invariant.                                          *)
LEMMA NextListeners == ListenersInv /\ [Next]_vars => ListenersInv'
<1> SUFFICES ASSUME ListenersInv, [Next]_vars PROVE ListenersInv'
  OBVIOUS
<1> USE DEF ListenersInv
<1>1. CASE Tls
  <2>1. TlsTypeOK'
    BY <1>1, TlsStepKeeps DEF Tls
  <2>2. auth' = auth /\ conn' = conn /\ accepting' = accepting /\ phase' = phase
    BY <1>1 DEF Tls, metrics_vars
  <2>3. MetricsInv'
    BY <2>2, MetricsUnchanged DEF MetricsInv
  <2>4. listening' = listening
    BY <1>1 DEF Tls, TlsStep, Accept, Connect, Handshake, Abort, HandshakeTimeout, Take, Move
  <2> QED
    BY <2>1, <2>2, <2>3, <2>4
<1>2. CASE Metrics
  <2>1. MetricsInv'
    BY <1>2, MetricsStepKeeps DEF Metrics
  <2>2. UNCHANGED tls_vars /\ phase' = phase
    BY <1>2 DEF Metrics
  <2>3. TlsTypeOK'
    BY <2>2, TlsUnchanged
  <2>4. accepting' = accepting
    BY <1>2 DEF Metrics, MetricsStep, AcceptConnection, ReadRequest, HandleTokenReview,
                HandleAccessReview, TokenReviewed, AccessReviewed, ApiTimeout, KeepAlive,
                Disconnect, Put
  <2> QED
    BY <2>1, <2>2, <2>3, <2>4 DEF tls_vars
<1>3. CASE Drain
  <2>1. TlsTypeOK' /\ ~listening'
    BY <1>3, CloseKeeps DEF Drain, CloseListener
  <2>2. auth' = auth /\ conn' = conn /\ accepting' = accepting /\ phase = "running"
          /\ phase' = "draining"
    BY <1>3 DEF Drain, metrics_vars
  <2>3. MetricsInv'
    BY <2>2, MetricsUnchanged DEF MetricsInv
  <2> QED
    BY <2>1, <2>2, <2>3
<1>4. CASE StopSidecars
  <2>1. UNCHANGED tls_vars /\ auth' = auth /\ conn' = conn /\ accepting' = FALSE
          /\ phase = "draining" /\ phase' = "stopping"
    BY <1>4 DEF StopSidecars, StopAccepting
  <2>2. TlsTypeOK' /\ MetricsInv'
    BY <2>1, TlsUnchanged, MetricsUnchanged
  <2> QED
    BY <2>1, <2>2 DEF tls_vars
<1>5. CASE Exit
  <2>1. UNCHANGED tls_vars /\ auth' = auth /\ accepting' = accepting
          /\ conn' = [k \in Connections |-> Closed]
          /\ phase = "stopping" /\ phase' = "exited"
    BY <1>5 DEF Exit
  <2>2. TlsTypeOK'
    BY <2>1, TlsUnchanged
  <2>3. \A k \in Connections : conn'[k] = Closed /\ Closed.at = "closed"
    BY <2>1 DEF Closed, NewConnection
  <2>4. \A k \in Connections : Sound(conn[k])'
    BY <2>3 DEF Sound, Calling
  <2>5. MetricsInv'
    BY <2>1, <2>4, NewConnectionType DEF MetricsInv
  <2> QED
    BY <2>1, <2>2, <2>5 DEF tls_vars
<1>6. CASE UNCHANGED vars
  <2>1. UNCHANGED tls_vars /\ auth' = auth /\ conn' = conn /\ accepting' = accepting
          /\ phase' = phase
    BY <1>6 DEF vars, metrics_vars
  <2>2. TlsTypeOK' /\ MetricsInv'
    BY <2>1, TlsUnchanged, MetricsUnchanged DEF MetricsInv
  <2> QED
    BY <2>1, <2>2 DEF tls_vars
<1> QED
  BY <1>1, <1>2, <1>3, <1>4, <1>5, <1>6 DEF Next

\* The inductive invariant of the two listeners.
THEOREM ListenersInvariant == Spec => []ListenersInv
<1> QED
  BY InitListeners, NextListeners, PTL DEF Spec

\* Types of the listeners' state, and the phases of the shutdown: what a phase has
\* closed is not open in a later one.
THEOREM ListenersTypeCorrect == Spec => []TypeOK
<1>1. ListenersInv => TypeOK
  <2> SUFFICES ASSUME ListenersInv PROVE TypeOK
    OBVIOUS
  <2>1. ASSUME NEW k \in Connections
        PROVE  /\ conn[k].at \in {"none", "reading", "token", "access", "answered", "closed"}
               /\ conn[k].request \in RequestType
               /\ conn[k].user \in Users
               /\ conn[k].answer \in Answers
               /\ conn[k].requests \in 0..MaxRequests
    <3>1. conn[k] \in ConnectionType
      BY DEF ListenersInv, MetricsInv
    <3> QED
      BY <3>1 DEF ConnectionType
  <2>2. MetricsTypeOK
    BY <2>1 DEF MetricsTypeOK, ListenersInv, MetricsInv, Answers
  <2> QED
    BY <2>2 DEF ListenersInv, TypeOK
<1> QED
  BY <1>1, ListenersInvariant, PTL

\* With metrics_auth enabled, serve_metrics renders the metrics only after the API
\* server has found the token of this very request valid and allowed its user.
THEOREM MetricsAuthorized == Spec => []RenderAuthorized
<1>1. ListenersInv => RenderAuthorized
  <2> SUFFICES ASSUME ListenersInv, NEW k \in Connections, auth, Answered(k),
                      conn[k].answer = "rendered"
               PROVE  conn[k].request.authorization \in Tokens /\ Reviewed(conn[k])
                        /\ conn[k].authz = "yes"
    BY DEF RenderAuthorized, Reviewed
  <2>1. Sound(conn[k])
    BY DEF ListenersInv, MetricsInv
  <2> QED
    BY <2>1 DEF Sound, AnswerJustified, Answered
<1> QED
  BY <1>1, ListenersInvariant, PTL

\* A 401 or a 403 is always a decision, never the face of a call to the API server
\* that failed or timed out; a 500 is only for a request that had to be reviewed.
THEOREM MetricsDenialsDecided == Spec => []DenialsDecided
<1>1. ListenersInv => DenialsDecided
  <2> SUFFICES ASSUME ListenersInv, NEW k \in Connections, Answered(k)
               PROVE  AnswerJustified(conn[k])
    BY DEF DenialsDecided, AnswerJustified
  <2> QED
    BY DEF ListenersInv, MetricsInv, Sound, Answered
<1> QED
  BY <1>1, ListenersInvariant, PTL
=============================================================================
