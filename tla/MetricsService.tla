---------------------------- MODULE MetricsService ----------------------------
(***************************************************************************)
(* The metrics endpoint (src/src/metrics.rs): one task per connection       *)
(* routes its requests, one after the other, and has the Kubernetes API     *)
(* review the bearer token and then the access of its user.  The API        *)
(* server decides when it handles a call; its reply may come, or not.       *)
(***************************************************************************)
EXTENDS Naturals

CONSTANTS
  Connections,   \* connections to the metrics address
  Tokens,        \* bearer tokens
  UserOf,        \* [Tokens -> users]
  HttpRequests,  \* requests that clients make
  MaxRequests    \* bound on the requests of one connection

\* authorization: a token, "missing", or "other" for what is not a bearer token
RequestType == [path : {"/healthz", "/metrics", "other"}, method : {"GET", "POST"},
                authorization : Tokens \cup {"missing", "other"}]

ASSUME MetricsAssumption ==
  /\ HttpRequests \subseteq RequestType
  /\ MaxRequests \in Nat
  /\ DOMAIN UserOf = Tokens
  /\ {"missing", "other"} \cap Tokens = {}

\* The username of a review without one (unwrap_or_default).
Unnamed == ""
Users == {UserOf[t] : t \in Tokens} \cup {Unnamed}

VARIABLES
  auth,       \* metrics_auth.enabled: there is a kube client
  accepting,  \* accept_loop runs
  conn        \* per connection: its task

metrics_vars == <<auth, accepting, conn>>

Idle == [path |-> "other", method |-> "GET", authorization |-> "missing"]

\* at: where the task is; "token" and "access" are the calls it waits for, and
\* authn and authz what the API server decided on them.
NewConnection ==
  [at |-> "none", request |-> Idle, user |-> Unnamed, authn |-> "none", authz |-> "none",
   answer |-> "none", requests |-> 0]

MetricsInit ==
  /\ auth \in BOOLEAN
  /\ accepting = TRUE
  /\ conn = [k \in Connections |-> NewConnection]

Put(k, c) ==
  /\ conn' = [conn EXCEPT ![k] = c]
  /\ UNCHANGED <<auth, accepting>>

Answer(c, status) == [c EXCEPT !.at = "answered", !.answer = status]

\* accept_loop and serve_connection
AcceptConnection(k) ==
  /\ accepting
  /\ conn[k].at = "none"
  /\ Put(k, [conn[k] EXCEPT !.at = "reading"])

\* serve_metrics up to its first call; "rendered" is a 200 with the metrics.
ServeMetrics(c) ==
  IF ~auth THEN Answer(c, "rendered")
  ELSE IF c.request.authorization \notin Tokens THEN Answer(c, "401")
  ELSE [c EXCEPT !.at = "token"]

\* route_request
RouteRequest(c) ==
  CASE c.request.path = "/healthz" -> Answer(c, "200")
    [] c.request.path = "/metrics" /\ c.request.method = "GET" -> ServeMetrics(c)
    [] c.request.path = "/metrics" /\ c.request.method # "GET" -> Answer(c, "405")
    [] OTHER -> Answer(c, "404")

\* Mutant: a connection keeps the user it was reviewed for.
ReadRequestKeepsUser(k, request) ==
  /\ conn[k].at = "reading"
  /\ conn[k].requests < MaxRequests
  /\ LET c == [conn[k] EXCEPT !.request = request, !.requests = @ + 1, !.authz = "none"]
     IN Put(k, IF c.authn = "yes" /\ request.path = "/metrics" THEN [c EXCEPT !.at = "access"]
               ELSE RouteRequest(c))

\* The next request of the connection: nothing of the one before is kept.
ReadRequest(k, request) ==
  /\ conn[k].at = "reading"
  /\ conn[k].requests < MaxRequests
  /\ Put(k, RouteRequest([NewConnection EXCEPT !.request = request,
                                               !.requests = conn[k].requests + 1]))

\* The API server handles a call.  "unnamed" is a review without a user, and the
\* last three are no decision: an error, and a reply without what is needed.
HandleTokenReview(k) ==
  /\ conn[k].at = "token" /\ conn[k].authn = "none"
  /\ \E v \in {"yes", "unnamed", "no", "error", "no_status", "no_authenticated"} :
       Put(k, [conn[k] EXCEPT !.authn = v])

HandleAccessReview(k) ==
  /\ conn[k].at = "access" /\ conn[k].authz = "none"
  /\ \E v \in {"yes", "no", "error", "no_status"} : Put(k, [conn[k] EXCEPT !.authz = v])

\* Mutant: whoever is not found authenticated is turned away.
AuthenticateTokenDenies(c) ==
  CASE c.authn = "yes" -> [c EXCEPT !.at = "access", !.user = UserOf[c.request.authorization]]
    [] c.authn = "unnamed" -> [c EXCEPT !.at = "access", !.user = Unnamed]
    [] OTHER -> Answer(c, "401")

\* authenticate_token and its match in serve_metrics
AuthenticateToken(c) ==
  CASE c.authn = "yes" -> [c EXCEPT !.at = "access", !.user = UserOf[c.request.authorization]]
    [] c.authn = "unnamed" -> [c EXCEPT !.at = "access", !.user = Unnamed]
    [] c.authn = "no" -> Answer(c, "401")
    [] OTHER -> Answer(c, "500")

TokenReviewed(k) ==
  /\ conn[k].at = "token" /\ conn[k].authn # "none"
  /\ Put(k, AuthenticateToken(conn[k]))

\* authorize_metrics_access and its match in serve_metrics
AuthorizeMetricsAccess(c) ==
  CASE c.authz = "yes" -> Answer(c, "rendered")
    [] c.authz = "no" -> Answer(c, "403")
    [] OTHER -> Answer(c, "500")

AccessReviewed(k) ==
  /\ conn[k].at = "access" /\ conn[k].authz # "none"
  /\ Put(k, AuthorizeMetricsAccess(conn[k]))

\* Mutant: the deadline passes without an answer.
ApiTimeoutWaits(k) ==
  /\ conn[k].at \in {"token", "access"}
  /\ UNCHANGED metrics_vars

\* KUBERNETES_API_TIMEOUT in kubernetes_create, whether or not the server has
\* handled the call.
ApiTimeout(k) ==
  /\ conn[k].at \in {"token", "access"}
  /\ Put(k, Answer(conn[k], "500"))

\* The client has read the answer, and may send another request.
KeepAlive(k) ==
  /\ conn[k].at = "answered"
  /\ Put(k, [conn[k] EXCEPT !.at = "reading"])

Closed == [NewConnection EXCEPT !.at = "closed"]

\* The client is gone, and hyper drops the task.
Disconnect(k) ==
  /\ conn[k].at \notin {"none", "closed"}
  /\ Put(k, Closed)

\* The shutdown future of accept_loop: the tasks of its connections go on.
StopAccepting ==
  /\ accepting
  /\ accepting' = FALSE
  /\ UNCHANGED <<auth, conn>>

MetricsStep ==
  \E k \in Connections :
    \/ AcceptConnection(k)
    \/ \E request \in HttpRequests : ReadRequest(k, request)
    \/ HandleTokenReview(k)
    \/ HandleAccessReview(k)
    \/ TokenReviewed(k)
    \/ AccessReviewed(k)
    \/ ApiTimeout(k)
    \/ KeepAlive(k)
    \/ Disconnect(k)

\* The timer of a call fires.  Neither the API server nor the client need act.
MetricsFairness == \A k \in Connections : WF_metrics_vars(ApiTimeout(k))

-----------------------------------------------------------------------------

Answered(k) == conn[k].at = "answered"

MetricsTypeOK ==
  /\ auth \in BOOLEAN
  /\ accepting \in BOOLEAN
  /\ \A k \in Connections :
       /\ conn[k].at \in {"none", "reading", "token", "access", "answered", "closed"}
       /\ conn[k].request \in RequestType
       /\ conn[k].user \in Users
       /\ conn[k].answer \in {"none", "rendered", "200", "401", "403", "404", "405", "500"}
       /\ conn[k].requests \in 0..MaxRequests

\* Metrics are rendered only for a request whose own token the API server found
\* valid and whose user, not that of an earlier request, it allowed to read them.
RenderAuthorized ==
  \A k \in Connections :
    auth /\ Answered(k) /\ conn[k].answer = "rendered" =>
      /\ conn[k].request.authorization \in Tokens
      /\ conn[k].authn \in {"yes", "unnamed"}
      /\ conn[k].authz = "yes"
      /\ conn[k].user = IF conn[k].authn = "yes" THEN UserOf[conn[k].request.authorization]
                        ELSE Unnamed

\* A client is told that it may not read the metrics only if that was decided: a
\* call that failed or timed out is a 500 ("callers must return 500 for that case,
\* not 401"), and a 500 is never the answer to a request without a call.
DenialsDecided ==
  \A k \in Connections :
    Answered(k) =>
      /\ conn[k].answer = "401" => conn[k].request.authorization \notin Tokens
                                     \/ conn[k].authn = "no"
      /\ conn[k].answer = "403" => conn[k].authz = "no"
      /\ conn[k].answer = "500" => auth /\ conn[k].request.authorization \in Tokens

\* A scrape is answered or its client leaves, even if the API server is silent
\* ("this bound is what stops a stalled control plane from pinning the scrape task").
ScrapeAnswered ==
  \A k \in Connections :
    conn[k].at = "token" ~> conn[k].at \in {"answered", "closed"}
=============================================================================
