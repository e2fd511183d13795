-------------------------------- MODULE Startup --------------------------------
(***************************************************************************)
(* How the process starts (src/src/bin/praxis_extproc.rs, config.rs,        *)
(* tls.rs, fips.rs): the crypto provider, the limits, the configuration,    *)
(* the pipeline and the guardrail selector, and then either --validate or   *)
(* the services.  Both commands run here on the same inputs, each in its    *)
(* own process, so that what they conclude can be compared.  What follows   *)
(* once the process serves is the subject of ServerLifecycle.               *)
(***************************************************************************)
EXTENDS Sequences, GrpcLimits, ResponseMode

CONSTANTS
  Inputs,    \* files, environment, host and command line of a run
  Requests   \* the guardrail headers of requests to a serving process

None == "none"
Commands == {"validate", "serve"}
Listeners == {"grpc", "health", "metrics"}

\* TlsConfig with TlsMode.  A path is None, or names a file that is "ok",
\* "unreadable" or, for the key, of another certificate ("other").
TlsConfigs ==
  [mode : {None, "self_signed", "provided"},
   cert_path : {None, "ok", "unreadable"},
   key_path : {None, "ok", "unreadable", "other"},
   ca_cert_path : {None, "ok", "unreadable"},
   handshake_concurrency : Nat,
   handshake_timeout_secs : Nat]

\* ServerConfig with MetricsAuthConfig: addresses parse ("ok") or do not.
ServerConfigs ==
  [address : [Listeners -> {"ok", "malformed"}],
   tls : TlsConfigs,
   drain_timeout_secs : Nat,
   max_body_bytes : Nat,
   trust_forwarded_for : BOOLEAN,
   metrics_auth : BOOLEAN]

\* ExtProcConfig: names of the chains, whether their filters can be built, and
\* the entries the guardrail selector looks at.
ExtProcConfig(i) ==
  /\ i.chains \in Seq(STRING)
  /\ i.filters \in {"ok", "malformed"}
  /\ i.entries \subseteq GuardrailEntries
  /\ i.allow_unbounded_body \in BOOLEAN
  /\ i.server \in ServerConfigs
  /\ RecvEnv(i.recv_env)

ASSUME InputsAssumption == \A i \in Inputs : ExtProcConfig(i)

\* TlsConfig::default
DefaultTls ==
  [mode |-> None, cert_path |-> None, key_path |-> None, ca_cert_path |-> None,
   handshake_concurrency |-> 64, handshake_timeout_secs |-> 10]

\* MetricsAuthConfig::default
DefaultMetricsAuth == TRUE

\* ServerConfig::default
DefaultServer ==
  [address |-> [l \in Listeners |-> "ok"], tls |-> DefaultTls, drain_timeout_secs |-> 20,
   max_body_bytes |-> DefaultMaxBody, trust_forwarded_for |-> FALSE,
   metrics_auth |-> DefaultMetricsAuth]

VARIABLES
  input,    \* the inputs, which nothing changes
  process   \* per command: the process that runs it

vars == <<input, process>>

-----------------------------------------------------------------------------
(* fips.rs.  Status::unmet looks at the provider's own signal and at the    *)
(* kernel's flag, which may be unreadable.                                  *)

FipsActive(i) == i.provider_fips /\ i.kernel_fips = "on"

\* NON_FIPS_FILTERS: the store's other backends come with responses-full
NonFipsFilters(i) == {"policy"} \cup IF i.responses_full THEN {"store"} ELSE {}

\* blocker: by what is registered, whatever the configuration uses
Blocked(i) == i.registered \cap NonFipsFilters(i) # {}

\* Mutant: the filters of the binary are not looked at.
FipsRefusalByHost(i) == i.fips_required /\ ~FipsActive(i)

\* fips_refusal with require
FipsRefusal(i) == i.fips_required /\ (~FipsActive(i) \/ Blocked(i))

-----------------------------------------------------------------------------
(* config.rs.                                                               *)

\* load_config: a file that can be read, with known fields and with limits that
\* are greater than zero and fit their type
LoadConfig(i) ==
  /\ i.file = "ok"
  /\ i.server.drain_timeout_secs > 0
  /\ i.server.max_body_bytes \in 1..MaxUsize

\* max_body_accumulation; None is 0 here
MaxBodyAccumulation(i) == IF i.allow_unbounded_body THEN 0 ELSE i.server.max_body_bytes

\* build_pipeline: validate_chain_names, then the filters of all chains
BuildPipeline(i) ==
  /\ \A a, b \in DOMAIN i.chains : i.chains[a] = i.chains[b] => a = b
  /\ i.filters = "ok"

\* resolve_addresses with parse_addr: the command line overrides the file
ResolveAddresses(i) ==
  \A l \in Listeners : IF i.cli[l] = None THEN i.server.address[l] = "ok" ELSE i.cli[l] = "ok"

\* Mutant: the body alone has to fit.
BodyCannotFitRecvWithoutHeadroom(max_body, max_recv) ==
  max_body > 0 /\ max_recv < max_body

\* buffered_body_cannot_fit_recv, with a saturating addition
BufferedBodyCannotFitRecv(max_body, max_recv) ==
  max_body > 0
    /\ max_recv < IF max_body + Headroom > MaxUsize THEN MaxUsize ELSE max_body + Headroom

-----------------------------------------------------------------------------
(* tls.rs.  The host's OpenSSL is "ok", sets up no context of these         *)
(* protocols and ciphers ("no_context"), or generates no keys ("no_keys").  *)

\* Mutant: paths are accepted, and ignored, in every mode.
TlsValidateBounds(t) == t.handshake_concurrency > 0 /\ t.handshake_timeout_secs > 0

\* TlsConfig::validate
TlsValidate(t) ==
  /\ t.handshake_concurrency > 0
  /\ t.handshake_timeout_secs > 0
  /\ t.mode # "provided" => t.cert_path = None /\ t.key_path = None /\ t.ca_cert_path = None

\* ecdhe_acceptor
EcdheAcceptor(openssl) == openssl # "no_context"

\* self_signed_cert with generate_p256_key and append_leaf_extensions
SelfSignedCert(openssl) == openssl # "no_keys"

\* build_self_signed needs no file
BuildSelfSigned(openssl) == SelfSignedCert(openssl) /\ EcdheAcceptor(openssl)

\* build_provided: both paths are required, the files must be readable and the
\* key must be the certificate's
BuildProvided(t, openssl) ==
  /\ EcdheAcceptor(openssl)
  /\ t.cert_path = "ok"
  /\ t.key_path = "ok"
  /\ t.ca_cert_path \in {None, "ok"}

\* build_tls_config
BuildTlsConfig(t, openssl) ==
  /\ TlsValidate(t)
  /\ t.mode = "provided" => BuildProvided(t, openssl)
  /\ t.mode = "self_signed" => BuildSelfSigned(openssl)

\* The acceptor: whether there is one, and what set_verify asks of clients.
Acceptor(t) ==
  [tls |-> t.mode # None, verify |-> t.mode = "provided" /\ t.ca_cert_path # None]

NoAcceptor == [tls |-> FALSE, verify |-> FALSE]

-----------------------------------------------------------------------------
(* The processes.                                                           *)

\* Where processes end; a stage of prepare, of run or of either command that is
\* next is named after what it does.  One that must not serve starts its sidecars
\* as "unready_services".
Ends == {"valid", "error", "unready", "serving"}

\* PraxisExtProc::new with the defaults of its options, and of tonic for the
\* size of a message; a limit of 0 is None.
NewService ==
  [max_body_accumulation |-> DefaultMaxBody, max_decoding_message_size |-> CompiledRecv,
   trust_forwarded_for |-> FALSE, response_mode_selector |-> "off"]

NewProcess ==
  [at |-> "install", max_recv |-> 0, max_body |-> 0, selector |-> "off", warned |-> FALSE,
   acceptor |-> NoAcceptor, service |-> NewService,
   request |-> {}, streams |-> FALSE, guarded |-> FALSE]

Init ==
  /\ input \in Inputs
  /\ process = [c \in Commands |-> NewProcess]

At(c, step) == process[c].at = step

Go(c, p) ==
  /\ process' = [process EXCEPT ![c] = p]
  /\ UNCHANGED input

\* The step of a process: on if the condition holds, otherwise to another end.
Step(c, from, ok, p, otherwise) ==
  /\ At(c, from)
  /\ Go(c, IF ok THEN p ELSE [process[c] EXCEPT !.at = otherwise])

\* fips::install
InstallProvider(c) ==
  Step(c, "install", input.provider_installs, [process[c] EXCEPT !.at = "limits"], "error")

\* resolve_grpc_max_recv_msg_size
ResolveLimits(c) ==
  LET n == ResolveGrpcMaxRecvMsgSize(input.recv_env)
  IN Step(c, "limits", n.ok, [process[c] EXCEPT !.at = "load", !.max_recv = n.size], "error")

Load(c) ==
  Step(c, "load", LoadConfig(input),
       [process[c] EXCEPT !.at = "pipeline", !.max_body = MaxBodyAccumulation(input)], "error")

\* build_filter_registry, build_pipeline, whose error is kept for later, and
\* ResponseModeSelector::from_config
Build(c) ==
  Step(c, "pipeline", TRUE,
       [process[c] EXCEPT !.at = "addresses", !.selector = FromConfig(input.entries)], "error")

Addresses(c) ==
  Step(c, "addresses", ResolveAddresses(input), [process[c] EXCEPT !.at = "fips"], "error")

\* Where a process goes that may not serve: validate_config fails, run stays up
\* and reports NotServing.
Refused(c) == IF c = "validate" THEN "error" ELSE "unready_services"

\* fips_refusal, in validate_config and in run
FipsCheck(c) ==
  Step(c, "fips", ~FipsRefusal(input), [process[c] EXCEPT !.at = "built"], Refused(c))

\* The pipeline's error, in validate_config and in serve_pipeline.
PipelineCheck(c) ==
  Step(c, "built", BuildPipeline(input),
       [process[c] EXCEPT !.at = IF c = "validate" THEN "tls" ELSE "services"], Refused(c))

\* build_kube_client: outside a cluster there is no client to be had
BuildKubeClient(i) == i.server.metrics_auth => i.in_cluster

\* bind_listener of the metrics service
BindListener(i) == i.binds["metrics"]

\* run_with_sidecars: the foreground starts once the metrics service has its
\* Kubernetes client and its address.
MetricsStart(i) == BuildKubeClient(i) /\ BindListener(i)

StartServices(c) ==
  \/ Step(c, "services", MetricsStart(input), [process[c] EXCEPT !.at = "tls"], "error")
  \/ Step(c, "unready_services", MetricsStart(input), [process[c] EXCEPT !.at = "unready"],
          "error")

\* The health service could not bind, which ends the process whenever its task
\* is looked at.
HealthFails(c) ==
  /\ c = "serve" /\ ~input.binds["health"]
  /\ process[c].at \in {"tls", "bind", "serving", "unready"}
  /\ Go(c, [process[c] EXCEPT !.at = "error"])

\* Mutant: validation takes the settings as they are.
TlsSetupWhenServing(c) ==
  /\ At(c, "tls")
  /\ LET ok == c = "validate" \/ BuildTlsConfig(input.server.tls, input.openssl)
         cannot_fit == BufferedBodyCannotFitRecv(process[c].max_body, process[c].max_recv)
     IN Go(c, [process[c] EXCEPT
                 !.at = IF ~ok THEN "error" ELSE IF c = "validate" THEN "valid" ELSE "bind",
                 !.warned = cannot_fit,
                 !.acceptor = IF ok THEN Acceptor(input.server.tls) ELSE NoAcceptor])

\* build_tls_config and the warning: validate_config warns after it, serve_grpc
\* before it
TlsSetup(c) ==
  /\ At(c, "tls")
  /\ LET ok == BuildTlsConfig(input.server.tls, input.openssl)
         cannot_fit == BufferedBodyCannotFitRecv(process[c].max_body, process[c].max_recv)
     IN Go(c, [process[c] EXCEPT
                 !.at = IF ~ok THEN "error" ELSE IF c = "validate" THEN "valid" ELSE "bind",
                 !.warned = cannot_fit /\ (ok \/ c = "serve"),
                 !.acceptor = IF ok THEN Acceptor(input.server.tls) ELSE NoAcceptor])

\* The with_... options of PraxisExtProc and external_processor_server
Service(p) ==
  [NewService EXCEPT !.max_body_accumulation = p.max_body,
                     !.max_decoding_message_size = p.max_recv,
                     !.trust_forwarded_for = input.server.trust_forwarded_for,
                     !.response_mode_selector = p.selector]

\* serve_plaintext or serve_tls, with the PraxisExtProc of serve_grpc
Serve(c) ==
  Step(c, "bind", input.binds["grpc"],
       [process[c] EXCEPT !.at = "serving", !.service = Service(process[c])], "error")

\* A request to the serving process, with its guardrail headers: one, since the
\* selector keeps nothing of a request.
Request(headers) ==
  /\ At("serve", "serving")
  /\ process["serve"].request = {}
  /\ LET p == process["serve"]
         selector == p.service.response_mode_selector
         guard == GuardOf(input.entries, headers)
     IN Go("serve", [p EXCEPT !.request = {headers},
                              !.streams = ShouldStream(selector, guard),
                              !.guarded = HasSelectedGuardrail(selector, guard)])

Next ==
  \/ \E c \in Commands : \/ InstallProvider(c)
                         \/ ResolveLimits(c)
                         \/ Load(c)
                         \/ Build(c)
                         \/ Addresses(c)
                         \/ FipsCheck(c)
                         \/ PipelineCheck(c)
                         \/ StartServices(c)
                         \/ HealthFails(c)
                         \/ TlsSetup(c)
                         \/ Serve(c)
  \/ \E headers \in Requests : Request(headers)

Spec == Init /\ [][Next]_vars

-----------------------------------------------------------------------------
(* Properties.                                                              *)

\* What a host can lack that no validation of a configuration can know of.
HostServes(i) == MetricsStart(i) /\ i.binds["grpc"] /\ i.binds["health"]

\* `praxis-extproc -t` and the server come to the same conclusion: what validates
\* serves on a host that lets it, and what does not validate never serves
\* (prepare: "so `praxis-extproc -t` matches serve-time behaviour").
ValidateAgrees ==
  /\ At("validate", "valid") /\ process["serve"].at \in Ends /\ HostServes(input) =>
       At("serve", "serving")
  /\ At("validate", "error") => ~At("serve", "serving")

\* With PRAXIS_REQUIRE_FIPS a process serves only if the provider and the kernel
\* both say FIPS and the binary carries no cryptography of its own; one that may
\* not serve, for this or for its filters, stays up and can be inspected where the
\* host lets it, once its settings could be read (serve_unready: "keeping the
\* process alive and inspectable").
FipsOrInspectable ==
  LET refused == \/ ~FipsActive(input)
                 \/ "policy" \in input.registered
                 \/ input.responses_full /\ "store" \in input.registered
  IN /\ input.fips_required /\ refused => process["serve"].at \notin {"bind", "serving"}
     /\ /\ At("serve", "error") /\ HostServes(input)
        /\ input.provider_installs /\ ResolveGrpcMaxRecvMsgSize(input.recv_env).ok
        /\ LoadConfig(input) /\ ResolveAddresses(input)
        => ~(input.fips_required /\ refused) /\ BuildPipeline(input)

\* A configured CA is never silently ignored: a process that serves with it makes
\* clients present a certificate, over TLS.
ClientCertificatesRequired ==
  At("serve", "serving") /\ input.server.tls.ca_cert_path # None =>
    process["serve"].acceptor = [tls |-> TRUE, verify |-> TRUE]

\* A receive size that was accepted is the exact one rounded up to whole bytes,
\* positive and within usize; overflow on the way never yields a small size.
ReceiveSizeExact ==
  \A c \in Commands :
    process[c].max_recv > 0 /\ input.recv_env.kind = "quantity" =>
      LET scale == 10 ^ input.recv_env.quantity.fraction.digits
          exact == Exact(input.recv_env.quantity)
      IN /\ process[c].max_recv <= MaxUsize
         /\ process[c].max_recv * scale >= exact
         /\ (process[c].max_recv - 1) * scale < exact

\* Without a warning a body at the accumulation limit and its framing fit one
\* message of the service, so that the 413 of the handler is reached and not an
\* error of tonic; nor does a validation without one promise less.
LimitsFitOrWarned ==
  /\ LET s == process["serve"].service
     IN /\ At("serve", "serving")
        /\ s.max_body_accumulation > 0
        /\ s.max_body_accumulation + Headroom <= MaxUsize
        /\ ~process["serve"].warned
        => s.max_body_accumulation + Headroom <= s.max_decoding_message_size
  /\ At("validate", "valid") /\ At("serve", "serving") =>
       process["validate"].warned = process["serve"].warned

\* Whether a guardrail entry may act on a request: a condition of a shape the
\* selector does not know may hold, and so may a repeated header.
MayRun(entry, headers) ==
  entry.guardrail /\ (entry.conditions \in {"none", "unsupported"}
                        \/ \E v \in DOMAIN headers[entry.conditions] :
                             headers[entry.conditions][v] = "true")

\* A response is streamed past the guardrails only if none of them acts on
\* responses of this request, and FULL_DUPLEX_STREAMED is refused whenever one
\* acts on it at all, for every configuration that was accepted.
GuardrailsNotBypassed ==
  At("serve", "serving") =>
    \A headers \in process["serve"].request, entry \in input.entries :
      MayRun(entry, headers) =>
        /\ entry.response \in {"true", "malformed"} => ~process["serve"].streams
        /\ entry.request # "false" \/ entry.response = "true" => process["serve"].guarded
=============================================================================
