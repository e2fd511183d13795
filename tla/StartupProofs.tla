---------------------------- MODULE StartupProofs ----------------------------
(***************************************************************************)
(* Theorems about Startup and FipsProbe, for any set of inputs and requests *)
(* and any limits: a process that is behind a check has passed it, and one   *)
(* that ended has a reason among its inputs.                                *)
(***************************************************************************)
EXTENDS FipsProbe, TLAPS

Stages ==
    {"install", "limits", "load", "pipeline", "addresses", "fips", "built", "services", "tls",
     "bind", "unready_services"} \cup Ends

ServiceType ==
    [max_body_accumulation : Nat, max_decoding_message_size : Nat,
     trust_forwarded_for : BOOLEAN, response_mode_selector : Selectors]

ProcessType ==
    [at : Stages, max_recv : Nat, max_body : Nat, selector : Selectors, warned : BOOLEAN,
     acceptor : [tls : BOOLEAN, verify : BOOLEAN], service : ServiceType,
     request : SUBSET Requests, streams : BOOLEAN, guarded : BOOLEAN]

(* The stages that lie behind each step, for the process that comes past it. *)
PastInstall == Stages \ {"install", "error"}
PastLimits == PastInstall \ {"limits"}
PastLoad == PastLimits \ {"load"}
PastBuild == PastLoad \ {"pipeline"}
PastAddresses == PastBuild \ {"addresses"}
PastFips == PastAddresses \ {"fips", "unready_services", "unready"}
PastPipeline == PastFips \ {"built"}
PastTls == PastPipeline \ {"services", "tls"}

(* prepare got everything it needs.                                         *)
Prepared(i) ==
    /\ i.provider_installs
    /\ ResolveGrpcMaxRecvMsgSize(i.recv_env).ok
    /\ LoadConfig(i)
    /\ ResolveAddresses(i)

(* What the checks that a process has passed say about its inputs.          *)
ChecksPassed(i, p) ==
    /\ p.at \in PastInstall => i.provider_installs
    /\ p.at \in PastLimits => ResolveGrpcMaxRecvMsgSize(i.recv_env).ok
    /\ p.at \in PastLoad => LoadConfig(i)
    /\ p.at \in PastAddresses => ResolveAddresses(i)
    /\ p.at \in PastFips => ~FipsRefusal(i)
    /\ p.at \in PastPipeline => BuildPipeline(i)
    /\ p.at \in PastTls => BuildTlsConfig(i.server.tls, i.openssl)

(* The settings a process has taken from its inputs by then.                *)
SettingsTaken(i, p) ==
    /\ p.max_recv \in {0, ResolveGrpcMaxRecvMsgSize(i.recv_env).size}
    /\ p.at \in PastLimits => p.max_recv = ResolveGrpcMaxRecvMsgSize(i.recv_env).size
    /\ p.at \in PastLoad => p.max_body = MaxBodyAccumulation(i)
    /\ p.at \in PastBuild => p.selector = FromConfig(i.entries)
    /\ p.at \in PastTls => /\ p.acceptor = Acceptor(i.server.tls)
                           /\ p.warned = BufferedBodyCannotFitRecv(p.max_body, p.max_recv)
    /\ p.at = "serving" => /\ p.service.max_body_accumulation = p.max_body
                           /\ p.service.max_decoding_message_size = p.max_recv
                           /\ p.service.response_mode_selector = p.selector

(* Each command has its stages, and each end its reason.                    *)
EndsJustified(i, c, p) ==
    /\ c = "validate" => p.at \notin {"services", "bind", "serving", "unready_services", "unready"}
    /\ c = "serve" => p.at # "valid"
    /\ p.at \in {"unready_services", "unready"} => FipsRefusal(i) \/ ~BuildPipeline(i)
    /\ p.at = "error" =>
         \/ ~Prepared(i)
         \/ c = "validate" /\ (FipsRefusal(i) \/ ~BuildPipeline(i))
         \/ c = "serve" /\ ~HostServes(i)
         \/ /\ ~FipsRefusal(i) /\ BuildPipeline(i)
            /\ ~BuildTlsConfig(i.server.tls, i.openssl)

(* What the process remembers of the one request it saw.                    *)
RequestDecided(i, p) ==
    \A headers \in p.request :
      /\ p.streams = ShouldStream(p.service.response_mode_selector, GuardOf(i.entries, headers))
      /\ p.guarded =
           HasSelectedGuardrail(p.service.response_mode_selector, GuardOf(i.entries, headers))

Passed(i, c, p) ==
    /\ p \in ProcessType
    /\ ChecksPassed(i, p)
    /\ SettingsTaken(i, p)
    /\ EndsJustified(i, c, p)
    /\ p.at # "serving" /\ p.at # "error" => p.request = {}
    /\ RequestDecided(i, p)

StartInv ==
    /\ input \in Inputs
    /\ DOMAIN process = Commands
    /\ process = [c \in Commands |-> process[c]]
    /\ \A c \in Commands : Passed(input, c, process[c])

-----------------------------------------------------------------------------
(* The operators on the inputs.                                             *)

(* Division with remainder, as the provers' arithmetic has it.              *)
LEMMA Division ==
    ASSUME NEW a \in Nat, NEW s \in Nat, s > 0
    PROVE  /\ a \div s \in Nat
           /\ a % s \in 0 .. (s - 1)
           /\ a = s * (a \div s) + (a % s)
  OBVIOUS

(* scale_and_ceil rounds up to whole bytes.                                 *)
LEMMA CeilingExact ==
    ASSUME NEW i \in Nat, NEW scale \in Nat, scale > 0, NEW f \in Nat, NEW m \in Nat,
           ScaleAndCeil(i, scale, f, m).ok
    PROVE  LET n == ScaleAndCeil(i, scale, f, m).size
               exact == (i * scale + f) * m
           IN n \in Nat /\ n * scale >= exact /\ (n > 0 => (n - 1) * scale < exact)
<1> DEFINE exact == (i * scale + f) * m
           d == exact \div scale
           r == exact % scale
<1>1. exact \in Nat
  OBVIOUS
<1>2. d \in Nat /\ r \in 0 .. (scale - 1) /\ exact = scale * d + r
  BY <1>1, Division
<1>3. ScaleAndCeil(i, scale, f, m).size = IF r = 0 THEN d ELSE d + 1
  BY DEF ScaleAndCeil, Checked, Failed, Size
<1> HIDE DEF exact, d, r
<1>4. CASE r = 0
  <2>1. d * scale = exact
    BY <1>2, <1>4
  <2>2. (d - 1) * scale = exact - scale
    BY <1>2, <1>4
  <2> QED
    BY <1>1, <1>2, <1>3, <1>4, <2>1, <2>2 DEF exact
<1>5. CASE r # 0
  <2>1. (d + 1) * scale = scale * d + scale
    BY <1>2
  <2>2. ((d + 1) - 1) * scale = scale * d
    BY <1>2
  <2> QED
    BY <1>1, <1>2, <1>3, <1>5, <2>1, <2>2 DEF exact
<1> QED
  BY <1>4, <1>5

(* The size of a message is a number, zero if there is none.                *)
LEMMA ResolvedSize ==
    ASSUME NEW env, RecvEnv(env)
    PROVE  LET n == ResolveGrpcMaxRecvMsgSize(env)
           IN /\ n.size \in Nat
              /\ n.ok <=> n.size > 0
              /\ n.size <= MaxUsize
              /\ n.ok /\ env.kind = "quantity" =>
                   LET scale == 10 ^ env.quantity.fraction.digits
                   IN /\ n.size * scale >= Exact(env.quantity)
                      /\ (n.size - 1) * scale < Exact(env.quantity)
<1> DEFINE q == env.quantity
           n == ResolveGrpcMaxRecvMsgSize(env)
           parsed == ParseMsgSizeBytes(q)
           decimal == ParseDecimalQuantity(q, Multipliers[q.suffix])
<1>0. /\ MaxUsize \in Nat /\ MaxU128 \in Nat /\ DefaultRecv \in Nat /\ DefaultRecv > 0
      /\ DefaultRecv <= MaxUsize
      /\ \A s \in Suffixes : Multipliers[s] \in Nat
      /\ "none" \notin Suffixes
  BY GrpcLimitsAssumption DEF DefaultRecv, Suffixes
<1>1. CASE env.kind = "unset"
  BY <1>0, <1>1 DEF ResolveGrpcMaxRecvMsgSize, Size
<1>2. CASE env.kind = "not_unicode"
  BY <1>0, <1>2 DEF ResolveGrpcMaxRecvMsgSize, Failed
<1>3. CASE env.kind = "quantity"
  <2>0. /\ q.integer.value \in Nat /\ q.fraction.value \in Nat
        /\ 10 ^ q.fraction.digits \in Nat /\ 10 ^ q.fraction.digits > 0
        /\ ~q.point => q.fraction.digits = 0
    BY <1>3 DEF RecvEnv
  <2>1. n = IF parsed.size = 0 THEN Failed ELSE parsed
    BY <1>3 DEF ResolveGrpcMaxRecvMsgSize
  <2>2. CASE PlainInteger(q)
    <3>1. parsed = Size(q.integer.value) /\ q.integer.value <= MaxUsize
      BY <2>2 DEF ParseMsgSizeBytes, PlainInteger
    <3>2. q.fraction.digits = 0 /\ 10 ^ 0 = 1 /\ q.suffix = "none"
      BY <2>0, <2>2 DEF PlainInteger
    <3>3. q.fraction.value = 0
      BY <1>3, <2>0, <3>2 DEF RecvEnv
    <3>4. Exact(q) = q.integer.value
      BY <2>0, <3>2, <3>3 DEF Exact
    <3> QED
      BY <1>0, <1>3, <2>0, <2>1, <3>1, <3>2, <3>4 DEF Size, Failed
  <2>3. CASE ~PlainInteger(q)
    <3>1. parsed = ParseK8sQuantity(q)
      BY <2>3 DEF ParseMsgSizeBytes
    <3>2. CASE ParseK8sQuantity(q) = Failed
      BY <1>0, <1>3, <2>1, <3>1, <3>2 DEF Failed
    <3>3. CASE ParseK8sQuantity(q) # Failed
      <4>1. /\ q.suffix \in Suffixes
            /\ ParseK8sQuantity(q) = decimal
            /\ decimal.ok /\ decimal.size # 0 /\ ~(decimal.size > MaxUsize)
        BY <3>3 DEF ParseK8sQuantity
      <4>2. decimal = ScaleAndCeil(q.integer.value, 10 ^ q.fraction.digits, q.fraction.value,
                                   Multipliers[q.suffix])
        BY <4>1 DEF ParseDecimalQuantity, Failed
      <4> DEFINE i == q.integer.value
                 s == 10 ^ q.fraction.digits
                 f == q.fraction.value
                 m == Multipliers[q.suffix]
      <4>a. i \in Nat /\ s \in Nat /\ s > 0 /\ f \in Nat /\ m \in Nat
        BY <1>0, <2>0, <4>1
      <4>b. ScaleAndCeil(i, s, f, m) = decimal
        BY <4>2
      <4> HIDE DEF i, s, f, m
      <4>c. /\ decimal.size \in Nat
            /\ decimal.size * s >= (i * s + f) * m
            /\ decimal.size > 0 => (decimal.size - 1) * s < (i * s + f) * m
        BY <4>1, <4>a, <4>b, CeilingExact
      <4>3. LET scale == 10 ^ q.fraction.digits
                exact == (q.integer.value * scale + q.fraction.value) * Multipliers[q.suffix]
            IN /\ decimal.size \in Nat
               /\ decimal.size * scale >= exact
               /\ decimal.size > 0 => (decimal.size - 1) * scale < exact
        BY <4>c DEF i, s, f, m
      <4>4. Exact(q) = (q.integer.value * 10 ^ q.fraction.digits + q.fraction.value)
                         * Multipliers[q.suffix]
        BY <1>0, <4>1 DEF Exact
      <4> QED
        BY <1>0, <1>3, <2>0, <2>1, <3>1, <4>1, <4>3, <4>4
    <3> QED
      BY <3>2, <3>3
  <2> QED
    BY <2>2, <2>3
<1>4. env.kind \in {"unset", "not_unicode", "quantity"}
  BY DEF RecvEnv
<1> QED
  BY <1>1, <1>2, <1>3, <1>4

(* What the selector of a configuration says about its guardrails.          *)
LEMMA SelectorCases ==
    ASSUME NEW entries
    PROVE  LET s == FromConfig(entries)
           IN \/ s = "off" /\ Guardrails(entries) = {}
              \/ s = "invalid"
              \/ /\ s \in {"always", "unconditional", "conditional"}
                 /\ \A e \in Guardrails(entries) :
                      /\ SupportedEntry(e)
                      /\ s # "always" /\ Active(e) /\ Unconditional(e) =>
                           ~GuardrailPhase(e, "response")
                      /\ s = "conditional" => ~(Active(e) /\ Unconditional(e))
<1> DEFINE guardrails == Guardrails(entries)
           always == {entry \in {e \in guardrails : Active(e)} : Unconditional(entry)}
           unsupported == \E entry \in guardrails : ~SupportedEntry(entry)
           output == \E entry \in always : GuardrailPhase(entry, "response")
<1>1. FromConfig(entries) = IF guardrails = {} THEN "off"
                            ELSE IF unsupported THEN "invalid"
                            ELSE IF output THEN "always"
                            ELSE IF always # {} THEN "unconditional"
                            ELSE "conditional"
  BY DEF FromConfig
<1> HIDE DEF guardrails, always, unsupported, output
<1>2. \/ FromConfig(entries) = "off" /\ guardrails = {}
      \/ FromConfig(entries) = "invalid"
      \/ /\ FromConfig(entries) \in {"always", "unconditional", "conditional"}
         /\ ~unsupported
         /\ FromConfig(entries) # "always" => ~output
         /\ FromConfig(entries) = "conditional" => always = {}
  BY <1>1
<1>3. \A e \in guardrails : Active(e) /\ Unconditional(e) => e \in always
  BY DEF always
<1>4. ~unsupported => \A e \in guardrails : SupportedEntry(e)
  BY DEF unsupported
<1>5. ~output => \A e \in always : ~GuardrailPhase(e, "response")
  BY DEF output
<1> QED
  BY <1>2, <1>3, <1>4, <1>5, Zenon DEF guardrails

(* from_config yields a selector.                                           *)
LEMMA SelectorTyped == \A entries : FromConfig(entries) \in Selectors
<1>1. SUFFICES ASSUME NEW entries PROVE FromConfig(entries) \in Selectors
  OBVIOUS
<1> QED
  BY SelectorCases DEF Selectors

(* The limits of a configuration that was loaded are positive and fit.      *)
LEMMA BodyLimit ==
    ASSUME NEW i, ExtProcConfig(i)
    PROVE  MaxBodyAccumulation(i) \in Nat
  BY DEF ExtProcConfig, ServerConfigs, MaxBodyAccumulation

-----------------------------------------------------------------------------
(* A process is behind a check only if it has passed it.                    *)

(* A process that goes on from one stage to the next, or that ends.         *)
LEMMA GoPassed ==
    ASSUME StartInv, NEW c \in Commands, NEW p, Go(c, p), Passed(input, c, p)
    PROVE  StartInv'
  BY DEF StartInv, Go

(* The stages one after the other.                                          *)
USE DEF Stages, Ends, PastInstall, PastLimits, PastLoad, PastBuild, PastAddresses, PastFips,
        PastPipeline, PastTls

(* From the provider to the addresses.                                      *)
LEMMA PrepareKeeps ==
    ASSUME StartInv, NEW c \in Commands,
           \/ InstallProvider(c) \/ ResolveLimits(c) \/ Load(c) \/ Build(c) \/ Addresses(c)
    PROVE  StartInv'
<1>0. /\ Passed(input, c, process[c]) /\ process[c] \in ProcessType
      /\ input \in Inputs /\ ExtProcConfig(input)
  BY InputsAssumption DEF StartInv, Passed
<1>a. /\ ResolveGrpcMaxRecvMsgSize(input.recv_env).size \in Nat
      /\ MaxBodyAccumulation(input) \in Nat
  BY <1>0, ResolvedSize, BodyLimit DEF ExtProcConfig
<1> DEFINE q == process[c]
           stop == [q EXCEPT !.at = "error"]
<1>1. ASSUME stop.at = "error", ~Prepared(input) PROVE Passed(input, c, stop)
  BY <1>0, <1>1
  DEF Passed, ProcessType, ChecksPassed, SettingsTaken, EndsJustified, RequestDecided, Commands
<1>2. CASE InstallProvider(c)
  <2> DEFINE p == [q EXCEPT !.at = "limits"]
  <2>1. q.at = "install" /\ Go(c, IF input.provider_installs THEN p ELSE stop)
    BY <1>2 DEF InstallProvider, Step, At
  <2>2. input.provider_installs => Passed(input, c, p)
    BY <1>0, <2>1
    DEF Passed, ProcessType, ChecksPassed, SettingsTaken, EndsJustified, RequestDecided, Commands
  <2> QED
    BY <1>1, <2>1, <2>2, GoPassed, <1>0 DEF Prepared, ProcessType
<1>3. CASE ResolveLimits(c)
  <2> DEFINE p == [q EXCEPT !.at = "load",
                       !.max_recv = ResolveGrpcMaxRecvMsgSize(input.recv_env).size]
  <2>1. q.at = "limits" /\ Go(c, IF ResolveGrpcMaxRecvMsgSize(input.recv_env).ok THEN p ELSE stop)
    BY <1>3 DEF ResolveLimits, Step, At
  <2>2. ResolveGrpcMaxRecvMsgSize(input.recv_env).ok => Passed(input, c, p)
    BY <1>0, <2>1, <1>a
    DEF Passed, ProcessType, ChecksPassed, SettingsTaken, EndsJustified, RequestDecided, Commands
  <2> QED
    BY <1>0, <1>1, <2>1, <2>2, GoPassed DEF Prepared, ProcessType
<1>4. CASE Load(c)
  <2> DEFINE p == [q EXCEPT !.at = "pipeline", !.max_body = MaxBodyAccumulation(input)]
  <2>1. q.at = "load" /\ Go(c, IF LoadConfig(input) THEN p ELSE stop)
    BY <1>4 DEF Load, Step, At
  <2>2. LoadConfig(input) => Passed(input, c, p)
    BY <1>0, <2>1, BodyLimit
    DEF Passed, ProcessType, ChecksPassed, SettingsTaken, EndsJustified, RequestDecided, Commands
  <2> QED
    BY <1>0, <1>1, <2>1, <2>2, GoPassed DEF Prepared, ProcessType
<1>5. CASE Build(c)
  <2> DEFINE p == [q EXCEPT !.at = "addresses", !.selector = FromConfig(input.entries)]
  <2>1. q.at = "pipeline" /\ Go(c, IF TRUE THEN p ELSE stop)
    BY <1>5 DEF Build, Step, At
  <2>2. TRUE => Passed(input, c, p)
    BY <1>0, <2>1, SelectorTyped
    DEF Passed, ProcessType, ChecksPassed, SettingsTaken, EndsJustified, RequestDecided, Commands
  <2> QED
    BY <1>0, <1>1, <2>1, <2>2, GoPassed DEF Prepared, ProcessType
<1>6. CASE Addresses(c)
  <2> DEFINE p == [q EXCEPT !.at = "fips"]
  <2>1. q.at = "addresses" /\ Go(c, IF ResolveAddresses(input) THEN p ELSE stop)
    BY <1>6 DEF Addresses, Step, At
  <2>2. ResolveAddresses(input) => Passed(input, c, p)
    BY <1>0, <2>1
    DEF Passed, ProcessType, ChecksPassed, SettingsTaken, EndsJustified, RequestDecided, Commands
  <2> QED
    BY <1>0, <1>1, <2>1, <2>2, GoPassed DEF Prepared, ProcessType
<1> QED
  BY <1>2, <1>3, <1>4, <1>5, <1>6

(* The FIPS check, the check of the pipeline and the services that start.   *)
LEMMA ChecksKeep ==
    ASSUME StartInv, NEW c \in Commands,
           FipsCheck(c) \/ PipelineCheck(c) \/ StartServices(c) \/ HealthFails(c)
    PROVE  StartInv'
<1>0. /\ Passed(input, c, process[c]) /\ process[c] \in ProcessType
      /\ input \in Inputs /\ ExtProcConfig(input)
  BY InputsAssumption DEF StartInv, Passed
<1> DEFINE q == process[c]
           to(stage) == [q EXCEPT !.at = stage]
<1>1. CASE FipsCheck(c)
  <2>1. q.at = "fips" /\ Go(c, IF ~FipsRefusal(input) THEN to("built") ELSE to(Refused(c)))
    BY <1>1 DEF FipsCheck, Step, At
  <2>2. ~FipsRefusal(input) => Passed(input, c, to("built"))
    BY <1>0, <2>1
    DEF Passed, ProcessType, ChecksPassed, SettingsTaken, EndsJustified, RequestDecided, Commands
  <2>3. FipsRefusal(input) => Passed(input, c, to(Refused(c)))
    BY <1>0, <2>1
    DEF Passed, ProcessType, ChecksPassed, SettingsTaken, EndsJustified, RequestDecided,
        Commands, Refused
  <2> QED
    BY <2>1, <2>2, <2>3, GoPassed
<1>2. CASE PipelineCheck(c)
  <2> DEFINE next == IF c = "validate" THEN "tls" ELSE "services"
  <2>1. q.at = "built" /\ Go(c, IF BuildPipeline(input) THEN to(next) ELSE to(Refused(c)))
    BY <1>2 DEF PipelineCheck, Step, At
  <2>2. BuildPipeline(input) => Passed(input, c, to(next))
    BY <1>0, <2>1
    DEF Passed, ProcessType, ChecksPassed, SettingsTaken, EndsJustified, RequestDecided, Commands
  <2>3. ~BuildPipeline(input) => Passed(input, c, to(Refused(c)))
    BY <1>0, <2>1
    DEF Passed, ProcessType, ChecksPassed, SettingsTaken, EndsJustified, RequestDecided,
        Commands, Refused
  <2> QED
    BY <2>1, <2>2, <2>3, GoPassed
<1>3. CASE StartServices(c)
  <2>1. /\ c = "serve"
        /\ \/ q.at = "services" /\ Go(c, IF MetricsStart(input) THEN to("tls") ELSE to("error"))
           \/ /\ q.at = "unready_services"
              /\ Go(c, IF MetricsStart(input) THEN to("unready") ELSE to("error"))
    BY <1>0, <1>3 DEF StartServices, Step, At, Passed, EndsJustified, Commands
  <2>2. ~MetricsStart(input) => Passed(input, c, to("error"))
    BY <1>0, <2>1
    DEF Passed, ProcessType, ChecksPassed, SettingsTaken, EndsJustified, RequestDecided,
        Commands, HostServes
  <2>3. q.at = "services" => Passed(input, c, to("tls"))
    BY <1>0, <2>1
    DEF Passed, ProcessType, ChecksPassed, SettingsTaken, EndsJustified, RequestDecided, Commands
  <2>4. q.at = "unready_services" => Passed(input, c, to("unready"))
    BY <1>0, <2>1
    DEF Passed, ProcessType, ChecksPassed, SettingsTaken, EndsJustified, RequestDecided, Commands
  <2> QED
    BY <2>1, <2>2, <2>3, <2>4, GoPassed
<1>4. CASE HealthFails(c)
  <2>1. c = "serve" /\ ~HostServes(input) /\ Go(c, to("error"))
    BY <1>4 DEF HealthFails, HostServes
  <2>2. Passed(input, c, to("error"))
    BY <1>0, <2>1
    DEF Passed, ProcessType, ChecksPassed, SettingsTaken, EndsJustified, RequestDecided, Commands
  <2> QED
    BY <2>1, <2>2, GoPassed
<1> QED
  BY <1>1, <1>2, <1>3, <1>4

(* The TLS configuration.                                                   *)
LEMMA TlsKeeps ==
    ASSUME StartInv, NEW c \in Commands, TlsSetup(c)
    PROVE  StartInv'
<1>0. /\ Passed(input, c, process[c]) /\ process[c] \in ProcessType
      /\ input \in Inputs /\ ExtProcConfig(input)
  BY InputsAssumption DEF StartInv, Passed
<1> DEFINE q == process[c]
           ok == BuildTlsConfig(input.server.tls, input.openssl)
           cannot_fit == BufferedBodyCannotFitRecv(q.max_body, q.max_recv)
           built == [q EXCEPT !.at = IF c = "validate" THEN "valid" ELSE "bind",
                              !.warned = cannot_fit,
                              !.acceptor = Acceptor(input.server.tls)]
           failed == [q EXCEPT !.at = "error", !.warned = cannot_fit /\ c = "serve",
                               !.acceptor = NoAcceptor]
           next == [q EXCEPT !.at = IF ~ok THEN "error"
                                    ELSE IF c = "validate" THEN "valid" ELSE "bind",
                             !.warned = cannot_fit /\ (ok \/ c = "serve"),
                             !.acceptor = IF ok THEN Acceptor(input.server.tls) ELSE NoAcceptor]
<1>a. q.at = "tls" /\ Go(c, next)
  BY DEF TlsSetup, At
<1>b. /\ ok => (cannot_fit /\ (ok \/ c = "serve")) = cannot_fit
      /\ ~ok => (cannot_fit /\ (ok \/ c = "serve")) = (cannot_fit /\ c = "serve")
  BY DEF BufferedBodyCannotFitRecv
<1>1. q.at = "tls" /\ (ok => Go(c, built)) /\ (~ok => Go(c, failed))
  <2>1. ok => next = built
    BY <1>b
  <2>2. ~ok => next = failed
    BY <1>b
  <2> QED
    BY <1>a, <2>1, <2>2
<1>2. cannot_fit \in BOOLEAN
  BY DEF BufferedBodyCannotFitRecv
<1>3. Acceptor(input.server.tls) \in [tls : BOOLEAN, verify : BOOLEAN]
  BY DEF Acceptor
<1>4. ASSUME ok PROVE Passed(input, c, built)
  BY <1>0, <1>1, <1>2, <1>3, <1>4
  DEF Passed, ProcessType, ChecksPassed, SettingsTaken, EndsJustified, RequestDecided, Commands
<1>5. ASSUME ~ok PROVE Passed(input, c, failed)
  BY <1>0, <1>1, <1>2, <1>5
  DEF Passed, ProcessType, ChecksPassed, SettingsTaken, EndsJustified, RequestDecided,
      Commands, NoAcceptor
<1> QED
  BY <1>1, <1>4, <1>5, GoPassed

(* Binding the gRPC listener.                                               *)
LEMMA ServeKeeps ==
    ASSUME StartInv, NEW c \in Commands, Serve(c)
    PROVE  StartInv'
<1>0. /\ Passed(input, c, process[c]) /\ process[c] \in ProcessType
      /\ input \in Inputs /\ ExtProcConfig(input)
  BY InputsAssumption DEF StartInv, Passed
<1> DEFINE q == process[c]
           served == [q EXCEPT !.at = "serving", !.service = Service(q)]
           failed == [q EXCEPT !.at = "error"]
<1>1. /\ q.at = "bind"
      /\ Go(c, IF input.binds["grpc"] THEN served ELSE failed)
  BY DEF Serve, Step, At
<1>2. /\ Service(q) \in ServiceType
      /\ Service(q).max_body_accumulation = q.max_body
      /\ Service(q).max_decoding_message_size = q.max_recv
      /\ Service(q).response_mode_selector = q.selector
  BY <1>0 DEF Service, NewService, ServiceType, ProcessType, ExtProcConfig, ServerConfigs
<1>3. Passed(input, c, served)
  BY <1>0, <1>1, <1>2
  DEF Passed, ProcessType, ChecksPassed, SettingsTaken, EndsJustified, RequestDecided, Commands
<1>4. ~input.binds["grpc"] => Passed(input, c, failed)
  BY <1>0, <1>1
  DEF Passed, ProcessType, ChecksPassed, SettingsTaken, EndsJustified, RequestDecided,
      Commands, HostServes
<1> QED
  BY <1>1, <1>3, <1>4, GoPassed

(* A request arrives and its response mode is decided.                      *)
LEMMA RequestKeeps ==
    ASSUME StartInv, NEW headers \in Requests, Request(headers)
    PROVE  StartInv'
<1>0. "serve" \in Commands /\ Passed(input, "serve", process["serve"])
  BY DEF StartInv, Commands
<1> DEFINE q == process["serve"]
           selector == q.service.response_mode_selector
           guard == GuardOf(input.entries, headers)
           answered == [q EXCEPT !.request = {headers},
                                 !.streams = ShouldStream(selector, guard),
                                 !.guarded = HasSelectedGuardrail(selector, guard)]
<1>1. q.at = "serving" /\ q.request = {} /\ Go("serve", answered)
  BY DEF Request, At
<1>2. ShouldStream(selector, guard) \in BOOLEAN /\ HasSelectedGuardrail(selector, guard) \in BOOLEAN
  BY DEF ShouldStream, HasSelectedGuardrail
<1>3. q \in ProcessType
  BY <1>0 DEF Passed
<1>4. /\ answered \in ProcessType
      /\ \A f \in {"at", "max_recv", "max_body", "selector", "warned", "acceptor", "service"} :
           answered[f] = q[f]
      /\ answered.request = {headers}
      /\ answered.streams = ShouldStream(selector, guard)
      /\ answered.guarded = HasSelectedGuardrail(selector, guard)
  BY <1>2, <1>3 DEF ProcessType
<1> HIDE DEF answered
<1>5. RequestDecided(input, answered)
  BY <1>4 DEF RequestDecided
<1>6. ChecksPassed(input, answered) /\ SettingsTaken(input, answered)
      /\ EndsJustified(input, "serve", answered)
  BY <1>0, <1>4 DEF Passed, ChecksPassed, SettingsTaken, EndsJustified
<1>7. Passed(input, "serve", answered)
  BY <1>1, <1>4, <1>5, <1>6 DEF Passed
<1> QED
  BY <1>0, <1>1, <1>7, GoPassed

(* Whatever the inputs, a process has passed every check it is behind.      *)
LEMMA StartInitially == Init => StartInv
<1>1. SUFFICES ASSUME Init PROVE StartInv
  OBVIOUS
<1>2. NewService \in ServiceType
  BY GrpcLimitsAssumption DEF NewService, ServiceType, Selectors
<1>3. NewProcess \in ProcessType
  BY <1>2 DEF NewProcess, ProcessType, NoAcceptor, Selectors
<1>4. \A c \in Commands : Passed(input, c, NewProcess)
  BY <1>3 DEF NewProcess, Passed, ChecksPassed, SettingsTaken, EndsJustified, RequestDecided
<1> QED
  BY <1>1, <1>4 DEF Init, StartInv

(* Every step keeps the invariant.                                          *)
LEMMA StartStep == StartInv /\ [Next]_vars => StartInv'
<1>1. StartInv /\ Next => StartInv'
  BY PrepareKeeps, ChecksKeep, TlsKeeps, ServeKeeps, RequestKeeps DEF Next
<1>2. StartInv /\ UNCHANGED vars => StartInv'
  BY DEF StartInv, vars
<1> QED
  BY <1>1, <1>2

(* The inductive invariant, of which the safety properties follow.          *)
THEOREM ChecksHold == Spec => []StartInv
  BY StartInitially, StartStep, PTL DEF Spec

(* The facts about the two processes that the properties speak of.          *)
LEMMA BothPassed ==
    ASSUME StartInv
    PROVE  /\ Passed(input, "validate", process["validate"])
           /\ Passed(input, "serve", process["serve"])
           /\ ExtProcConfig(input)
  BY InputsAssumption DEF StartInv, Commands

(* What `-t` accepts serves on a host that lets it, and what it refuses never *)
(* serves: the two commands check the same things.                          *)
THEOREM ValidationAgrees == Spec => []ValidateAgrees
<1>1. StartInv => ValidateAgrees
  <2> SUFFICES ASSUME StartInv PROVE ValidateAgrees
    OBVIOUS
  <2>1. /\ At("validate", "valid") =>
             /\ Prepared(input) /\ ~FipsRefusal(input) /\ BuildPipeline(input)
             /\ BuildTlsConfig(input.server.tls, input.openssl)
        /\ At("serve", "serving") =>
             /\ Prepared(input) /\ ~FipsRefusal(input) /\ BuildPipeline(input)
             /\ BuildTlsConfig(input.server.tls, input.openssl)
    BY BothPassed DEF Passed, ChecksPassed, Prepared, At
  <2>2. /\ At("serve", "error") => \/ ~Prepared(input)
                                   \/ ~HostServes(input)
                                   \/ ~BuildTlsConfig(input.server.tls, input.openssl)
        /\ At("serve", "unready") => FipsRefusal(input) \/ ~BuildPipeline(input)
        /\ ~At("serve", "valid")
    BY BothPassed DEF Passed, EndsJustified, At
  <2>3. At("validate", "error") => \/ ~Prepared(input) \/ FipsRefusal(input)
                                   \/ ~BuildPipeline(input)
                                   \/ ~BuildTlsConfig(input.server.tls, input.openssl)
    BY BothPassed DEF Passed, EndsJustified, At
  <2> QED
    BY <2>1, <2>2, <2>3 DEF ValidateAgrees, At
<1> QED
  BY <1>1, ChecksHold, PTL

(* PRAXIS_REQUIRE_FIPS is honoured whatever the provider, the kernel and the *)
(* binary are, and a refused process stays up where the host lets it.       *)
THEOREM FipsEnforced == Spec => []FipsOrInspectable
<1>1. StartInv => FipsOrInspectable
  <2> SUFFICES ASSUME StartInv PROVE FipsOrInspectable
    OBVIOUS
  <2> DEFINE refused == \/ ~FipsActive(input)
                        \/ "policy" \in input.registered
                        \/ input.responses_full /\ "store" \in input.registered
  <2>1. refused <=> ~FipsActive(input) \/ Blocked(input)
    BY DEF Blocked, NonFipsFilters
  <2>2. process["serve"].at \in {"bind", "serving"} => ~FipsRefusal(input)
    BY BothPassed DEF Passed, ChecksPassed
  <2>3. At("serve", "error") => \/ ~Prepared(input)
                                \/ ~HostServes(input)
                                \/ ~FipsRefusal(input) /\ BuildPipeline(input)
    BY BothPassed DEF Passed, EndsJustified, At
  <2> HIDE DEF refused
  <2>4. /\ input.fips_required /\ refused => process["serve"].at \notin {"bind", "serving"}
        /\ At("serve", "error") /\ HostServes(input) /\ Prepared(input)
             => ~(input.fips_required /\ refused) /\ BuildPipeline(input)
    BY <2>1, <2>2, <2>3 DEF FipsRefusal
  <2> QED
    BY <2>4 DEF FipsOrInspectable, Prepared, refused
<1> QED
  BY <1>1, ChecksHold, PTL

(* A configured CA is enforced by every process that serves: TlsConfig::validate *)
(* refuses the modes that would ignore it.                                  *)
THEOREM ClientCertificatesEnforced == Spec => []ClientCertificatesRequired
<1>1. StartInv => ClientCertificatesRequired
  BY BothPassed
  DEF ClientCertificatesRequired, At, Passed, ChecksPassed, SettingsTaken, BuildTlsConfig,
      TlsValidate, Acceptor, None
<1> QED
  BY <1>1, ChecksHold, PTL

(* A receive size that was accepted is the quantity rounded up, for every    *)
(* quantity, every width of the integers and every value of the suffixes.   *)
THEOREM ReceiveSizeCorrect == Spec => []ReceiveSizeExact
<1>1. StartInv => ReceiveSizeExact
  <2> SUFFICES ASSUME StartInv, NEW c \in Commands,
                      process[c].max_recv > 0, input.recv_env.kind = "quantity"
               PROVE  LET scale == 10 ^ input.recv_env.quantity.fraction.digits
                          exact == Exact(input.recv_env.quantity)
                      IN /\ process[c].max_recv <= MaxUsize
                         /\ process[c].max_recv * scale >= exact
                         /\ (process[c].max_recv - 1) * scale < exact
    BY DEF ReceiveSizeExact
  <2>1. RecvEnv(input.recv_env)
    BY BothPassed DEF ExtProcConfig
  <2>2. process[c].max_recv = ResolveGrpcMaxRecvMsgSize(input.recv_env).size
    BY DEF StartInv, Passed, SettingsTaken
  <2> QED
    BY <2>1, <2>2, ResolvedSize
<1> QED
  BY <1>1, ChecksHold, PTL

(* A process that serves without a warning can receive a body at its limit,  *)
(* and a validation warns exactly when the server would.                    *)
THEOREM LimitsConsistent == Spec => []LimitsFitOrWarned
<1>1. StartInv => LimitsFitOrWarned
  <2> SUFFICES ASSUME StartInv PROVE LimitsFitOrWarned
    OBVIOUS
  <2> DEFINE v == process["validate"]
             q == process["serve"]
  <2>1. /\ q.at = "serving" => /\ q.service.max_body_accumulation = q.max_body
                               /\ q.service.max_decoding_message_size = q.max_recv
                               /\ q.warned = BufferedBodyCannotFitRecv(q.max_body, q.max_recv)
        /\ v.at = "valid" => v.warned = BufferedBodyCannotFitRecv(v.max_body, v.max_recv)
        /\ q.at = "serving" /\ v.at = "valid" => v.max_body = q.max_body /\ v.max_recv = q.max_recv
    BY BothPassed DEF Passed, SettingsTaken
  <2>2. q.max_body \in Nat /\ q.max_recv \in Nat /\ Headroom \in Nat /\ MaxUsize \in Nat
    BY BothPassed, GrpcLimitsAssumption DEF Passed, ProcessType
  <2>3. /\ ~BufferedBodyCannotFitRecv(q.max_body, q.max_recv)
        /\ q.max_body > 0 /\ q.max_body + Headroom <= MaxUsize
        => q.max_body + Headroom <= q.max_recv
    BY <2>2 DEF BufferedBodyCannotFitRecv
  <2> QED
    BY <2>1, <2>3 DEF LimitsFitOrWarned, At
<1> QED
  BY <1>1, ChecksHold, PTL

(* A header that says "true" among its values selects its guardrail.        *)
LEMMA TrueSelects ==
    ASSUME NEW values, NEW v \in DOMAIN values, values[v] = "true"
    PROVE  HeaderMayBeSelected(values)
<1>1. DOMAIN << >> = {} /\ DOMAIN <<"false">> = {1} /\ <<"false">>[1] = "false"
  OBVIOUS
<1>2. values # << >>
  BY <1>1, Zenon
<1>3. values # <<"false">>
  <2> SUFFICES ASSUME values = <<"false">> PROVE FALSE
    OBVIOUS
  <2>1. v = 1
    BY <1>1, Zenon
  <2> QED
    BY <1>1, <2>1
<1> QED
  BY <1>2, <1>3 DEF HeaderMayBeSelected

(* What a request may run is what its headers are found to select.          *)
LEMMA SelectionComplete ==
    ASSUME NEW entries, NEW headers, NEW entry \in entries, entry \in GuardrailEntries,
           MayRun(entry, headers), SupportedEntry(entry)
    PROVE  /\ Active(entry) /\ ~Unconditional(entry) => GuardOf(entries, headers) # "none"
           /\ GuardrailPhase(entry, "response") /\ ~Unconditional(entry) =>
                GuardOf(entries, headers) = "output"
<1>1. entry \in Guardrails(entries)
  BY DEF MayRun, Guardrails
<1>2. CASE HasGuardrailHeader(entry)
  <2>1. HeaderMayBeSelected(headers[entry.conditions])
    BY <1>2, TrueSelects DEF HasGuardrailHeader, MayRun
  <2>2. Active(entry) => entry.conditions \in GuardrailHeaders(entries)
    BY <1>1, <1>2 DEF GuardrailHeaders
  <2>3. GuardrailPhase(entry, "response") => entry.conditions \in OutputHeaders(entries)
    BY <1>1, <1>2 DEF OutputHeaders
  <2> QED
    BY <2>1, <2>2, <2>3 DEF GuardOf
<1>3. CASE ~HasGuardrailHeader(entry)
  BY <1>3 DEF SupportedEntry, Active
<1> QED
  BY <1>2, <1>3

(* Whatever the guardrails of the configuration, whatever the headers of the *)
(* request: no response is streamed past a guardrail that acts on it.       *)
THEOREM GuardrailsEnforced == Spec => []GuardrailsNotBypassed
<1>1. StartInv => GuardrailsNotBypassed
  <2> SUFFICES ASSUME StartInv, At("serve", "serving"),
                      NEW headers \in process["serve"].request, NEW entry \in input.entries,
                      MayRun(entry, headers)
               PROVE  /\ entry.response \in {"true", "malformed"} => ~process["serve"].streams
                      /\ entry.request # "false" \/ entry.response = "true" =>
                           process["serve"].guarded
    BY DEF GuardrailsNotBypassed
  <2> DEFINE selector == FromConfig(input.entries)
             guard == GuardOf(input.entries, headers)
  <2>1. /\ process["serve"].streams = ShouldStream(selector, guard)
        /\ process["serve"].guarded = HasSelectedGuardrail(selector, guard)
    BY BothPassed DEF Passed, SettingsTaken, RequestDecided, At
  <2>2. entry \in GuardrailEntries /\ entry \in Guardrails(input.entries)
    BY BothPassed DEF ExtProcConfig, MayRun, Guardrails
  <2>3. selector \in {"invalid", "always", "unconditional", "conditional"}
    BY <2>2, SelectorCases
  <2>4. CASE selector = "invalid"
    BY <2>1, <2>4 DEF ShouldStream, HasSelectedGuardrail
  <2>5. CASE selector # "invalid"
    <3>1. /\ SupportedEntry(entry)
          /\ selector # "always" /\ Active(entry) /\ Unconditional(entry) =>
               ~GuardrailPhase(entry, "response")
          /\ selector = "conditional" => ~(Active(entry) /\ Unconditional(entry))
      BY <2>2, <2>3, <2>5, SelectorCases
    <3>2. /\ entry.response \in {"true", "malformed"} =>
               GuardrailPhase(entry, "response") /\ Active(entry)
          /\ entry.request # "false" => Active(entry)
          /\ GuardrailPhase(entry, "response") => Active(entry)
      BY <2>2, <3>1
      DEF SupportedEntry, WellFormedPhases, Active, GuardrailPhase, GuardrailEntries
    <3>3. /\ Active(entry) /\ ~Unconditional(entry) => guard # "none"
          /\ GuardrailPhase(entry, "response") /\ ~Unconditional(entry) => guard = "output"
      BY <2>2, <3>1, SelectionComplete
    <3> HIDE DEF selector, guard
    <3>4. GuardrailPhase(entry, "response") => ~ShouldStream(selector, guard)
      BY <2>3, <3>1, <3>2, <3>3 DEF ShouldStream, OutputHeaderSelected
    <3>5. Active(entry) => HasSelectedGuardrail(selector, guard)
      BY <2>3, <2>5, <3>1, <3>3 DEF HasSelectedGuardrail, GuardrailHeaderSelected
    <3> QED
      BY <2>1, <3>2, <3>4, <3>5
  <2> QED
    BY <2>4, <2>5
<1> QED
  BY <1>1, ChecksHold, PTL

-----------------------------------------------------------------------------
(* The FIPS tasks.                                                          *)

ProbeType ==
    [at : {"idle", "running", "refusal", "handshake", "deadline", "tests", "status"} \cup ProbeEnds,
     container : {None, "up", "removed"}, late : BOOLEAN, tests : BOOLEAN,
     reason : {None, "setup", "podman", "exited", "refused", "timeout", "log", "tests",
               "status_line"}]

(* What the probe and host-check have seen by the time they report it.      *)
ProbeInv ==
    /\ StartInv
    /\ probe \in ProbeType
    /\ input.tool.asked => input.provider_fips = ImageProviderFips(input)
    /\ probe.at # "idle" \/ attestation.result # None => input.tool.asked
    /\ probe.at \in {"tests", "status", "passed"} =>
         /\ process["serve"].at \in {"serving", "error"}
         /\ process["serve"].acceptor.tls
         /\ ~FipsRefusal(input)
    /\ probe.at = "passed" => StatusLine(input)
    /\ probe.reason = "refused" => FipsRefusal(input) /\ input.tool.asked
    /\ attestation.result = "attested" =>
         HostChecks(input) = {} /\ (input.tool.with_image => ImageChecks(input) = {})

(* Behind the handshake the container serves, or the health service ended it. *)
LEMMA ServedStays ==
    ASSUME StartInv, Next, process["serve"].at \in {"serving", "error"}
    PROVE  /\ process'["serve"].at \in {"serving", "error"}
           /\ process'["serve"].acceptor = process["serve"].acceptor
<1> DEFINE q == process["serve"]
<1>0. q \in ProcessType /\ DOMAIN process = Commands
  BY BothPassed DEF Passed, StartInv
<1>1. ASSUME NEW c \in Commands, c # "serve", NEW p, Go(c, p)
      PROVE  process'["serve"] = q
  BY <1>0, <1>1 DEF Go, Commands
<1>2. ASSUME HealthFails("serve") PROVE process'["serve"] = [q EXCEPT !.at = "error"]
  BY <1>0, <1>2 DEF HealthFails, Go, Commands
<1>3. ASSUME NEW headers \in Requests, Request(headers)
      PROVE  process'["serve"].at = q.at /\ process'["serve"].acceptor = q.acceptor
  BY <1>0, <1>3 DEF Request, Go, Commands, ProcessType
<1>4. ASSUME NEW c \in Commands,
             \/ InstallProvider(c) \/ ResolveLimits(c) \/ Load(c) \/ Build(c) \/ Addresses(c)
             \/ FipsCheck(c) \/ PipelineCheck(c) \/ StartServices(c) \/ TlsSetup(c) \/ Serve(c)
      PROVE  process'["serve"] = q
  <2>1. c # "serve"
    BY <1>4 DEF InstallProvider, ResolveLimits, Load, Build, Addresses, FipsCheck, PipelineCheck,
                StartServices, TlsSetup, Serve, Step, At
  <2>2. \E p : Go(c, p)
    BY <1>4 DEF InstallProvider, ResolveLimits, Load, Build, Addresses, FipsCheck, PipelineCheck,
                StartServices, TlsSetup, Serve, Step
  <2> QED
    BY <1>1, <2>1, <2>2
<1>5. ASSUME NEW c \in Commands, HealthFails(c) PROVE c = "serve"
  BY <1>5 DEF HealthFails
<1>6. \/ process'["serve"] = q
      \/ process'["serve"] = [q EXCEPT !.at = "error"]
      \/ process'["serve"].at = q.at /\ process'["serve"].acceptor = q.acceptor
  BY <1>2, <1>3, <1>4, <1>5 DEF Next
<1>7. [q EXCEPT !.at = "error"].at = "error" /\ [q EXCEPT !.at = "error"].acceptor = q.acceptor
  BY <1>0 DEF ProcessType
<1> QED
  BY <1>6, <1>7

(* The invariant holds before the container starts.                         *)
LEMMA ProbeInitially == ProbeInit => ProbeInv
<1> SUFFICES ASSUME ProbeInit PROVE ProbeInv
  OBVIOUS
<1>1. StartInv
  BY StartInitially DEF ProbeInit
<1>2. probe \in ProbeType /\ probe.at = "idle" /\ probe.reason = None /\ attestation.result = None
  BY DEF ProbeInit, ProbeType, None
<1> QED
  BY <1>1, <1>2 DEF ProbeInv, ProbeInit, None

(* A step of the container.                                                 *)
LEMMA ProcessStepKeeps == ASSUME ProbeInv, ProcessStep PROVE ProbeInv'
<1>1. Next /\ StartInv /\ UNCHANGED <<probe, attestation, input>>
  BY DEF ProbeInv, ProcessStep, tool_vars, Next, InstallProvider, ResolveLimits, Load, Build,
         Addresses, FipsCheck, PipelineCheck, StartServices, HealthFails, TlsSetup, Serve, Request,
         Step, Go
<1>2. StartInv'
  BY <1>1, StartStep
<1>3. probe.at \in {"tests", "status", "passed"} =>
        /\ process'["serve"].at \in {"serving", "error"}
        /\ process'["serve"].acceptor.tls
  BY <1>1, ServedStays DEF ProbeInv
<1> QED
  BY <1>1, <1>2, <1>3 DEF ProbeInv

(* A check of the host.                                                     *)
LEMMA HostCheckKeeps == ASSUME ProbeInv, HostCheck PROVE ProbeInv'
<1> DEFINE failures == HostChecks(input)
                         \cup IF input.tool.with_image THEN ImageChecks(input) ELSE {}
<1>1. /\ input.tool.asked
      /\ UNCHANGED <<input, process, probe>>
      /\ attestation'.result = IF failures = {} /\ input.tool.writes THEN "attested" ELSE "failed"
  BY DEF HostCheck, vars
<1>2. attestation'.result = "attested" =>
        HostChecks(input) = {} /\ (input.tool.with_image => ImageChecks(input) = {})
  BY <1>1
<1>3. StartInv'
  BY <1>1, StartStep DEF ProbeInv, vars
<1> QED
  BY <1>1, <1>2, <1>3 DEF ProbeInv

(* How a step of the probe ends it.                                         *)
LEMMA EndEffect ==
    ASSUME probe \in ProbeType, NEW at, NEW reason, End(at, reason)
    PROVE  /\ probe'.at = at /\ probe'.reason = reason /\ probe'.late = probe.late
           /\ probe'.tests = probe.tests /\ probe'.container \in {None, "up", "removed"}
           /\ at \in ProbeEnds /\ reason \in {None, "setup", "podman", "exited", "refused",
                                              "timeout", "log", "tests", "status_line"}
                => probe' \in ProbeType
  BY DEF End, ProbeType

(* A step of the probe, or the end of a call it waits for.                  *)
LEMMA ProbeStepKeeps == ASSUME ProbeInv, ProbeStep \/ CallReturns PROVE ProbeInv'
<1>0. /\ UNCHANGED <<input, process, attestation>> /\ probe \in ProbeType
      /\ StartInv /\ StartInv'
  BY StartStep DEF ProbeInv, ProbeStep, CallReturns, vars
<1>1. SUFFICES
        /\ probe' \in ProbeType
        /\ input.tool.asked
        /\ probe'.at \in {"tests", "status", "passed"} =>
             /\ process["serve"].at \in {"serving", "error"}
             /\ process["serve"].acceptor.tls
             /\ ~FipsRefusal(input)
        /\ probe'.at = "passed" => StatusLine(input)
        /\ probe'.reason = "refused" => FipsRefusal(input)
  BY <1>0 DEF ProbeInv
<1>2. input.tool.asked
  BY DEF ProbeInv, ProbeStep, CallReturns, ProbeStart, PollRunning, PollRefusal, PollHandshake,
         PollDeadline, RunProbeTests, Conclude
<1>3. CASE ProbeStart
  <2>1. \/ End("failed", "setup")
        \/ End("failed", "podman")
        \/ probe' = [probe EXCEPT !.at = "running", !.container = "up"]
    BY <1>3 DEF ProbeStart
  <2>2. CASE probe' = [probe EXCEPT !.at = "running", !.container = "up"]
    BY <1>0, <1>2, <2>2 DEF ProbeType, ProbeInv, ProbeEnds
  <2> QED
    BY <1>0, <1>2, <2>1, <2>2, EndEffect DEF ProbeEnds
<1>4. CASE PollRunning
  BY <1>0, <1>2, <1>4, EndEffect DEF PollRunning, Goto, ProbeType, ProbeEnds, ProbeInv
<1>5. CASE PollRefusal
  BY <1>0, <1>2, <1>5, EndEffect DEF PollRefusal, LogRefuses, Goto, ProbeType, ProbeEnds, ProbeInv
<1>6. CASE PollHandshake
  <2>1. At("serve", "serving") => ~FipsRefusal(input)
    BY <1>0, BothPassed DEF Passed, ChecksPassed, At
  <2> QED
    BY <1>0, <1>2, <1>6, <2>1 DEF PollHandshake, Goto, ProbeType, ProbeEnds, ProbeInv, At
<1>7. CASE PollDeadline
  BY <1>0, <1>2, <1>7, EndEffect DEF PollDeadline, Goto, ProbeType, ProbeEnds, ProbeInv
<1>8. CASE RunProbeTests
  <2>1. (input.tool.tests = "pass" /\ At("serve", "serving")) \in BOOLEAN
    OBVIOUS
  <2> QED
    BY <1>0, <1>2, <1>8, <2>1 DEF RunProbeTests, ProbeType, ProbeEnds, ProbeInv
<1>9. CASE Conclude
  BY <1>0, <1>2, <1>9, EndEffect DEF Conclude, ProbeType, ProbeEnds, ProbeInv, None
<1> QED
  BY <1>3, <1>4, <1>5, <1>6, <1>7, <1>8, <1>9 DEF ProbeStep, CallReturns

(* The container that the tasks look at starts as any process does.         *)
THEOREM ProbedProcessStarts == ProbeSpec => Spec
<1>1. ProbeInit => Init
  BY DEF ProbeInit
<1>2. [ProbeNext]_probe_vars => [Next]_vars
  BY DEF ProbeNext, ProcessStep, HostCheck, ProbeStep, CallReturns, probe_vars
<1> QED
  BY <1>1, <1>2, PTL DEF ProbeSpec, Spec

(* The inductive invariant of the probe: its verdict follows what the container did. *)
THEOREM ProbeChecksHold == ProbeSpec => []ProbeInv
<1>1. ProbeInv /\ [ProbeNext]_probe_vars => ProbeInv'
  <2>1. ASSUME ProbeInv, DeadlinePasses, UNCHANGED <<vars, attestation>> PROVE ProbeInv'
    <3>1. StartInv' /\ UNCHANGED <<input, process, attestation>>
      BY <2>1, StartStep DEF ProbeInv, vars
    <3>2. /\ probe' \in ProbeType /\ probe'.at = probe.at /\ probe'.reason = probe.reason
      BY <2>1 DEF DeadlinePasses, ProbeType, ProbeInv
    <3> QED
      BY <2>1, <3>1, <3>2 DEF ProbeInv
  <2>2. ASSUME ProbeInv, UNCHANGED probe_vars PROVE ProbeInv'
    <3>1. StartInv' /\ UNCHANGED <<input, process, attestation, probe>>
      BY <2>2, StartStep DEF ProbeInv, probe_vars, tool_vars, vars
    <3> QED
      BY <2>2, <3>1 DEF ProbeInv
  <2> QED
    BY <2>1, <2>2, ProcessStepKeeps, HostCheckKeeps, ProbeStepKeeps DEF ProbeNext
<1> QED
  BY <1>1, ProbeInitially, PTL DEF ProbeSpec

(* A probe that passes has seen FIPS mode, and a host that was attested makes *)
(* the image refuse only for what its binary carries.                       *)
THEOREM VerdictJustified == ProbeSpec => []VerdictSound
<1>1. ProbeInv => VerdictSound
  <2> SUFFICES ASSUME ProbeInv PROVE VerdictSound
    OBVIOUS
  <2>1. ASSUME probe.at = "passed"
        PROVE  /\ process["serve"].acceptor.tls
               /\ input.provider_fips /\ input.kernel_fips = "on"
               /\ "policy" \notin input.registered
               /\ ~(input.responses_full /\ "store" \in input.registered)
    BY <2>1 DEF ProbeInv, StatusLine, FipsRefusal, Blocked, NonFipsFilters
  <2>2. ASSUME attestation.result = "attested", input.tool.with_image, probe.reason = "refused"
        PROVE  Blocked(input)
    <3>1. HostChecks(input) = {} /\ ImageChecks(input) = {} /\ FipsRefusal(input)
          /\ input.provider_fips = ImageProviderFips(input)
      BY <2>2 DEF ProbeInv
    <3>2. input.kernel_fips = "on"
      <4> DEFINE h == input.tool.host
                 met == [kernel_flag |-> input.kernel_fips = "on",
                         boot_parameter |-> h.cmdline_fips,
                         crypto_policy |-> h.crypto_policy = "FIPS",
                         mode_setup |-> h.mode_setup # "disabled",
                         module |-> HostModule(h, input.tool.require_certified)]
      <4>1. {check \in DOMAIN met : ~met[check]} = {}
        BY <3>1 DEF HostChecks
      <4>2. "kernel_flag" \in DOMAIN met /\ met["kernel_flag"] = (input.kernel_fips = "on")
        OBVIOUS
      <4> HIDE DEF met
      <4> QED
        BY <4>1, <4>2
    <3>3. input.tool.image.policy = "FIPS" /\ input.tool.image.module # "unreadable"
      <4> DEFINE m == input.tool.image
                 met == [image_crypto_policy |-> m.policy = "FIPS",
                         image_module |-> ImageModule(m.module, input.tool.require_certified)]
      <4>1. {check \in DOMAIN met : ~met[check]} = {}
        BY <3>1 DEF ImageChecks
      <4>2. /\ "image_crypto_policy" \in DOMAIN met
            /\ met["image_crypto_policy"] = (m.policy = "FIPS")
            /\ "image_module" \in DOMAIN met
            /\ met["image_module"] = ImageModule(m.module, input.tool.require_certified)
        OBVIOUS
      <4> HIDE DEF met
      <4> QED
        BY <4>1, <4>2 DEF ImageModule
    <3>4. FipsActive(input)
      BY <3>1, <3>2, <3>3 DEF ImageProviderFips, FipsActive
    <3> QED
      BY <3>1, <3>4 DEF FipsRefusal
  <2> QED
    BY <2>1, <2>2 DEF VerdictSound
<1> QED
  BY <1>1, ProbeChecksHold, PTL
=============================================================================
