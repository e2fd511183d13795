------------------------------- MODULE MCStartup -------------------------------
(***************************************************************************)
(* One good set of inputs, and the inputs that differ from it in one        *)
(* subject: the host and FIPS, the configuration file, the receive size     *)
(* with the body limit, TLS with the addresses, the guardrails, or what the *)
(* FIPS tasks find.                                                         *)
(***************************************************************************)
EXTENDS FipsProbe

CONSTANTS Headers   \* the guardrail selection headers

Digits(value, digits) == [value |-> value, digits |-> digits]
NoDigits == Digits(0, 0)

Good ==
  [provider_installs |-> TRUE, provider_fips |-> TRUE, kernel_fips |-> "on",
   fips_required |-> FALSE, responses_full |-> FALSE, registered |-> {"store"},
   recv_env |-> [kind |-> "unset"],
   file |-> "ok", server |-> DefaultServer, allow_unbounded_body |-> FALSE,
   chains |-> <<"a", "b">>, filters |-> "ok", entries |-> {},
   cli |-> [l \in Listeners |-> None], in_cluster |-> TRUE, openssl |-> "ok",
   binds |-> [l \in Listeners |-> TRUE],
   tool |-> [asked |-> FALSE, with_image |-> TRUE, require_certified |-> FALSE,
             host |-> [cmdline_fips |-> TRUE, crypto_policy |-> "FIPS", mode_setup |-> "enabled",
                       openssl |-> "lists", provider |-> "active", module |-> "validated"],
             image |-> [known |-> TRUE, policy |-> "FIPS", module |-> "validated"],
             writes |-> TRUE, prepares |-> TRUE, podman |-> TRUE, tests |-> "pass"]]

Hosts ==
  {[Good EXCEPT !.provider_fips = p, !.kernel_fips = k, !.fips_required = r,
                !.responses_full = f, !.registered = n, !.filters = b] :
     p, r, f \in BOOLEAN, k \in {"on", "off", "unreadable"},
     n \in SUBSET {"policy", "store"}, b \in {"ok", "malformed"}}
  \cup {[Good EXCEPT !.server.metrics_auth = a, !.in_cluster = k, !.binds = b, !.filters = f] :
          a, k \in BOOLEAN, b \in [Listeners -> BOOLEAN], f \in {"ok", "malformed"}}
  \cup {[Good EXCEPT !.provider_installs = FALSE]}

Files ==
  {[Good EXCEPT !.file = f, !.server.drain_timeout_secs = d, !.chains = c, !.filters = b] :
     f \in {"ok", "missing", "unknown_field"}, d \in {0, 1}, b \in {"ok", "malformed"},
     c \in {<<>>, <<"a", "b">>, <<"a", "b", "a">>}}
  \cup {[Good EXCEPT !.cli[l] = c, !.server.address[l] = a] :
          l \in Listeners, c \in {None, "ok", "malformed"}, a \in {"ok", "malformed"}}

\* Integers up to the largest that fits, fractions of up to three digits.
Quantities ==
  [sign : {"none", "+", "other"}, point : {FALSE},
   integer : {NoDigits, Digits(0, 1), Digits(33, 2), Digits(MaxUsize, 3),
              Digits(MaxUsize + 1, 3), Digits(MaxU128, 5)},
   fraction : {NoDigits}, suffix : {"none", "Ki", "Gi", "k", "m"}]
  \cup
  [sign : {"none", "+"}, point : {TRUE},
   integer : {NoDigits, Digits(0, 1), Digits(1, 1), Digits(41, 2), Digits(MaxU128, 5)},
   fraction : {NoDigits, Digits(0, 1), Digits(5, 1), Digits(1, 2), Digits(1, 3), Digits(999, 3),
               Digits(0, 5)},
   suffix : {"none", "Mi", "k"}]

Limits ==
  {[Good EXCEPT !.recv_env = [kind |-> "quantity", quantity |-> q]] : q \in Quantities}
  \cup {[Good EXCEPT !.recv_env = [kind |-> k]] : k \in {"unset", "not_unicode"}}
  \cup {[Good EXCEPT !.server.max_body_bytes = b, !.allow_unbounded_body = u,
                     !.recv_env = [kind |-> "quantity",
                                   quantity |-> [sign |-> "none", point |-> FALSE,
                                                 integer |-> Digits(n, 3), fraction |-> NoDigits,
                                                 suffix |-> "none"]]] :
          b \in {0, 1, 31, 32, 33, MaxUsize - Headroom, MaxUsize, MaxUsize + 1}, u \in BOOLEAN,
          n \in {31, 32, 33, 33 + Headroom, MaxUsize - 1, MaxUsize}}

Paths == {None, "ok", "unreadable"}

Tls ==
  {[Good EXCEPT !.server.tls = [mode |-> m, cert_path |-> c, key_path |-> k, ca_cert_path |-> a,
                         handshake_concurrency |-> n, handshake_timeout_secs |-> s]] :
     m \in {None, "self_signed", "provided"}, c, a \in Paths, k \in Paths \cup {"other"},
     n, s \in {0, 1}}
  \cup {[Good EXCEPT !.openssl = o, !.server.trust_forwarded_for = f,
                     !.server.tls.mode = m, !.server.tls.cert_path = p, !.server.tls.key_path = p] :
          o \in {"ok", "no_context", "no_keys"}, m \in {None, "self_signed", "provided"},
          p \in {None, "ok"}, f \in BOOLEAN}

Entries ==
  [guardrail : {TRUE}, request : {"absent", "true", "false", "malformed"},
   response : {"absent", "true", "false", "malformed"},
   conditions : Headers \cup {"none", "unsupported"}, response_conditions : BOOLEAN]

SomeEntries ==
  {e \in Entries : /\ e.request \in {"absent", "false"} /\ e.response \in {"absent", "true"}
                   /\ ~e.response_conditions}

\* One guardrail of any shape, alone or after a common one.
GuardrailConfigs ==
  {[Good EXCEPT !.entries = {e, f}] : e \in Entries, f \in SomeEntries}
  \cup {[Good EXCEPT !.entries = {[e EXCEPT !.guardrail = FALSE]}] : e \in Entries}

\* A host in FIPS mode where the tasks run, and what may differ there.
Probed ==
  [Good EXCEPT !.tool.asked = TRUE, !.fips_required = TRUE, !.chains = <<"main">>,
               !.server = WriteConfig, !.in_cluster = FALSE]

FipsHosts ==
  {[Probed EXCEPT !.kernel_fips = k, !.tool.host.cmdline_fips = c, !.tool.host.crypto_policy = p,
                  !.tool.host.mode_setup = s] :
     k \in {"on", "off", "unreadable"}, c \in BOOLEAN, p \in {"FIPS", "DEFAULT"},
     s \in {"absent", "enabled", "disabled"}}
  \cup {[Probed EXCEPT !.tool.host.openssl = o, !.tool.host.provider = p,
                       !.tool.host.module = v, !.tool.require_certified = r] :
          o \in {"absent", "fails", "lists"}, p \in {"none", "inactive", "active"},
          v \in Verdicts, r \in BOOLEAN}
  \cup {[Probed EXCEPT !.tool.image = m, !.tool.with_image = w, !.tool.require_certified = r,
                       !.kernel_fips = k] :
          m \in [known : BOOLEAN, policy : {"FIPS", "DEFAULT"},
                 module : Verdicts \cup {"unreadable", "unversioned"}],
          w, r \in BOOLEAN, k \in {"on", "off"}}

Images ==
  {[Probed EXCEPT !.in_cluster = c, !.kernel_fips = k, !.registered = n, !.responses_full = f,
                  !.openssl = o, !.provider_installs = p] :
     c, f, p \in BOOLEAN, k \in {"on", "off"}, n \in SUBSET {"policy", "store"},
     o \in {"ok", "no_context"}}
  \cup {[Probed EXCEPT !.in_cluster = TRUE, !.tool.writes = w, !.tool.prepares = p,
                       !.tool.podman = d, !.tool.tests = t] :
          w, p, d \in BOOLEAN, t \in {"pass", "fail"}}

\* What the provider of the image is follows from the image.
Tooled == {[i EXCEPT !.provider_fips = ImageProviderFips(i)] : i \in FipsHosts \cup Images}

\* The suffixes, scaled to the width of usize.
MCMultipliers == [Ki |-> 4, Mi |-> 16, Gi |-> 64, K |-> 3, k |-> 3, M |-> 9, G |-> 27]

MCInputs == UNION {Hosts, Files, Limits, Tls, GuardrailConfigs, Tooled}

MCRequests ==
  [Headers -> {<<>>, <<"true">>, <<"false">>, <<"other">>, <<"false", "true">>}]
=============================================================================
