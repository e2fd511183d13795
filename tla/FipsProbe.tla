------------------------------- MODULE FipsProbe -------------------------------
(***************************************************************************)
(* The two tasks of `cargo xtask fips` that look at a running system        *)
(* (src/xtask/src/fips): host-check attests the host and the image, and     *)
(* runtime-probe starts the image with PRAXIS_REQUIRE_FIPS=1, waits until   *)
(* it serves, and drives the listener probes against it.  The container is  *)
(* the "serve" process of Startup.  What the tasks find is in input.tool:   *)
(*   asked      the tasks run on this input                                 *)
(*   host       what the host reports, next to its kernel flag              *)
(*   image      what the image carries                                      *)
(*   the rest   arguments, podman and the outcome of the listener probes    *)
(***************************************************************************)
EXTENDS Startup

VARIABLES
  attestation,  \* what host-check came to
  probe         \* the runtime probe and its container

tool_vars == <<attestation, probe>>
probe_vars == <<vars, tool_vars>>

-----------------------------------------------------------------------------
(* certified.rs and host_check.rs.                                          *)

\* Verdict of a version string; only Validated satisfies --require-certified
Verdicts == {"validated", "in_process", "historical", "unknown"}

\* module_verdict
ModuleFails(verdict, require_certified) == verdict # "validated" /\ require_certified
ModuleWarns(verdict, require_certified) == verdict # "validated" /\ ~require_certified

\* host_module: the provider must be listed, and active
HostModule(h, require_certified) ==
  /\ h.openssl = "lists"
  /\ h.provider = "active"
  /\ ~ModuleFails(h.module, require_certified)

\* Mutant: a flag that cannot be read passes.
HostChecksFlagUnread(i) ==
  LET h == i.tool.host
      met == [kernel_flag |-> i.kernel_fips # "off",
              boot_parameter |-> h.cmdline_fips,
              crypto_policy |-> h.crypto_policy = "FIPS",
              mode_setup |-> h.mode_setup # "disabled",
              module |-> HostModule(h, i.tool.require_certified)]
  IN {check \in DOMAIN met : ~met[check]}

\* host_checks: the requirements that are not met.  fips-mode-setup may be absent.
HostChecks(i) ==
  LET h == i.tool.host
      met == [kernel_flag |-> i.kernel_fips = "on",
              boot_parameter |-> h.cmdline_fips,
              crypto_policy |-> h.crypto_policy = "FIPS",
              mode_setup |-> h.mode_setup # "disabled",
              module |-> HostModule(h, i.tool.require_certified)]
  IN {check \in DOMAIN met : ~met[check]}

\* image_module: a version string must be found in the file, and looked up
ImageModule(m, require_certified) ==
  /\ m \notin {"unreadable", "unversioned"}
  /\ ~ModuleFails(m, require_certified)

\* image_checks with image_id and image_crypto_policy
ImageChecks(i) ==
  LET m == i.tool.image
      met == [image_crypto_policy |-> m.policy = "FIPS",
              image_module |-> ImageModule(m.module, i.tool.require_certified)]
  IN IF ~m.known THEN {"image_id"} ELSE {check \in DOMAIN met : ~met[check]}

\* The modules that were found but are on no active certificate.
Warnings(i) ==
  LET h == i.tool.host
      m == i.tool.image
      found == [host |-> h.openssl = "lists" /\ h.provider = "active",
                image |-> /\ i.tool.with_image /\ m.known
                          /\ m.module \notin {"unreadable", "unversioned"}]
  IN {subject \in DOMAIN found :
        found[subject] /\ ModuleWarns(i.tool[subject].module, i.tool.require_certified)}

\* run of host-check: the attestation must be written, too
HostCheck ==
  /\ input.tool.asked
  /\ attestation.result = None
  /\ LET failures == HostChecks(input)
                       \cup IF input.tool.with_image THEN ImageChecks(input) ELSE {}
     IN attestation' =
          [result |-> IF failures = {} /\ input.tool.writes THEN "attested" ELSE "failed",
           failures |-> failures,
           warnings |-> Warnings(input)]
  /\ UNCHANGED <<vars, probe>>

-----------------------------------------------------------------------------
(* runtime_probe.rs.                                                        *)

\* write_config: what it does not mention has its default
WriteConfig ==
  [DefaultServer EXCEPT !.tls.mode = "provided", !.tls.cert_path = "ok", !.tls.key_path = "ok"]

\* The environment and the configuration that Container::start gives the image.
Containerized(i) ==
  /\ i.server = WriteConfig
  /\ i.chains = <<"main">> /\ i.filters = "ok" /\ i.entries = {}
  /\ i.fips_required
  /\ i.file = "ok" /\ i.recv_env.kind = "unset"
  /\ \A l \in Listeners : i.cli[l] = None /\ i.binds[l]

\* The OpenSSL of the image: its provider follows the kernel flag and podman's
\* crypto policy, if the image has the module.
ImageProviderFips(i) ==
  i.kernel_fips = "on" /\ i.tool.image.policy = "FIPS" /\ i.tool.image.module # "unreadable"

ProbeEnds == {"passed", "failed"}

\* Container::drop removes what was started, on every way out.
End(at, reason) ==
  probe' = [probe EXCEPT !.at = at, !.reason = reason,
                         !.container = IF @ = "up" THEN "removed" ELSE @]

Goto(at) == probe' = [probe EXCEPT !.at = at]

\* tempdir, generate_certificates, write_config, free_port and Container::start
ProbeStart ==
  /\ input.tool.asked
  /\ probe.at = "idle"
  /\ IF ~input.tool.prepares THEN End("failed", "setup")
     ELSE IF ~input.tool.podman THEN End("failed", "podman")
     ELSE probe' = [probe EXCEPT !.at = "running", !.container = "up"]

\* Container::running: podman may not run, or report an error, which reads as a
\* container that does not run
PollRunning ==
  /\ probe.at = "running"
  /\ \/ At("serve", "error") /\ End("failed", "exited")
     \/ ~At("serve", "error") /\ Goto("refusal")
     \/ \E reason \in {"podman", "exited"} : End("failed", reason)

\* Container::refusal: the line that run logs for a refusal, and for nothing else
LogRefuses ==
  /\ FipsRefusal(input)
  /\ \/ process["serve"].at \in {"unready_services", "unready"}
     \/ At("serve", "error") /\ input.provider_installs

\* podman may not run, or report an error, which reads as an empty log
PollRefusal ==
  /\ probe.at = "refusal"
  /\ \/ LogRefuses /\ End("failed", "refused")
     \/ Goto("handshake")
     \/ End("failed", "podman")

\* handshake_completes returns.  The forwarder of podman accepts connections for
\* anyone and the handshake needs the listener.  Nothing bounds the wait: the call
\* returns when the peer answers or closes, which may be never.
PollHandshake ==
  /\ probe.at = "handshake"
  /\ \/ At("serve", "serving") /\ process["serve"].acceptor.tls /\ Goto("tests")
     \/ Goto("deadline")

\* Mutant: every turn of the loop has a deadline of its own.
PollDeadlineRenewed ==
  /\ probe.at = "deadline"
  /\ probe' = [probe EXCEPT !.at = "running", !.late = FALSE]

\* The end of a turn: the deadline, or a pause and the next turn.
PollDeadline ==
  /\ probe.at = "deadline"
  /\ IF probe.late THEN End("failed", "timeout") ELSE Goto("running")

\* STARTUP_DEADLINE passes while the probe waits.
DeadlinePasses ==
  /\ probe.at \in {"running", "refusal", "handshake", "deadline"}
  /\ ~probe.late
  /\ probe' = [probe EXCEPT !.late = TRUE]

\* run_probe_tests returns: the tests need a listener that serves while they run.
\* Nothing bounds this wait, either.
RunProbeTests ==
  /\ probe.at = "tests"
  /\ probe' = [probe EXCEPT !.at = "status",
                            !.tests = input.tool.tests = "pass" /\ At("serve", "serving")]

\* status_line: the line that install logs
StatusLine(i) == i.provider_fips /\ i.kernel_fips = "on" /\ i.fips_required

\* The log is read and written first, whatever the tests said.
Conclude ==
  /\ probe.at = "status"
  /\ \/ End("failed", "podman")
     \/ IF ~input.tool.writes THEN End("failed", "log")
        ELSE IF ~probe.tests THEN End("failed", "tests")
        ELSE IF ~StatusLine(input) THEN End("failed", "status_line")
        ELSE End("passed", None)

\* What the probe does by itself.  (Its podman calls are local and taken to return.)
ProbeStep ==
  /\ \/ ProbeStart
     \/ PollRunning
     \/ PollRefusal
     \/ PollDeadline
     \/ Conclude
  /\ UNCHANGED <<vars, attestation>>

\* The end of a call in which the probe waits for others without a bound.
CallReturns ==
  /\ PollHandshake \/ RunProbeTests
  /\ UNCHANGED <<vars, attestation>>

\* A step of a process.  Where the tasks run the container is the only process,
\* from its start to its removal, and the probes carry no guardrail headers.
ProcessStep ==
  /\ Next
  /\ UNCHANGED tool_vars
  /\ input.tool.asked =>
       /\ probe.container = "up"
       /\ process'["validate"] = process["validate"]
       /\ process'["serve"].request = {}

-----------------------------------------------------------------------------

ProbeInit ==
  /\ Init
  /\ input.tool.asked => Containerized(input) /\ input.provider_fips = ImageProviderFips(input)
  /\ attestation = [result |-> None, failures |-> {}, warnings |-> {}]
  /\ probe = [at |-> "idle", container |-> None, late |-> FALSE, tests |-> FALSE,
              reason |-> None]

ProbeNext ==
  \/ ProcessStep
  \/ HostCheck
  \/ ProbeStep
  \/ CallReturns
  \/ DeadlinePasses /\ UNCHANGED <<vars, attestation>>

\* The probe is a sequential program and its clock runs; calls that wait for the
\* image or for the tests need not return.
ProbeSpec ==
  /\ ProbeInit
  /\ [][ProbeNext]_probe_vars
  /\ WF_probe_vars(ProbeStep)
  /\ WF_probe_vars(DeadlinePasses /\ UNCHANGED <<vars, attestation>>)

-----------------------------------------------------------------------------
(* Properties.                                                              *)

\* The verdict of the probe is justified.  One that passes has seen an image that
\* serves over TLS, on a kernel and with a provider in FIPS mode, and whose binary
\* has no cryptography of its own.  And an image that was attested with its host is
\* refused only for what its binary carries: host-check and the server agree on
\* what FIPS mode is.
VerdictSound ==
  /\ probe.at = "passed" =>
       /\ process["serve"].acceptor.tls
       /\ input.provider_fips /\ input.kernel_fips = "on"
       /\ "policy" \notin input.registered
       /\ ~(input.responses_full /\ "store" \in input.registered)
  /\ attestation.result = "attested" /\ input.tool.with_image /\ probe.reason = "refused" =>
       Blocked(input)

\* However often the probe has to poll, it comes to a verdict, and without its
\* container (STARTUP_DEADLINE, Container::drop), provided that its handshakes and
\* its tests return: the deadline is looked at between the polls and ends neither
\* a handshake with a peer that stays silent nor a test run that hangs.
ProbeConcludes ==
  []<>(probe.at \notin {"handshake", "tests"}) =>
    (probe.container = "up" ~> probe.at \in ProbeEnds /\ probe.container = "removed")
=============================================================================
