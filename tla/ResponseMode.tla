----------------------------- MODULE ResponseMode -----------------------------
(***************************************************************************)
(* Which guardrails a request selects (src/src/response_mode.rs). The       *)
(* loaded configuration is one of                                           *)
(*   "off"            no ai_guardrails entry                                *)
(*   "invalid"        an entry whose shape the selector does not support    *)
(*   "always"         an unconditional guardrail on the response phase      *)
(*   "unconditional"  an unconditional guardrail on the request phase only  *)
(*   "conditional"    only guardrails selected by a request header          *)
(* and the headers of a request carry guard                                 *)
(*   "none"       no selection header, or all of them "false"               *)
(*   "input"      a guardrail of the request phase only is selected         *)
(*   "output"     a guardrail of the response phase is selected             *)
(*   "ambiguous"  a selection header is repeated or not a boolean           *)
(***************************************************************************)
Selectors == {"off", "invalid", "always", "unconditional", "conditional"}
Guards == {"none", "input", "output", "ambiguous"}

\* header_may_be_selected for one of the guardrail headers
GuardrailHeaderSelected(guard) == guard # "none"

\* header_may_be_selected for one of the output headers, failing closed
OutputHeaderSelected(guard) == guard \in {"output", "ambiguous"}

\* should_stream
ShouldStream(selector, guard) ==
  selector \in {"unconditional", "conditional"} /\ ~OutputHeaderSelected(guard)

\* has_selected_guardrail
HasSelectedGuardrail(selector, guard) ==
  \/ selector \in {"invalid", "always", "unconditional"}
  \/ selector = "conditional" /\ GuardrailHeaderSelected(guard)

-----------------------------------------------------------------------------
(* The selector of a configuration.  A filter entry is                      *)
(*   guardrail            its filter_type is ai_guardrails                  *)
(*   request, response    its phase configuration: "absent", "true",        *)
(*                        "false" or "malformed"                            *)
(*   conditions           "none", "unsupported", or the one header that     *)
(*                        must be "true"                                    *)
(*   response_conditions  whether it has any                                *)
(* A request carries, per header, the sequence of its values.               *)

GuardrailEntries ==
  LET phases == {"absent", "true", "false", "malformed"}
  IN [guardrail : BOOLEAN, request : phases, response : phases, conditions : STRING,
      response_conditions : BOOLEAN]

\* guardrail_phases: request unless it is off, response only if it is on
GuardrailPhase(entry, phase) ==
  entry[phase] = "true" \/ (phase = "request" /\ entry[phase] = "absent")

WellFormedPhases(entry) == entry.request # "malformed" /\ entry.response # "malformed"

\* An entry that is off in both phases is skipped.
Active(entry) == GuardrailPhase(entry, "request") \/ GuardrailPhase(entry, "response")

Unconditional(entry) == entry.conditions = "none" /\ ~entry.response_conditions

\* selected_guardrail_header
HasGuardrailHeader(entry) ==
  entry.conditions \notin {"none", "unsupported"} /\ ~entry.response_conditions

Guardrails(entries) == {entry \in entries : entry.guardrail}

SupportedEntry(entry) ==
  /\ WellFormedPhases(entry)
  /\ Active(entry) => Unconditional(entry) \/ HasGuardrailHeader(entry)

\* from_config: one entry of an unsupported shape makes the selector invalid
\* (invalid_selector), wherever it stands.
FromConfig(entries) ==
  LET active == {entry \in Guardrails(entries) : Active(entry)}
      always == {entry \in active : Unconditional(entry)}
  IN IF Guardrails(entries) = {} THEN "off"
     ELSE IF \E entry \in Guardrails(entries) : ~SupportedEntry(entry) THEN "invalid"
     ELSE IF \E entry \in always : GuardrailPhase(entry, "response") THEN "always"
     ELSE IF always # {} THEN "unconditional"
     ELSE "conditional"

\* guardrail_headers and output_headers
GuardrailHeaders(entries) ==
  {entry.conditions : entry \in {e \in Guardrails(entries) : Active(e) /\ HasGuardrailHeader(e)}}
OutputHeaders(entries) ==
  {entry.conditions : entry \in {e \in Guardrails(entries) :
                                   GuardrailPhase(e, "response") /\ HasGuardrailHeader(e)}}

\* Mutant: only a header that says "true" selects.
HeaderSaysTrue(values) == values = <<"true">>

\* header_may_be_selected, failing closed on repeated headers
HeaderMayBeSelected(values) == values # <<>> /\ values # <<"false">>

\* What a request selects, as should_stream and has_selected_guardrail see it.
GuardOf(entries, headers) ==
  IF \E h \in OutputHeaders(entries) : HeaderMayBeSelected(headers[h]) THEN "output"
  ELSE IF \E h \in GuardrailHeaders(entries) : HeaderMayBeSelected(headers[h]) THEN "input"
  ELSE "none"
=============================================================================
