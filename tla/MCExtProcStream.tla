--------------------------- MODULE MCExtProcStream ----------------------------
(* The stream with an arbitrary peer, for the chains and modes of one run.  *)
EXTENDS ObservedStream

CONSTANTS
  MCRequestModes, MCResponseModes,  \* body modes Envoy may configure
  MCWaits,                          \* values of send_body_without_waiting
  MCSelectors,                      \* guardrail configurations
  MCSelected,                       \* with or without selected-upstream filters
  MCBuffers                         \* with or without StreamBuffer capability

MCChains ==
  {c \in ChainType : /\ c.selector \in MCSelectors
                     /\ c.selected \in MCSelected
                     /\ c.stream_buffer \in MCBuffers}

MCConfigs ==
  {k \in ConfigType : /\ k.mode["request"] \in MCRequestModes
                      /\ k.mode["response"] \in MCResponseModes
                      /\ k.send_body_without_waiting \in MCWaits}
=============================================================================
