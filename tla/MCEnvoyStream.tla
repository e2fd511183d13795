---------------------------- MODULE MCEnvoyStream -----------------------------
(* The stream and a conforming Envoy, for the chains and modes of one run.  *)
EXTENDS EnvoyStream

CONSTANTS
  MCRequestModes, MCResponseModes,  \* body modes Envoy may configure
  MCWaits,                          \* values of send_body_without_waiting
  MCSelected                        \* with or without selected-upstream filters

MCChains ==
  {c \in ChainType : /\ c.selector = "off"
                     /\ c.selected \in MCSelected
                     /\ ~c.stream_buffer}

MCConfigs ==
  {k \in ConfigType : /\ k.mode["request"] \in MCRequestModes
                      /\ k.mode["response"] \in MCResponseModes
                      /\ k.send_body_without_waiting \in MCWaits}
=============================================================================
