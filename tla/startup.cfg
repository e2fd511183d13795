SPECIFICATION ProbeSpec
CONSTANTS
  MaxUsize = 127
  MaxU128 = 32767
  Multipliers <- MCMultipliers
  DefaultMaxBody = 32
  CompiledRecv = 4
  Headroom = 4
  Headers = {"x-aigateway-guardrail-a", "x-aigateway-guardrail-b"}
  Inputs <- MCInputs
  Requests <- MCRequests
INVARIANTS
  ValidateAgrees
  FipsOrInspectable
  ClientCertificatesRequired
  ReceiveSizeExact
  LimitsFitOrWarned
  GuardrailsNotBypassed
  VerdictSound
PROPERTIES
  ProbeConcludes
CHECK_DEADLOCK FALSE
