SPECIFICATION Spec
CONSTANTS
  Names = {"content-length", "host", "x-envoy-external-address", "x-forwarded-for", "bad name"}
  IllegalNames = {"bad name"}
  Ascii = {"", "authority", "malformed", "/", "1", "2", "10.0.0.1"}
  Utf8 = {"utf8", "replacement"}
  Opaque = {"opaque"}
  Illegal = {"illegal"}
  Addresses = {"10.0.0.1"}
  Lengths = {"1", "2"}
  Replacement = "replacement"
  SentValues = {"10.0.0.1", "opaque", "illegal"}
  EditNames = {"content-length", "host"}
  EditValues = {"1", "opaque"}
  MaxEdits = 2
  Messages <- MCMessages
INVARIANTS
  TypeOK
  ResponseRoundTrip
  RequestEditsTakeEffect
  LengthAgrees
  RouteCacheCleared
  FiltersSeeWhatEnvoyHolds
CHECK_DEADLOCK FALSE
