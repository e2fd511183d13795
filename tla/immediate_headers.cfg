SPECIFICATION Spec
CONSTANTS
  Names = {"set-cookie", "content-length", "host", "x-envoy-external-address", "x-forwarded-for", "bad name"}
  IllegalNames = {"bad name"}
  Ascii = {"", "authority", "malformed", "/", "1", "2", "10.0.0.1"}
  Utf8 = {"utf8", "replacement"}
  Opaque = {"opaque"}
  Illegal = {"illegal"}
  Addresses = {"10.0.0.1"}
  Lengths = {"1", "2"}
  Replacement = "replacement"
  SentValues = {"10.0.0.1", "opaque", "illegal"}
  EditNames = {"set-cookie"}
  EditValues = {"1", "opaque"}
  MaxEdits = 2
  Messages <- MCMessages
INVARIANTS
  ReplyHeadersEmitted
CHECK_DEADLOCK FALSE
