------------------------------- MODULE Adapter --------------------------------
(***************************************************************************)
(* Translation between Envoy's header messages and the filters' view of     *)
(* them (src/src/adapter.rs): what filters see of one message, what their   *)
(* edits become on the wire, and what Envoy then holds.                     *)
(*                                                                          *)
(* A header list is a function from names to the sequence of values of that *)
(* name: entries of different names never influence each other.  A value is *)
(* a member of one of four classes of byte strings, and travels as a field  *)
(* with the protobuf string `value` and the bytes `raw_value`.              *)
(***************************************************************************)
EXTENDS Naturals, Sequences, FiniteSets

CONSTANTS
  Names,         \* field names, "content-length" among them
  IllegalNames,  \* those that are no HTTP field name
  Ascii,         \* visible-ASCII values, the empty one among them
  Utf8,          \* legal values that are UTF-8 and not ASCII
  Opaque,        \* legal values that are not UTF-8
  Illegal,       \* values that are no HTTP field value
  Addresses,     \* ASCII values whose first comma-separated entry is an IP address
  Lengths,       \* ASCII values that are the length of a body
  Replacement    \* what from_utf8_lossy makes of a body that is not UTF-8

Empty == ""
ContentLength == "content-length"
External == "x-envoy-external-address"
Forwarded == "x-forwarded-for"
Host == "host"
Path == ":path"

Legal == Ascii \cup Utf8 \cup Opaque
Text == Ascii \cup Utf8 \cup Illegal
Octets == Legal \cup Illegal

ASSUME AdapterAssumption ==
  /\ {ContentLength, External, Forwarded, Host} \subseteq Names \ IllegalNames
  /\ Path \notin Names
  /\ {Empty, "authority", "malformed", "/"} \subseteq Ascii
  /\ Addresses \subseteq Ascii
  /\ Lengths \subseteq Ascii
  /\ Opaque \cap Text = {}
  /\ Illegal \cap Legal = {}
  /\ Replacement \in Utf8

\* What Envoy's header mutations address: fields, and the path of the request.
Keys == Names \cup {Path}

None == "none"

-----------------------------------------------------------------------------
(* Fields.                                                                  *)

Field == [value : Text, raw_value : Octets]

\* The bytes of a field: append_header prefers raw_value, and so does Envoy.
FieldOctets(f) == IF f.raw_value = Empty THEN f.value ELSE f.raw_value

\* header_value_str: raw_value unless it is empty or not UTF-8
HeaderValueStr(f) ==
  IF f.raw_value = Empty \/ f.raw_value \in Opaque THEN f.value ELSE f.raw_value

\* Mutant: the bytes are copied into the string whatever they are.
HeaderOptionUnchecked(v, action) ==
  [field |-> [value |-> v, raw_value |-> v], action |-> action]

\* header_option: both parts, but never bytes that are not UTF-8 in the string
HeaderOption(v, action) ==
  [field |-> [value |-> IF v \in Opaque THEN Empty ELSE v, raw_value |-> v],
   action |-> action]

\* header_value_option_append, header_value_option
AppendOption(v) == HeaderOption(v, "append")
OverwriteOption(v) == HeaderOption(v, "overwrite")

Map(Op(_), s) == [i \in 1..Len(s) |-> Op(s[i])]

-----------------------------------------------------------------------------
(* Conversion of Envoy's message.                                           *)

\* The k-th of a set of positions.
Nth(positions, k) ==
  CHOOSE i \in positions : Cardinality({j \in positions : j <= i}) = k

\* append_header for all fields of one name: what is no legal field is dropped,
\* the rest keeps its order
AppendHeader(name, fields) ==
  LET kept == {i \in 1..Len(fields) :
                 name \notin IllegalNames /\ FieldOctets(fields[i]) \in Legal}
  IN [k \in 1..Cardinality(kept) |-> FieldOctets(fields[Nth(kept, k)])]

HeaderMap(held) == [n \in Names |-> AppendHeader(n, held[n])]

\* The pseudo-headers Envoy may send. "malformed" does not parse as a method,
\* path, scheme or authority; an "illegal" authority is no field value either;
\* a status "99" is a number but no status code.
PseudoType ==
  [method : {None, "POST", "malformed"},
   path : {None, "origin", "asterisk", "malformed"},
   scheme : {None, "https", "malformed"},
   authority : {None, "authority", "malformed", "illegal"},
   status : {None, "404", "99", "malformed"}]

RelativeUri(path) == [scheme |-> None, authority |-> None, path |-> path]

\* build_uri, with the default path "/"
BuildUri(p) ==
  IF p.scheme = "https" /\ p.authority = "authority" /\ p.path \in {None, "origin"}
    THEN [scheme |-> p.scheme, authority |-> p.authority,
          path |-> IF p.path = None THEN "/" ELSE p.path]
  ELSE IF p.path \in {None, "malformed"} THEN RelativeUri("/")
  ELSE RelativeUri(p.path)

\* The host header a request gets from its authority, if it sent none.
SynthesizedHost(p, map) ==
  IF map[Host] = <<>> /\ p.authority \notin {None, "illegal"}
    THEN [map EXCEPT ![Host] = <<p.authority>>]
    ELSE map

\* envoy_headers_to_request
EnvoyHeadersToRequest(p, held) ==
  [method |-> IF p.method = "POST" THEN "POST" ELSE "GET",
   uri |-> BuildUri(p),
   headers |-> SynthesizedHost(p, HeaderMap(held))]

\* envoy_headers_to_response
EnvoyHeadersToResponse(p, held) ==
  [status |-> IF p.status = "404" THEN "404" ELSE "200", headers |-> HeaderMap(held)]

\* response_status: a number, if it is one
ResponseStatus(p) == IF p.status = "malformed" THEN None ELSE p.status

\* first_ip_in_header: the first value of the name, if it is ASCII and starts
\* with an address
FirstIpInHeader(map, name) ==
  IF map[name] # <<>> /\ map[name][1] \in Addresses THEN map[name][1] ELSE None

\* Mutant: x-forwarded-for is always a fallback.
ExtractClientAddrForwarded(map, trust) ==
  IF FirstIpInHeader(map, External) # None THEN FirstIpInHeader(map, External)
  ELSE FirstIpInHeader(map, Forwarded)

\* extract_client_addr
ExtractClientAddr(map, trust) ==
  IF FirstIpInHeader(map, External) # None THEN FirstIpInHeader(map, External)
  ELSE IF trust THEN FirstIpInHeader(map, Forwarded)
  ELSE None

-----------------------------------------------------------------------------
(* Filter contexts.                                                         *)

\* build_filter_context: nothing edited yet.  Of the request, filters note what
\* to append, set and remove; the response they edit in place.
BuildFilterContext(request, response, trust) ==
  [client_addr |-> ExtractClientAddr(request, trust),
   extra_request_headers |-> [n \in Names |-> <<>>],
   request_headers_to_set |-> [n \in Names |-> <<>>],
   request_headers_to_remove |-> {},
   rewritten_path |-> None,
   response_header |-> response]

-----------------------------------------------------------------------------
(* Mutations: per key the options in order, and the keys to remove.         *)

NoOptions == [k \in Keys |-> <<>>]
NoMutation == [set |-> NoOptions, remove |-> {}]

\* Mutant: overwrites come first, so that appended values add to them.
CollectRequestSetsFirst(ctx) ==
  [set |-> [k \in Keys |->
     IF k = Path
       THEN IF ctx.rewritten_path = None THEN <<>> ELSE <<OverwriteOption(ctx.rewritten_path)>>
       ELSE Map(LAMBDA v : OverwriteOption(IF v \in Ascii THEN v ELSE Empty),
                ctx.request_headers_to_set[k])
              \o Map(AppendOption, ctx.extra_request_headers[k])],
   remove |-> ctx.request_headers_to_remove]

\* collect_request_header_mutations: what is appended, then what is set, of
\* which only ASCII values survive to_str, then the path.
CollectRequestHeaderMutations(ctx) ==
  [set |-> [k \in Keys |->
     IF k = Path
       THEN IF ctx.rewritten_path = None THEN <<>> ELSE <<OverwriteOption(ctx.rewritten_path)>>
       ELSE Map(AppendOption, ctx.extra_request_headers[k])
              \o Map(LAMBDA v : OverwriteOption(IF v \in Ascii THEN v ELSE Empty),
                     ctx.request_headers_to_set[k])],
   remove |-> ctx.request_headers_to_remove]

\* Mutant: every value of a changed name is appended.
ReplaceHeaderValuesAppending(values) ==
  [i \in 1..Len(values) |-> AppendOption(values[i])]

\* replace_header_values
ReplaceHeaderValues(values) ==
  [i \in 1..Len(values) |->
     HeaderOption(values[i], IF i = 1 THEN "overwrite" ELSE "append")]

\* collect_response_header_mutations_diff
CollectResponseHeaderMutationsDiff(current, original) ==
  [set |-> [k \in Keys |->
     IF k \in Names /\ current[k] # original[k] THEN ReplaceHeaderValues(current[k]) ELSE <<>>],
   remove |-> {n \in Names : original[n] # <<>> /\ current[n] = <<>>}]

\* Mutant: the length is appended to what Envoy holds.
SetContentLengthAppending(mutation, len) ==
  [mutation EXCEPT !.set[ContentLength] = <<AppendOption(len)>>]

\* set_content_length: in place of any other option for the same name
SetContentLength(mutation, len) ==
  [mutation EXCEPT !.set[ContentLength] = <<OverwriteOption(len)>>]

\* with_content_length
WithContentLength(mutation, len, original) ==
  IF len # original THEN SetContentLength(mutation, len) ELSE mutation

\* Mutant: the injected length counts as a routing change.
MutationAffectsRoutingByLength(mutation) ==
  mutation.remove # {} \/ \E k \in Keys : mutation.set[k] # <<>>

\* mutation_affects_routing
MutationAffectsRouting(mutation) ==
  mutation.remove # {} \/ \E k \in Keys \ {ContentLength} : mutation.set[k] # <<>>

\* immediate_response, with rejection_to_immediate (string pairs, then the
\* header map) and terminal_response_to_immediate (the header map alone)
ImmediateResponse(reply) ==
  [set |-> [k \in Keys |->
     IF k = Path THEN <<>> ELSE Map(OverwriteOption, reply.pairs[k] \o reply.headers[k])],
   remove |-> {}]

ImmediateBody(body) == IF body \in Opaque THEN Replacement ELSE body

-----------------------------------------------------------------------------
(* Envoy, which is external: it removes, then takes the options in order.   *)

\* The last option that overwrites, 0 if there is none.
LastOverwrite(options) ==
  CHOOSE i \in 0..Len(options) :
    /\ i > 0 => options[i].action = "overwrite"
    /\ \A j \in (i + 1)..Len(options) : options[j].action = "append"

ValuesFrom(options, i) ==
  [j \in 1..(Len(options) + 1 - i) |-> FieldOctets(options[j + i - 1].field)]

EnvoyApplies(values, mutation, k) ==
  LET last == LastOverwrite(mutation.set[k])
  IN IF last > 0 THEN ValuesFrom(mutation.set[k], last)
     ELSE (IF k \in mutation.remove THEN <<>> ELSE values) \o ValuesFrom(mutation.set[k], 1)
=============================================================================
