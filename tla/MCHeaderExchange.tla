--------------------------- MODULE MCHeaderExchange ---------------------------
(* Header lists of at most two fields, sent the way an older Envoy does       *)
(* (value alone) or a current one (raw_value alone).                          *)
EXTENDS HeaderExchange

CONSTANT SentValues   \* the values Envoy may hold

InValue(v) == [value |-> v, raw_value |-> Empty]
InRaw(v) == [value |-> Empty, raw_value |-> v]

NoFields == [n \in Names |-> <<>>]

\* Two fields of one name, or one of each address header.
ListsOf(Sent(_), values) ==
  {[NoFields EXCEPT ![n] = <<Sent(v)>>] : n \in Names, v \in values}
    \cup {[NoFields EXCEPT ![n] = <<Sent(v), Sent(w)>>] : n \in Names, v, w \in values}
    \cup {[NoFields EXCEPT ![External] = <<Sent(v)>>, ![Forwarded] = <<Sent(w)>>] :
            v, w \in values}

MCLists == {NoFields} \cup ListsOf(InValue, SentValues \ Opaque) \cup ListsOf(InRaw, SentValues)

Plain == [method |-> "POST", path |-> "origin", scheme |-> None, authority |-> None,
          status |-> "404"]

MCPseudos ==
  {[Plain EXCEPT !.path = p, !.scheme = s, !.authority = a] :
     p \in {None, "origin", "asterisk", "malformed"}, s \in {None, "https", "malformed"},
     a \in {None, "authority", "malformed", "illegal"}}
  \cup {[Plain EXCEPT !.method = m, !.status = c] :
     m \in {None, "POST", "malformed"}, c \in {None, "404", "99", "malformed"}}

\* Every list with one request line, and every pseudo-header with few lists.
MCMessages ==
  {[pseudo |-> Plain, held |-> l, len |-> "1"] : l \in MCLists}
    \cup {[pseudo |-> p, held |-> l, len |-> "1"] : p \in MCPseudos,
            l \in {NoFields, [NoFields EXCEPT ![Host] = <<InRaw("1")>>]}}
=============================================================================
