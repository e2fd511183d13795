---------------------------- MODULE AdapterProofs ----------------------------
(***************************************************************************)
(* Theorems about HeaderExchange, for any names, values and messages: what  *)
(* Envoy holds once it has applied the answer is what filters asked for,    *)
(* and filters see what Envoy holds.                                        *)
(***************************************************************************)
EXTENDS HeaderExchange, FiniteSetTheorems, WellFoundedInduction, TLAPS

(* What filters may write: sequences of legal values.                       *)
EditLists == [Names -> Seq(EditValues)]

(* The filter context, whose fields are edited one at a time.               *)
ContextTyped ==
    /\ ctx = [client_addr |-> ctx.client_addr,
              extra_request_headers |-> ctx.extra_request_headers,
              request_headers_to_set |-> ctx.request_headers_to_set,
              request_headers_to_remove |-> ctx.request_headers_to_remove,
              rewritten_path |-> ctx.rewritten_path,
              response_header |-> ctx.response_header]
    /\ ctx.extra_request_headers \in EditLists
    /\ ctx.request_headers_to_set \in EditLists
    /\ ctx.request_headers_to_remove \subseteq Names
    /\ DOMAIN ctx.response_header = Names
    /\ ctx.response_header = [n \in Names |-> ctx.response_header[n]]
    /\ \A n \in Names : \/ ctx.response_header[n] = original[n]
                        \/ ctx.response_header[n] \in Seq(EditValues)

(* An answer is what was collected, and Envoy has applied it.               *)
ExchangeInv ==
    /\ held \in [Names -> Seq(Field)]
    /\ body = [sent |-> body.sent, left |-> body.left]
    /\ side \in {"request", "response"}
    /\ stage \in {"sent", "filters", "answered", "replied", "forwarded", "delivered"}
    /\ original = [n \in Names |-> original[n]]
    /\ ContextTyped
    /\ stage \in {"answered", "forwarded"} =>
         /\ answer.mutation = Collected
         /\ answer.clear_route_cache = (side = "request" /\ MutationAffectsRouting(Collected))
    /\ stage = "forwarded" =>
         after = [k \in Keys |-> EnvoyApplies(HeldValues(k), answer.mutation, k)]

-----------------------------------------------------------------------------
(* Options and what Envoy makes of them.                                    *)

(* Both parts of an option carry the bytes: nothing is lost.                *)
LEMMA OptionCarries ==
    ASSUME NEW v, NEW action
    PROVE  /\ FieldOctets(HeaderOption(v, action).field) = v
           /\ HeaderOption(v, action).action = action
  BY AdapterAssumption DEF FieldOctets, HeaderOption, Text, Empty

(* The last overwriting option is where it is found.                        *)
LEMMA LastOverwriteIs ==
    ASSUME NEW options, Len(options) \in Nat, NEW i \in 0 .. Len(options),
           i > 0 => options[i].action = "overwrite",
           \A j \in (i + 1) .. Len(options) : options[j].action = "append"
    PROVE  LastOverwrite(options) = i
<1> DEFINE P(k) == /\ k > 0 => options[k].action = "overwrite"
                   /\ \A j \in (k + 1) .. Len(options) : options[j].action = "append"
<1>1. P(i)
  OBVIOUS
<1>2. ASSUME NEW k \in 0 .. Len(options), P(k) PROVE k = i
  BY <1>2
<1>3. LastOverwrite(options) = CHOOSE k \in 0 .. Len(options) : P(k)
  BY DEF LastOverwrite
<1> HIDE DEF P
<1> QED
  BY <1>1, <1>2, <1>3

(* An option that overwrites and those that follow it are all that is left. *)
LEMMA FirstOverwrites ==
    ASSUME NEW values, NEW mutation, NEW k, NEW options, mutation.set[k] = options,
           Len(options) \in Nat, Len(options) > 0, options[1].action = "overwrite",
           \A j \in 2 .. Len(options) : options[j].action = "append"
    PROVE  EnvoyApplies(values, mutation, k) =
             [j \in 1 .. Len(options) |-> FieldOctets(options[j].field)]
<1>1. LastOverwrite(options) = 1
  BY LastOverwriteIs
<1>2. ValuesFrom(options, 1) = [j \in 1 .. Len(options) |-> FieldOctets(options[j].field)]
  BY DEF ValuesFrom
<1> QED
  BY <1>1, <1>2 DEF EnvoyApplies

(* Of a list that ends in an overwriting option, only the last value stays. *)
LEMMA LastOverwrites ==
    ASSUME NEW values, NEW mutation, NEW k, NEW options, mutation.set[k] = options,
           Len(options) \in Nat, Len(options) > 0, options[Len(options)].action = "overwrite"
    PROVE  EnvoyApplies(values, mutation, k) = <<FieldOctets(options[Len(options)].field)>>
<1> DEFINE n == Len(options)
<1>1. LastOverwrite(options) = n
  BY LastOverwriteIs
<1>2. ValuesFrom(options, n) = [j \in 1 .. 1 |-> FieldOctets(options[n].field)]
  BY DEF ValuesFrom
<1>3. <<FieldOctets(options[n].field)>> = [j \in 1 .. 1 |-> FieldOctets(options[n].field)]
  OBVIOUS
<1> QED
  BY <1>1, <1>2, <1>3 DEF EnvoyApplies

(* What a removal leaves, and the values that options carry.                *)
Kept(values, mutation, k) == IF k \in mutation.remove THEN << >> ELSE values
KeptAnd(values, mutation, k, more) == Kept(values, mutation, k) \o more
Carried(options) == [j \in 1 .. Len(options) |-> FieldOctets(options[j].field)]

(* Options that only append follow what is left of the values.              *)
LEMMA AllAppend ==
    ASSUME NEW values, NEW mutation, NEW k, Len(mutation.set[k]) \in Nat,
           \A j \in 1 .. Len(mutation.set[k]) : mutation.set[k][j].action = "append"
    PROVE  EnvoyApplies(values, mutation, k)
             = Kept(values, mutation, k) \o Carried(mutation.set[k])
<1> DEFINE options == mutation.set[k]
<1>1. LastOverwrite(options) = 0
  BY LastOverwriteIs
<1>2. ValuesFrom(options, 1) = Carried(options)
  BY DEF ValuesFrom, Carried
<1>3. mutation.set[k] = options
  OBVIOUS
<1> HIDE DEF options
<1>4. EnvoyApplies(values, mutation, k) = Kept(values, mutation, k) \o Carried(options)
  BY <1>1, <1>2, <1>3 DEF EnvoyApplies, Kept
<1> QED
  BY <1>3, <1>4

(* Without options a key keeps its values, or is removed.                   *)
LEMMA Untouched ==
    ASSUME NEW S, NEW values \in Seq(S), NEW mutation, NEW k, mutation.set[k] = << >>
    PROVE  EnvoyApplies(values, mutation, k) = Kept(values, mutation, k)
<1>1. Len(mutation.set[k]) = 0
  OBVIOUS
<1>2. Carried(mutation.set[k]) = << >>
  BY <1>1 DEF Carried
<1>3. << >> \o << >> = << >> /\ values \o << >> = values
  OBVIOUS
<1>4. Kept(values, mutation, k) \o << >> = Kept(values, mutation, k)
  BY <1>3 DEF Kept
<1>5. EnvoyApplies(values, mutation, k)
        = Kept(values, mutation, k) \o Carried(mutation.set[k])
  <2>1. /\ Len(mutation.set[k]) \in Nat
        /\ \A j \in 1 .. Len(mutation.set[k]) : mutation.set[k][j].action = "append"
    BY <1>1
  <2> QED
    BY <2>1, AllAppend
<1> QED
  BY <1>2, <1>4, <1>5

(* The values of a response's name arrive in their order.                   *)
LEMMA Replaced ==
    ASSUME NEW S, NEW new \in Seq(S), new # << >>, NEW values, NEW mutation, NEW k,
           mutation.set[k] = ReplaceHeaderValues(new)
    PROVE  EnvoyApplies(values, mutation, k) = new
<1> DEFINE options == ReplaceHeaderValues(new)
<1>1. Len(new) \in Nat /\ Len(new) >= 1 /\ new = [j \in 1 .. Len(new) |-> new[j]]
  OBVIOUS
<1>2. options = [j \in 1 .. Len(new) |->
                   HeaderOption(new[j], IF j = 1 THEN "overwrite" ELSE "append")]
  BY DEF ReplaceHeaderValues
<1>3. Len(options) = Len(new)
  BY <1>1, <1>2
<1>4. \A j \in 1 .. Len(new) :
        /\ FieldOctets(options[j].field) = new[j]
        /\ options[j].action = IF j = 1 THEN "overwrite" ELSE "append"
  BY <1>2, OptionCarries
<1> HIDE DEF options
<1>5. mutation.set[k] = options /\ Len(options) > 0 /\ options[1].action = "overwrite"
      /\ \A j \in 2 .. Len(options) : options[j].action = "append"
  BY <1>1, <1>3, <1>4 DEF options
<1>6. EnvoyApplies(values, mutation, k) =
        [j \in 1 .. Len(options) |-> FieldOctets(options[j].field)]
  BY <1>1, <1>3, <1>5, FirstOverwrites
<1>7. [j \in 1 .. Len(options) |-> FieldOctets(options[j].field)]
        = [j \in 1 .. Len(new) |-> new[j]]
  BY <1>3, <1>4
<1> QED
  BY <1>1, <1>6, <1>7

(* set_content_length leaves one value.                                     *)
LEMMA SingleOverwrite ==
    ASSUME NEW v, NEW values, NEW mutation, NEW k, mutation.set[k] = <<OverwriteOption(v)>>
    PROVE  EnvoyApplies(values, mutation, k) = <<v>>
<1> DEFINE options == <<OverwriteOption(v)>>
<1>1. Len(options) = 1 /\ options[1].action = "overwrite" /\ FieldOctets(options[1].field) = v
  BY OptionCarries DEF OverwriteOption
<1> HIDE DEF options
<1>2. mutation.set[k] = options
  BY DEF options
<1>3. /\ Len(options) \in Nat /\ Len(options) > 0
      /\ options[Len(options)].action = "overwrite"
      /\ FieldOctets(options[Len(options)].field) = v
  BY <1>1
<1>4. EnvoyApplies(values, mutation, k) = <<FieldOctets(options[Len(options)].field)>>
  BY <1>2, <1>3, LastOverwrites
<1> QED
  BY <1>3, <1>4

(* The options of a request's name: appended values, then those that are set. *)
RequestOptions(extra, sets) ==
    Map(AppendOption, extra)
      \o Map(LAMBDA v : OverwriteOption(IF v \in Ascii THEN v ELSE Empty), sets)

(* Appended values come first, then the overwriting ones, in order.         *)
LEMMA RequestOptionsAre ==
    ASSUME NEW S, NEW extra \in Seq(S), NEW sets \in Seq(S)
    PROVE  LET options == RequestOptions(extra, sets)
           IN /\ Len(options) = Len(extra) + Len(sets)
              /\ \A j \in 1 .. Len(extra) : options[j] = AppendOption(extra[j])
              /\ \A j \in 1 .. Len(sets) :
                   options[Len(extra) + j] =
                     OverwriteOption(IF sets[j] \in Ascii THEN sets[j] ELSE Empty)
<1> DEFINE first == Map(AppendOption, extra)
           second == Map(LAMBDA v : OverwriteOption(IF v \in Ascii THEN v ELSE Empty), sets)
           All == {AppendOption(v) : v \in S}
                    \cup {OverwriteOption(IF v \in Ascii THEN v ELSE Empty) : v \in S}
<1>1. /\ first = [j \in 1 .. Len(extra) |-> AppendOption(extra[j])]
      /\ second = [j \in 1 .. Len(sets) |->
                     OverwriteOption(IF sets[j] \in Ascii THEN sets[j] ELSE Empty)]
  BY DEF Map
<1>2. first \in Seq(All) /\ second \in Seq(All)
  BY <1>1
<1>3. Len(first) = Len(extra) /\ Len(second) = Len(sets)
  BY <1>1
<1> HIDE DEF first, second, All
<1>a. Len(extra) \in Nat /\ Len(sets) \in Nat
  OBVIOUS
<1>4. /\ Len(first \o second) = Len(extra) + Len(sets)
      /\ \A j \in 1 .. Len(extra) : (first \o second)[j] = first[j]
      /\ \A j \in 1 .. Len(sets) : (first \o second)[Len(extra) + j] = second[j]
  <2>1. Len(first \o second) = Len(extra) + Len(sets)
    BY SMTT(30), <1>2, <1>3
  <2>2. ASSUME NEW j \in 1 .. Len(extra) PROVE (first \o second)[j] = first[j]
    BY <1>2, <1>3, <1>a
  <2>3. ASSUME NEW j \in 1 .. Len(sets) PROVE (first \o second)[Len(extra) + j] = second[j]
    BY <1>2, <1>3, <1>a
  <2> QED
    BY <2>1, <2>2, <2>3
<1>5. RequestOptions(extra, sets) = first \o second
  BY DEF RequestOptions, first, second
<1> QED
  BY <1>1, <1>4, <1>5

(* What is appended follows what is kept.                                   *)
LEMMA AppendedFollow ==
    ASSUME NEW extra \in Seq(EditValues), NEW sets \in Seq(EditValues), Len(sets) = 0,
           NEW values, NEW mutation, NEW k, mutation.set[k] = RequestOptions(extra, sets)
    PROVE  EnvoyApplies(values, mutation, k) = KeptAnd(values, mutation, k, extra)
<1> DEFINE options == RequestOptions(extra, sets)
<1>1. Len(sets) = 0 /\ Len(extra) \in Nat
  OBVIOUS
<1>a. /\ Len(options) = Len(extra) + Len(sets)
      /\ \A j \in 1 .. Len(extra) : options[j] = AppendOption(extra[j])
  BY RequestOptionsAre
<1>2. /\ Len(options) = Len(extra)
      /\ \A j \in 1 .. Len(extra) : options[j] = AppendOption(extra[j])
  BY <1>1, <1>a
<1>3. \A j \in 1 .. Len(extra) : options[j].action = "append"
                                  /\ FieldOctets(options[j].field) = extra[j]
  BY <1>2, OptionCarries DEF AppendOption
<1>4. mutation.set[k] = options
  OBVIOUS
<1> HIDE DEF options
<1>b. /\ Len(mutation.set[k]) \in Nat
      /\ \A j \in 1 .. Len(mutation.set[k]) : mutation.set[k][j].action = "append"
  BY <1>1, <1>2, <1>3, <1>4
<1>5. EnvoyApplies(values, mutation, k) = Kept(values, mutation, k) \o Carried(options)
  BY <1>4, <1>b, AllAppend
<1>6. Carried(options) = extra
  BY <1>2, <1>3 DEF Carried
<1> QED
  BY <1>5, <1>6 DEF KeptAnd

(* The last value that is set is the only one.                              *)
LEMMA LastSetWins ==
    ASSUME NEW S, NEW extra \in Seq(S), NEW sets \in Seq(S), sets # << >>, NEW values,
           NEW mutation, NEW k, mutation.set[k] = RequestOptions(extra, sets)
    PROVE  LET v == sets[Len(sets)]
           IN EnvoyApplies(values, mutation, k) = <<IF v \in Ascii THEN v ELSE Empty>>
<1> DEFINE options == RequestOptions(extra, sets)
           last == Len(sets)
           v == sets[last]
<1>1. last \in Nat /\ last > 0 /\ Len(extra) \in Nat
  OBVIOUS
<1>2. /\ Len(options) = Len(extra) + last
      /\ options[Len(extra) + last] = OverwriteOption(IF v \in Ascii THEN v ELSE Empty)
  BY <1>1, RequestOptionsAre
<1>3. mutation.set[k] = options
  OBVIOUS
<1> HIDE DEF options, last
<1>4. /\ Len(options) \in Nat /\ Len(options) > 0
      /\ options[Len(options)].action = "overwrite"
      /\ FieldOctets(options[Len(options)].field) = IF v \in Ascii THEN v ELSE Empty
  BY <1>1, <1>2, OptionCarries DEF OverwriteOption
<1>5. EnvoyApplies(values, mutation, k) = <<FieldOctets(options[Len(options)].field)>>
  BY <1>3, <1>4, LastOverwrites
<1> QED
  BY <1>4, <1>5 DEF last

-----------------------------------------------------------------------------
(* The exchange.                                                            *)

(* What an answer depends on is not changed after it was collected.         *)
LEMMA CollectedFrame ==
    ASSUME UNCHANGED <<side, ctx, original, body>>
    PROVE  Collected' = Collected /\ (ContextTyped => ContextTyped')
  BY DEF Collected, ContextTyped

(* A context that no filter has touched.                                    *)
Fresh(c, response) ==
    /\ c = [client_addr |-> c.client_addr,
            extra_request_headers |-> c.extra_request_headers,
            request_headers_to_set |-> c.request_headers_to_set,
            request_headers_to_remove |-> c.request_headers_to_remove,
            rewritten_path |-> c.rewritten_path,
            response_header |-> c.response_header]
    /\ c.extra_request_headers = [n \in Names |-> << >>]
    /\ c.request_headers_to_set = [n \in Names |-> << >>]
    /\ c.request_headers_to_remove = {}
    /\ c.response_header = response
    /\ c.rewritten_path = None

(* HttpFilterContext starts without edits.                                  *)
LEMMA FreshContext ==
    \A map, response, t : Fresh(BuildFilterContext(map, response, t), response)
  BY DEF BuildFilterContext, Fresh

(* A fresh context is a context.                                            *)
LEMMA FreshTyped ==
    ASSUME Fresh(ctx, original), original = [n \in Names |-> original[n]]
    PROVE  ContextTyped
<1>1. [n \in Names |-> << >>] \in EditLists
  BY DEF EditLists
<1>2. DOMAIN original = Names
  OBVIOUS
<1> QED
  BY <1>1, <1>2 DEF Fresh, ContextTyped

(* The invariant holds before anything is converted.                        *)
LEMMA ExchangeInitially == Init => ExchangeInv
<1> SUFFICES ASSUME Init PROVE ExchangeInv
  OBVIOUS
<1>1. PICK m \in Messages : held = m.held /\ body = [sent |-> m.len, left |-> m.len]
  BY DEF Init
<1>2. held \in [Names -> Seq(Field)]
  BY <1>1, ExchangeAssumption
<1>3. Fresh(ctx, original)
  BY FreshContext DEF Init
<1>4. original = [n \in Names |-> original[n]]
  BY DEF Init, NoHeaders
<1>5. ContextTyped
  BY <1>3, <1>4, FreshTyped
<1> QED
  BY <1>1, <1>2, <1>4, <1>5 DEF Init, ExchangeInv

(* An edit leaves what Envoy holds alone.                                   *)
LEMMA EditKeeps ==
    ASSUME ExchangeInv, NEW c, Edit(c), ContextTyped'
    PROVE  ExchangeInv'
  BY DEF ExchangeInv, Edit, Edits

(* A filter sets or appends a request header.                               *)
LEMMA RequestEditsKeep ==
    ASSUME ExchangeInv, NEW n \in EditNames, NEW v \in EditValues,
           FilterAppends(n, v) \/ FilterSets(n, v)
    PROVE  ExchangeInv'
<1>0. n \in Names /\ ContextTyped
  BY ExchangeAssumption DEF ExchangeInv
<1>1. CASE FilterAppends(n, v)
  <2>1. Edit([ctx EXCEPT !.extra_request_headers[n] = Append(@, v)])
    BY <1>1 DEF FilterAppends
  <2>2. UNCHANGED original
    BY <2>1 DEF Edit
  <2>3. ctx' = [ctx EXCEPT !.extra_request_headers =
                  [ctx.extra_request_headers EXCEPT ![n] = Append(ctx.extra_request_headers[n], v)]]
    BY <2>1, <1>0 DEF Edit, ContextTyped
  <2>4. Append(ctx.extra_request_headers[n], v) \in Seq(EditValues)
    BY <1>0 DEF ContextTyped, EditLists
  <2>5. ContextTyped'
    BY <1>0, <2>2, <2>3, <2>4 DEF ContextTyped, EditLists
  <2> QED
    BY <2>1, <2>5, EditKeeps
<1>2. CASE FilterSets(n, v)
  <2>1. Edit([ctx EXCEPT !.request_headers_to_set[n] = Append(@, v)])
    BY <1>2 DEF FilterSets
  <2>2. UNCHANGED original
    BY <2>1 DEF Edit
  <2>3. ctx' = [ctx EXCEPT !.request_headers_to_set =
                  [ctx.request_headers_to_set EXCEPT
                      ![n] = Append(ctx.request_headers_to_set[n], v)]]
    BY <2>1, <1>0 DEF Edit, ContextTyped
  <2>4. Append(ctx.request_headers_to_set[n], v) \in Seq(EditValues)
    BY <1>0 DEF ContextTyped, EditLists
  <2>5. ContextTyped'
    BY <1>0, <2>2, <2>3, <2>4 DEF ContextTyped, EditLists
  <2> QED
    BY <2>1, <2>5, EditKeeps
<1> QED
  BY <1>1, <1>2

(* A filter removes a request header.                                       *)
LEMMA RemovalKeeps ==
    ASSUME ExchangeInv, (\E n \in EditNames : FilterRemoves(n)) \/ FilterRewritesPath
    PROVE  ExchangeInv'
<1>0. EditNames \subseteq Names /\ ContextTyped
  BY ExchangeAssumption DEF ExchangeInv
<1>1. ContextTyped'
  BY <1>0 DEF FilterRemoves, FilterRewritesPath, Edit, ContextTyped
<1> QED
  BY <1>1, EditKeeps DEF FilterRemoves, FilterRewritesPath

(* A filter edits a response header.                                        *)
LEMMA ResponseEditsKeep ==
    ASSUME ExchangeInv, NEW n \in EditNames, NEW values \in Values2, FilterEditsResponse(n, values)
    PROVE  ExchangeInv'
<1>a. /\ << >> \in Seq(EditValues)
      /\ \A v, w \in EditValues : <<v>> \in Seq(EditValues) /\ <<v, w>> \in Seq(EditValues)
  OBVIOUS
<1>b. \/ values = << >>
      \/ \E v \in EditValues : values = <<v>>
      \/ \E v, w \in EditValues : values = <<v, w>>
  BY DEF Values2
<1>0. n \in Names /\ ContextTyped /\ values \in Seq(EditValues)
  BY <1>a, <1>b, ExchangeAssumption DEF ExchangeInv
<1>1. Edit([ctx EXCEPT !.response_header[n] = values])
  BY DEF FilterEditsResponse
<1>2. /\ UNCHANGED original
      /\ ctx' = [ctx EXCEPT !.response_header = [ctx.response_header EXCEPT ![n] = values]]
  BY <1>0, <1>1 DEF Edit, ContextTyped
<1>3. ContextTyped'
  BY <1>0, <1>2 DEF ContextTyped, EditLists
<1> QED
  BY <1>1, <1>3, EditKeeps

(* Envoy's fields become the list that filters see.                         *)
LEMMA ConvertKeeps == ASSUME ExchangeInv, Convert PROVE ExchangeInv'
<1>1. (original = [n \in Names |-> original[n]])'
  BY DEF Convert, EnvoyHeadersToResponse, HeaderMap
<1>2. Fresh(ctx, original)'
  BY FreshContext DEF Convert
<1>3. ContextTyped'
  <2>1. (Fresh(ctx, original) /\ original = [n \in Names |-> original[n]] => ContextTyped)'
    BY FreshTyped, PTL
  <2> QED
    BY <1>1, <1>2, <2>1
<1> QED
  BY <1>1, <1>3 DEF ExchangeInv, Convert

(* The edits become the mutation of the answer.                             *)
LEMMA CollectKeeps == ASSUME ExchangeInv, Collect PROVE ExchangeInv'
<1>1. Collected' = Collected /\ ContextTyped'
  BY CollectedFrame DEF Collect, ExchangeInv
<1> QED
  BY <1>1 DEF ExchangeInv, Collect

(* A filter answers by itself.                                              *)
LEMMA ReplyKeeps == ASSUME ExchangeInv, NEW r, FilterReplies(r) PROVE ExchangeInv'
<1>1. Fresh(ctx, original)'
  BY FreshContext DEF FilterReplies
<1>2. (original = [n \in Names |-> original[n]])'
  BY DEF ExchangeInv, FilterReplies
<1>3. ContextTyped'
  <2>1. (Fresh(ctx, original) /\ original = [n \in Names |-> original[n]] => ContextTyped)'
    BY FreshTyped, PTL
  <2> QED
    BY <1>1, <1>2, <2>1
<1> QED
  BY <1>2, <1>3 DEF ExchangeInv, FilterReplies

(* A filter changes the body.                                               *)
LEMMA ResizeKeeps == ASSUME ExchangeInv, NEW len, FilterResizesBody(len) PROVE ExchangeInv'
<1>1. UNCHANGED <<ctx, original>> /\ ContextTyped'
  BY DEF ExchangeInv, FilterResizesBody, ContextTyped
<1> QED
  BY <1>1 DEF ExchangeInv, FilterResizesBody, Edits

(* Envoy applies the answer.                                                *)
LEMMA ApplyKeeps == ASSUME ExchangeInv, Apply PROVE ExchangeInv'
<1>1. Collected' = Collected /\ ContextTyped'
  BY CollectedFrame DEF Apply, ExchangeInv
<1>2. \A k : HeldValues(k)' = HeldValues(k)
  BY DEF Apply, HeldValues
<1>3. stage = "answered" =>
        after' = [k \in Keys |-> EnvoyApplies(HeldValues(k), answer.mutation, k)]
  BY DEF Apply
<1> QED
  BY <1>1, <1>2, <1>3 DEF ExchangeInv, Apply

(* Every step keeps the invariant.                                          *)
LEMMA ExchangeStep == ExchangeInv /\ [Next]_vars => ExchangeInv'
<1>1. ASSUME ExchangeInv, UNCHANGED vars PROVE ExchangeInv'
  <2>1. Collected' = Collected /\ ContextTyped'
    BY <1>1, CollectedFrame DEF vars, ExchangeInv
  <2>2. \A k : HeldValues(k)' = HeldValues(k)
    BY <1>1 DEF vars, HeldValues
  <2> QED
    BY <1>1, <2>1, <2>2 DEF ExchangeInv, vars
<1>2. ASSUME ExchangeInv, Next PROVE ExchangeInv'
  BY <1>2, ConvertKeeps, RequestEditsKeep, RemovalKeeps, ResponseEditsKeep, ResizeKeeps,
     CollectKeeps, ReplyKeeps, ApplyKeeps
  DEF Next
<1> QED
  BY <1>1, <1>2

(* The answer that Envoy applies is the one collected from the edits.       *)
THEOREM AnswerApplied == Spec => []ExchangeInv
  BY ExchangeInitially, ExchangeStep, PTL DEF Spec

-----------------------------------------------------------------------------
(* What follows for the header list Envoy goes on with.                     *)

(* What is collected before the length is put in.                           *)
Base ==
    IF side = "request" THEN CollectRequestHeaderMutations(ctx)
    ELSE CollectResponseHeaderMutationsDiff(ctx.response_header, original)

(* The length is the only thing with_content_length changes.                *)
LEMMA LengthOnly ==
    /\ Collected.remove = Base.remove
    /\ \A k \in Keys : k # ContentLength \/ ~Resized => Collected.set[k] = Base.set[k]
    /\ Resized => Collected.set[ContentLength] = <<OverwriteOption(body.left)>>
<1> DEFINE options == <<OverwriteOption(body.left)>>
<1>1. /\ Base = [set |-> Base.set, remove |-> Base.remove]
      /\ Base.set = [k \in Keys |-> Base.set[k]] /\ DOMAIN Base.set = Keys
  BY DEF Base, CollectRequestHeaderMutations, CollectResponseHeaderMutationsDiff
<1>2. ContentLength \in Keys
  BY AdapterAssumption DEF Keys
<1>3. Collected = IF Resized THEN [Base EXCEPT !.set[ContentLength] = options] ELSE Base
  BY DEF Collected, WithContentLength, SetContentLength, Resized, Base
<1> HIDE DEF options, Base
<1>4. Resized => Collected = [set |-> [Base.set EXCEPT ![ContentLength] = options],
                              remove |-> Base.remove]
  BY <1>1, <1>3
<1> QED
  BY <1>1, <1>2, <1>3, <1>4 DEF options

(* The values Envoy holds are a sequence.                                   *)
LEMMA HeldTyped ==
    ASSUME ExchangeInv, NEW k \in Keys
    PROVE  \E S : HeldValues(k) \in Seq(S)
<1>1. CASE k \in Names
  <2>1. held[k] \in Seq(Field)
    BY <1>1 DEF ExchangeInv
  <2>2. HeldValues(k) = [i \in 1 .. Len(held[k]) |-> FieldOctets(held[k][i])]
    BY <1>1 DEF HeldValues, Map
  <2>3. HeldValues(k) \in Seq({FieldOctets(f) : f \in Field})
    BY <2>1, <2>2
  <2> QED
    BY <2>3
<1>2. CASE k \notin Names
  <2>1. << >> \in Seq({pseudo.path}) /\ <<pseudo.path>> \in Seq({pseudo.path})
    OBVIOUS
  <2>2. HeldValues(k) \in Seq({pseudo.path})
    BY <1>2, <2>1 DEF HeldValues
  <2> QED
    BY <2>2
<1> QED
  BY <1>1, <1>2

(* What Envoy does with a key, once it has the answer.                      *)
LEMMA AnswerForwarded ==
    ASSUME ExchangeInv, Forwards, NEW k \in Keys
    PROVE  /\ after[k] = EnvoyApplies(HeldValues(k), Collected, k)
           /\ Collected.set[k] = << >> =>
                after[k] = Kept(HeldValues(k), Collected, k)
<1>1. after[k] = EnvoyApplies(HeldValues(k), Collected, k)
  BY DEF ExchangeInv, Forwards
<1>2. PICK S : HeldValues(k) \in Seq(S)
  BY HeldTyped
<1> QED
  BY <1>1, <1>2, Untouched

(* Whatever filters did to content-length, Envoy forwards the length of the  *)
(* body it gets.                                                            *)
THEOREM LengthsAgree == Spec => []LengthAgrees
<1>1. ExchangeInv => LengthAgrees
  <2> SUFFICES ASSUME ExchangeInv, Forwards, Resized PROVE after[ContentLength] = <<body.left>>
    BY DEF LengthAgrees
  <2>1. ContentLength \in Keys
    BY AdapterAssumption DEF Keys
  <2> QED
    BY <2>1, AnswerForwarded, LengthOnly, SingleOverwrite
<1> QED
  BY <1>1, AnswerApplied, PTL

(* A response reaches the client as the filters left it, for every list of   *)
(* fields and every edit of it.                                             *)
THEOREM ResponsesRoundTrip == Spec => []ResponseRoundTrip
<1>1. ExchangeInv => ResponseRoundTrip
  <2> SUFFICES ASSUME ExchangeInv, Forwards, side = "response", NEW n \in FilterNames
               PROVE  after[n] = IF ctx.response_header[n] = original[n] THEN HeldValues(n)
                                 ELSE ctx.response_header[n]
    BY DEF ResponseRoundTrip
  <2> DEFINE new == ctx.response_header[n]
             old == original[n]
  <2>1. n \in Names /\ n \in Keys /\ (n # ContentLength \/ ~Resized)
    BY DEF FilterNames, Keys
  <2>2. /\ Collected.set[n] = IF new # old THEN ReplaceHeaderValues(new) ELSE << >>
        /\ n \in Collected.remove <=> old # << >> /\ new = << >>
    BY <2>1, LengthOnly DEF Base, CollectResponseHeaderMutationsDiff
  <2>3. CASE new = old
    BY <2>1, <2>2, <2>3, AnswerForwarded DEF Kept
  <2>4. CASE new # old /\ new = << >>
    <3>1. ReplaceHeaderValues(<< >>) = << >>
      BY DEF ReplaceHeaderValues
    <3> QED
      BY <2>1, <2>2, <2>4, <3>1, AnswerForwarded DEF Kept
  <2>5. CASE new # old /\ new # << >>
    <3>1. new \in Seq(EditValues)
      BY <2>1, <2>5 DEF ExchangeInv, ContextTyped
    <3> HIDE DEF new
    <3> QED
      BY <2>1, <2>2, <2>5, <3>1, AnswerForwarded, Replaced DEF new
  <2> QED
    BY <2>3, <2>4, <2>5
<1> QED
  BY <1>1, AnswerApplied, PTL

(* What filters ask of a request takes effect, for every list of fields and  *)
(* every sequence of edits; a last set value that is not visible ASCII       *)
(* arrives empty.                                                           *)
THEOREM RequestEditsApplied == Spec => []RequestEditsTakeEffect
<1>1. ExchangeInv => RequestEditsTakeEffect
  <2> SUFFICES ASSUME ExchangeInv, Forwards, side = "request", NEW n \in FilterNames
               PROVE  LET sets == ctx.request_headers_to_set[n]
                          kept == IF n \in ctx.request_headers_to_remove THEN << >>
                                  ELSE HeldValues(n)
                      IN IF sets = << >> THEN after[n] = kept \o ctx.extra_request_headers[n]
                         ELSE after[n] = <<IF sets[Len(sets)] \in Ascii
                                             THEN sets[Len(sets)] ELSE Empty>>
    BY DEF RequestEditsTakeEffect
  <2> DEFINE sets == ctx.request_headers_to_set[n]
             extra == ctx.extra_request_headers[n]
  <2>1. n \in Names /\ n \in Keys /\ n # Path /\ (n # ContentLength \/ ~Resized)
    BY AdapterAssumption DEF FilterNames, Keys
  <2>2. sets \in Seq(EditValues) /\ extra \in Seq(EditValues)
    BY <2>1 DEF ExchangeInv, ContextTyped, EditLists
  <2>3. /\ Collected.set[n] = RequestOptions(extra, sets)
        /\ Collected.remove = ctx.request_headers_to_remove
    BY <2>1, LengthOnly DEF Base, CollectRequestHeaderMutations, RequestOptions
  <2>4. after[n] = EnvoyApplies(HeldValues(n), Collected, n)
    BY <2>1, AnswerForwarded
  <2> HIDE DEF sets, extra
  <2>5. CASE sets = << >>
    <3>0. Len(sets) = 0
      BY <2>5
    <3>a. Collected.set[n] = RequestOptions(extra, sets)
      BY <2>3
    <3>1. after[n] = KeptAnd(HeldValues(n), Collected, n, extra)
      BY ZenonT(40), <2>2, <2>4, <3>0, <3>a, AppendedFollow
    <3> QED
      BY <2>3, <2>5, <3>1 DEF extra, sets, Kept, KeptAnd
  <2>6. CASE sets # << >>
    <3>1. after[n] = <<IF sets[Len(sets)] \in Ascii THEN sets[Len(sets)] ELSE Empty>>
      BY <2>2, <2>3, <2>4, <2>6, LastSetWins
    <3> QED
      BY <2>6, <3>1 DEF sets
  <2> QED
    BY <2>5, <2>6
<1> QED
  BY <1>1, AnswerApplied, PTL

(* No request whose routing headers changed keeps a cached route, and one    *)
(* whose body alone changed keeps it.                                       *)
THEOREM RouteCacheExact == Spec => []RouteCacheCleared
<1>1. ExchangeInv => RouteCacheCleared
  <2> SUFFICES ASSUME ExchangeInv, Forwards, side = "request" PROVE RouteCacheCleared
    BY DEF RouteCacheCleared
  <2>0. answer.clear_route_cache <=> MutationAffectsRouting(Collected)
    BY DEF ExchangeInv, Forwards
  <2>1. ASSUME NEW k \in Keys \ {ContentLength}, after[k] # HeldValues(k)
        PROVE  answer.clear_route_cache
    <3>1. ~(Collected.remove = {} /\ Collected.set[k] = << >>)
      BY <2>1, AnswerForwarded DEF Kept
    <3> QED
      BY <2>0, <3>1 DEF MutationAffectsRouting
  <2>2. ASSUME ctx = BuildFilterContext(request.headers, original, trust)
        PROVE  ~answer.clear_route_cache
    <3>1. Fresh(ctx, original)
      BY <2>2, FreshContext
    <3>2. ASSUME NEW k \in Keys \ {ContentLength} PROVE Collected.set[k] = << >>
      <4>1. Collected.set[k] = Base.set[k]
        BY LengthOnly
      <4>2. CASE k = Path
        BY <3>1, <4>1, <4>2 DEF Base, CollectRequestHeaderMutations, Fresh
      <4>3. CASE k # Path
        <5>1. k \in Names /\ ctx.extra_request_headers[k] = << >>
              /\ ctx.request_headers_to_set[k] = << >>
          BY <3>1, <4>3 DEF Keys, Fresh
        <5>2. Base.set[k] = RequestOptions(<< >>, << >>)
          BY <4>3, <5>1 DEF Base, CollectRequestHeaderMutations, RequestOptions
        <5>3. RequestOptions(<< >>, << >>) = << >>
          BY DEF RequestOptions, Map
        <5> QED
          BY <4>1, <5>2, <5>3
      <4> QED
        BY <4>2, <4>3
    <3>3. Collected.remove = {}
      BY <3>1, LengthOnly DEF Base, CollectRequestHeaderMutations, Fresh
    <3> QED
      BY <2>0, <3>2, <3>3 DEF MutationAffectsRouting
  <2> QED
    BY <2>1, <2>2 DEF RouteCacheCleared
<1> QED
  BY <1>1, AnswerApplied, PTL

-----------------------------------------------------------------------------
(* What filters see.                                                       *)

(* Every set of positions has a first one.                                  *)
LEMMA Least ==
    ASSUME NEW T, T \subseteq Nat, T # {}
    PROVE  \E x \in T : \A y \in T : x <= y
<1> DEFINE R == OpToRel(<, Nat)
<1>1. IsWellFoundedOn(R, Nat)
  BY NatLessThanWellFounded
<1>2. \A x, y \in Nat : y < x => <<y, x>> \in R
  BY DEF OpToRel
<1> HIDE DEF R
<1>3. PICK x \in T : \A y \in T : ~(<<y, x>> \in R)
  BY <1>1, WFMin
<1>4. ASSUME NEW y \in T PROVE x <= y
  <2>1. x \in Nat /\ y \in Nat /\ ~(y < x)
    BY <1>2, <1>3
  <2> QED
    BY <2>1
<1> QED
  BY <1>4

(* The positions of a set up to one of them.                                *)
UpTo(positions, i) == {j \in positions : j <= i}

(* The k-th position is where it is looked for.                             *)
LEMMA NthIs ==
    ASSUME NEW n \in Nat, NEW S, S \subseteq 1 .. n, NEW k \in 1 .. Cardinality(S)
    PROVE  Nth(S, k) \in S /\ Cardinality(UpTo(S, Nth(S, k))) = k
<1>1. IsFiniteSet(S) /\ \A i : IsFiniteSet(UpTo(S, i))
  <2>1. IsFiniteSet(1 .. n)
    BY FS_Interval
  <2> QED
    BY <2>1, FS_Subset DEF UpTo
<1>2. Cardinality(S) \in Nat /\ \A i : Cardinality(UpTo(S, i)) \in Nat
  BY <1>1, FS_CardinalityType
<1> DEFINE T == {i \in 1 .. n : Cardinality(UpTo(S, i)) >= k}
<1>3. UpTo(S, n) = S /\ n \in 1 .. n
  <2>1. PICK i : i \in S
    <3>1. S # {}
      BY FS_EmptySet
    <3> QED
      BY <3>1
  <2>2. \A j \in S : j \in 1 .. n /\ j <= n
    OBVIOUS
  <2>3. UpTo(S, n) = S
    BY <2>2 DEF UpTo
  <2>4. i \in 1 .. n
    BY <2>1, <2>2
  <2> QED
    BY <2>3, <2>4
<1>4. T \subseteq Nat /\ n \in T
  BY <1>2, <1>3
<1>5. PICK i \in T : \A j \in T : i <= j
  BY <1>4, Least
<1>6. i \in 1 .. n /\ i - 1 \in Nat /\ Cardinality(UpTo(S, i)) >= k
  OBVIOUS
<1>7. \A j \in S : j \in Nat /\ j >= 1
  OBVIOUS
<1>8. Cardinality(UpTo(S, i - 1)) < k
  <2>1. CASE i = 1
    <3>1. \A j \in S : ~(j <= 0)
      BY <1>7
    <3>2. UpTo(S, 0) = {}
      BY <3>1 DEF UpTo
    <3> QED
      BY <2>1, <3>2, FS_EmptySet
  <2>2. CASE i # 1
    <3>1. i - 1 \in 1 .. n /\ i - 1 \notin T
      BY <1>5, <2>2
    <3> QED
      BY <1>2, <3>1
  <2> QED
    BY <2>1, <2>2
<1> HIDE DEF T
<1>9. \A j \in S : j <= i <=> j <= i - 1 \/ j = i
  BY <1>6, <1>7
<1>10. i \in S
  <2>1. ASSUME i \notin S PROVE UpTo(S, i) = UpTo(S, i - 1)
    BY <1>9, <2>1 DEF UpTo
  <2> QED
    BY <1>2, <1>6, <1>8, <2>1
<1>11. Cardinality(UpTo(S, i)) = Cardinality(UpTo(S, i - 1)) + 1
  <2>1. i \notin UpTo(S, i - 1)
    BY <1>6 DEF UpTo
  <2>2. UpTo(S, i) = UpTo(S, i - 1) \cup {i}
    BY <1>9, <1>10 DEF UpTo
  <2> QED
    BY <1>1, <2>1, <2>2, FS_AddElement
<1>12. Cardinality(UpTo(S, i)) = k
  BY <1>2, <1>6, <1>8, <1>11
<1> QED
  BY <1>10, <1>12 DEF Nth, UpTo

(* Without gaps, a position is its own number.                              *)
LEMMA NthOfAll ==
    ASSUME NEW n \in Nat, NEW k \in 1 .. n
    PROVE  Nth(1 .. n, k) = k
<1>1. Cardinality(1 .. n) = n
  BY FS_Interval
<1>2. Nth(1 .. n, k) \in 1 .. n /\ Cardinality(UpTo(1 .. n, Nth(1 .. n, k))) = k
  BY <1>1, NthIs
<1> DEFINE i == Nth(1 .. n, k)
<1> HIDE DEF i
<1>3. i \in 1 .. n /\ UpTo(1 .. n, i) = 1 .. i
  BY <1>2 DEF UpTo, i
<1>4. Cardinality(1 .. i) = i
  BY <1>3, FS_Interval
<1> QED
  BY <1>2, <1>3, <1>4 DEF i

(* The bytes of a field.                                                    *)
LEMMA FieldTyped ==
    ASSUME NEW f \in Field
    PROVE  FieldOctets(f) \in Octets
  BY DEF Field, FieldOctets, Octets, Text, Legal

(* What filters see of a name: legal values, each of them Envoy's.          *)
LEMMA AppendedLegal ==
    ASSUME NEW name, NEW fields \in Seq(Field)
    PROVE  /\ AppendHeader(name, fields) \in Seq(Legal)
           /\ \A k \in 1 .. Len(AppendHeader(name, fields)) :
                \E i \in 1 .. Len(fields) :
                  AppendHeader(name, fields)[k] = FieldOctets(fields[i])
<1> DEFINE kept == {i \in 1 .. Len(fields) :
                      name \notin IllegalNames /\ FieldOctets(fields[i]) \in Legal}
           n == Cardinality(kept)
           seen == [k \in 1 .. n |-> FieldOctets(fields[Nth(kept, k)])]
<1>1. AppendHeader(name, fields) = seen
  BY DEF AppendHeader
<1>2. Len(fields) \in Nat /\ kept \subseteq 1 .. Len(fields)
  OBVIOUS
<1>3. n \in Nat
  <2>1. IsFiniteSet(1 .. Len(fields))
    BY <1>2, FS_Interval
  <2> HIDE DEF kept
  <2> QED
    BY <1>2, <2>1, FS_Subset, FS_CardinalityType
<1>4. \A i \in kept : FieldOctets(fields[i]) \in Legal
  OBVIOUS
<1> HIDE DEF kept
<1>5. \A k \in 1 .. n : Nth(kept, k) \in kept
  BY <1>2, NthIs
<1> HIDE DEF n
<1>6. seen \in [1 .. n -> Legal]
  BY <1>4, <1>5
<1>7. \A k \in 1 .. n : \E i \in 1 .. Len(fields) : seen[k] = FieldOctets(fields[i])
  BY <1>2, <1>5
<1> HIDE DEF seen
<1>8. seen \in Seq(Legal) /\ Len(seen) = n
  BY <1>3, <1>6
<1> QED
  BY <1>1, <1>7, <1>8

(* If all its values are legal, a name is seen as Envoy holds it.           *)
LEMMA AllAppended ==
    ASSUME NEW name, name \notin IllegalNames, NEW fields \in Seq(Field),
           \A i \in 1 .. Len(fields) : FieldOctets(fields[i]) \in Legal
    PROVE  AppendHeader(name, fields) = Map(FieldOctets, fields)
<1> DEFINE n == Len(fields)
           kept == {i \in 1 .. n : name \notin IllegalNames /\ FieldOctets(fields[i]) \in Legal}
<1>1. n \in Nat /\ kept = 1 .. n
  OBVIOUS
<1>2. AppendHeader(name, fields)
        = [k \in 1 .. Cardinality(kept) |-> FieldOctets(fields[Nth(kept, k)])]
  BY DEF AppendHeader
<1> HIDE DEF kept, n
<1>3. Cardinality(1 .. n) = n
  BY <1>1, FS_Interval
<1>4. AppendHeader(name, fields) = [k \in 1 .. n |-> FieldOctets(fields[k])]
  BY <1>1, <1>2, <1>3, NthOfAll
<1> QED
  BY <1>4 DEF Map, n

(* What filters see was converted from the message Envoy holds, and the      *)
(* address they attribute the request to stays as it was.                    *)
SeenInv ==
    stage = "filters" =>
      /\ request.headers = SynthesizedHost(pseudo, HeaderMap(held))
      /\ original = HeaderMap(held)
      /\ ctx.client_addr = ExtractClientAddr(request.headers, trust)

(* Edits of the context leave the address alone.                            *)
LEMMA EditSeen ==
    ASSUME SeenInv, NEW c, Edit(c), c.client_addr = ctx.client_addr
    PROVE  SeenInv'
<1>1. UNCHANGED <<trust, pseudo, held, stage, request, original>> /\ ctx' = c
  BY DEF Edit
<1> QED
  BY <1>1 DEF SeenInv

(* Every step keeps what filters see.                                       *)
LEMMA SeenStep == ExchangeInv /\ SeenInv /\ [Next]_vars => SeenInv'
<1> SUFFICES ASSUME ExchangeInv, SeenInv, [Next]_vars PROVE SeenInv'
  OBVIOUS
<1>1. ctx = [client_addr |-> ctx.client_addr,
             extra_request_headers |-> ctx.extra_request_headers,
             request_headers_to_set |-> ctx.request_headers_to_set,
             request_headers_to_remove |-> ctx.request_headers_to_remove,
             rewritten_path |-> ctx.rewritten_path,
             response_header |-> ctx.response_header]
  BY DEF ExchangeInv, ContextTyped
<1>2. ASSUME NEW n, NEW v
      PROVE  /\ [ctx EXCEPT !.extra_request_headers[n] = Append(@, v)].client_addr
                  = ctx.client_addr
             /\ [ctx EXCEPT !.request_headers_to_set[n] = Append(@, v)].client_addr
                  = ctx.client_addr
             /\ [ctx EXCEPT !.request_headers_to_remove = @ \cup {n}].client_addr
                  = ctx.client_addr
             /\ [ctx EXCEPT !.rewritten_path = "/"].client_addr = ctx.client_addr
             /\ [ctx EXCEPT !.response_header[n] = v].client_addr = ctx.client_addr
  BY <1>1
<1>3. CASE Convert
  <2>1. /\ UNCHANGED <<trust, pseudo, held>>
        /\ request' = EnvoyHeadersToRequest(pseudo, held)
        /\ original' = EnvoyHeadersToResponse(pseudo, held).headers
        /\ ctx' = BuildFilterContext(request'.headers, original', trust)
    BY <1>3 DEF Convert
  <2>2. /\ request'.headers = SynthesizedHost(pseudo, HeaderMap(held))
        /\ original' = HeaderMap(held)
    BY <2>1 DEF EnvoyHeadersToRequest, EnvoyHeadersToResponse
  <2>3. ctx'.client_addr = ExtractClientAddr(request'.headers, trust)
    BY <2>1 DEF BuildFilterContext
  <2> QED
    BY <2>1, <2>2, <2>3 DEF SeenInv
<1>4. CASE \E n \in EditNames, v \in EditValues : FilterAppends(n, v) \/ FilterSets(n, v)
  BY <1>2, <1>4, EditSeen DEF FilterAppends, FilterSets
<1>5. CASE (\E n \in EditNames : FilterRemoves(n)) \/ FilterRewritesPath
  BY <1>2, <1>5, EditSeen DEF FilterRemoves, FilterRewritesPath
<1>6. CASE \E n \in EditNames, values \in Values2 : FilterEditsResponse(n, values)
  BY <1>2, <1>6, EditSeen DEF FilterEditsResponse
<1>7. CASE \E len \in Lengths : FilterResizesBody(len)
  <2>1. UNCHANGED <<trust, pseudo, held, stage, request, ctx, original>>
    BY <1>7 DEF FilterResizesBody
  <2> QED
    BY <2>1 DEF SeenInv
<1>8. CASE Collect \/ Apply \/ \E r \in Replies : FilterReplies(r)
  <2>1. stage' # "filters"
    BY <1>8 DEF Collect, Apply, FilterReplies
  <2> QED
    BY <2>1 DEF SeenInv
<1>9. CASE UNCHANGED vars
  <2>1. UNCHANGED <<trust, pseudo, held, stage, request, ctx, original>>
    BY <1>9 DEF vars
  <2> QED
    BY <2>1 DEF SeenInv
<1> QED
  BY <1>3, <1>4, <1>5, <1>6, <1>7, <1>8, <1>9 DEF Next

(* Filters see every legal value byte for byte, and trust no address they    *)
(* were not told to, for every list of fields.                              *)
THEOREM FiltersSeeHeld == Spec => []FiltersSeeWhatEnvoyHolds
<1>1. Init => SeenInv
  BY DEF Init, SeenInv
<1>2. ExchangeInv /\ SeenInv => FiltersSeeWhatEnvoyHolds
  <2> SUFFICES ASSUME ExchangeInv, SeenInv, stage = "filters"
               PROVE  FiltersSeeWhatEnvoyHolds
    BY DEF FiltersSeeWhatEnvoyHolds
  <2> DEFINE map == HeaderMap(held)
  <2>1. /\ held \in [Names -> Seq(Field)] /\ original = map
        /\ request.headers = SynthesizedHost(pseudo, map)
        /\ ctx.client_addr = ExtractClientAddr(request.headers, trust)
    BY DEF ExchangeInv, SeenInv
  <2>2. \A n \in Names : map[n] = AppendHeader(n, held[n])
    BY DEF HeaderMap
  <2>3. DOMAIN map = Names
    BY DEF HeaderMap
  <2> HIDE DEF map
  <2>4. \A n : n # Host \/ map[Host] # << >> => request.headers[n] = map[n]
    BY <2>1, <2>3 DEF SynthesizedHost
  <2>5. ASSUME NEW n \in Names \ IllegalNames,
               \A i \in 1 .. Len(held[n]) : FieldOctets(held[n][i]) \in Legal
        PROVE  /\ original[n] = HeldValues(n)
               /\ held[n] # << >> => request.headers[n] = HeldValues(n)
    <3>1. map[n] = HeldValues(n)
      BY <2>1, <2>2, <2>5, AllAppended DEF HeldValues
    <3>2. ASSUME held[n] # << >> PROVE HeldValues(n) # << >>
      <4>1. held[n] \in Seq(Field) /\ Len(held[n]) \in Nat /\ Len(held[n]) > 0
        BY <2>1, <3>2
      <4>2. HeldValues(n) = [i \in 1 .. Len(held[n]) |-> FieldOctets(held[n][i])]
        BY DEF HeldValues, Map
      <4>3. DOMAIN HeldValues(n) = 1 .. Len(held[n]) /\ 1 \in 1 .. Len(held[n])
        BY <4>1, <4>2
      <4> QED
        BY <4>3
    <3> QED
      BY <2>1, <2>4, <3>1, <3>2
  <2>6. ASSUME ~trust, ctx.client_addr # None
        PROVE  \E i \in 1 .. Len(held[External]) :
                 ctx.client_addr = FieldOctets(held[External][i])
    <3>1. External # Host /\ External \in Names
      BY AdapterAssumption DEF External, Host
    <3>2. request.headers[External] = map[External]
      BY <2>4, <3>1
    <3>3. map[External] # << >> /\ ctx.client_addr = map[External][1]
      BY <2>1, <2>6, <3>2 DEF ExtractClientAddr, FirstIpInHeader
    <3>4. /\ map[External] \in Seq(Legal)
          /\ \A k \in 1 .. Len(map[External]) : \E i \in 1 .. Len(held[External]) :
               map[External][k] = FieldOctets(held[External][i])
      BY <2>1, <2>2, <3>1, AppendedLegal
    <3>5. 1 \in 1 .. Len(map[External])
      BY <3>3, <3>4
    <3> QED
      BY <3>3, <3>4, <3>5
  <2> QED
    BY <2>5, <2>6 DEF FiltersSeeWhatEnvoyHolds
<1> QED
  BY <1>1, <1>2, AnswerApplied, SeenStep, PTL DEF Spec

-----------------------------------------------------------------------------
(* What Envoy is sent, and what it then holds, is made of legal fields.     *)

(* The options of a mutation, and a mutation.                               *)
OptionType == [field : Field, action : {"append", "overwrite"}]
MutationType == [set : [Keys -> Seq(OptionType)], remove : SUBSET Names]

(* An option for a legal value is a legal field.                            *)
LEMMA OptionTyped ==
    ASSUME NEW v \in Legal
    PROVE  AppendOption(v) \in OptionType /\ OverwriteOption(v) \in OptionType
<1>1. Empty \in Text /\ (v \in Opaque \/ v \in Text) /\ v \in Octets
  BY AdapterAssumption DEF Text, Legal, Octets
<1> QED
  BY <1>1 DEF AppendOption, OverwriteOption, HeaderOption, OptionType, Field

(* A list of n options.                                                     *)
LEMMA Listed ==
    ASSUME NEW S, NEW n \in Nat, NEW f \in [1 .. n -> S]
    PROVE  f \in Seq(S)
  OBVIOUS

(* What filters ask of a request.                                           *)
LEMMA RequestOptionsTyped ==
    ASSUME NEW extra \in Seq(EditValues), NEW sets \in Seq(EditValues)
    PROVE  RequestOptions(extra, sets) \in Seq(OptionType)
<1> DEFINE first == Map(AppendOption, extra)
           second == Map(LAMBDA v : OverwriteOption(IF v \in Ascii THEN v ELSE Empty), sets)
<1>1. \A v \in EditValues : /\ v \in Legal
                            /\ (IF v \in Ascii THEN v ELSE Empty) \in Legal
  BY ExchangeAssumption, AdapterAssumption DEF Legal
<1>2. \A v \in EditValues : /\ AppendOption(v) \in OptionType
                            /\ OverwriteOption(IF v \in Ascii THEN v ELSE Empty) \in OptionType
  BY <1>1, OptionTyped
<1>3. first = [i \in 1 .. Len(extra) |-> AppendOption(extra[i])]
  BY DEF Map
<1>4. second = [i \in 1 .. Len(sets) |->
                  OverwriteOption(IF sets[i] \in Ascii THEN sets[i] ELSE Empty)]
  BY DEF Map
<1>5. first \in Seq(OptionType) /\ second \in Seq(OptionType)
  <2>1. /\ \A i \in 1 .. Len(extra) : extra[i] \in EditValues
        /\ \A i \in 1 .. Len(sets) : sets[i] \in EditValues
        /\ Len(extra) \in Nat /\ Len(sets) \in Nat
    OBVIOUS
  <2> HIDE DEF first, second
  <2>2. first \in [1 .. Len(extra) -> OptionType]
    BY <1>2, <1>3, <2>1
  <2>3. second \in [1 .. Len(sets) -> OptionType]
    <3> DEFINE option(i) == OverwriteOption(IF sets[i] \in Ascii THEN sets[i] ELSE Empty)
    <3>1. \A i \in 1 .. Len(sets) : option(i) \in OptionType
      BY <1>2, <2>1
    <3>2. second = [i \in 1 .. Len(sets) |-> option(i)]
      BY <1>4
    <3> HIDE DEF option
    <3> QED
      BY <3>1, <3>2
  <2> QED
    BY <2>1, <2>2, <2>3, Listed
<1> HIDE DEF first, second
<1>6. first \o second \in Seq(OptionType)
  BY <1>5
<1> QED
  BY <1>6 DEF RequestOptions, first, second

(* What filters left of a response.                                         *)
LEMMA ReplacedTyped ==
    ASSUME NEW values \in Seq(Legal)
    PROVE  ReplaceHeaderValues(values) \in Seq(OptionType)
<1>1. \A i \in 1 .. Len(values) : values[i] \in Legal
  OBVIOUS
<1>2. \A i \in 1 .. Len(values) :
        HeaderOption(values[i], IF i = 1 THEN "overwrite" ELSE "append") \in OptionType
  BY <1>1, OptionTyped DEF AppendOption, OverwriteOption
<1>3. ReplaceHeaderValues(values) \in [1 .. Len(values) -> OptionType]
  BY <1>2 DEF ReplaceHeaderValues
<1> QED
  BY <1>3

(* The invariant: types, the length filters leave and the path they write.  *)
TypedInv ==
    /\ TypeOK
    /\ body.left \in Lengths
    /\ ctx.rewritten_path \in {None, "/"}

(* What is collected is a mutation of legal fields.                         *)
LEMMA CollectedTyped ==
    ASSUME ExchangeInv, TypedInv
    PROVE  Collected \in MutationType
<1>1. Base \in MutationType
  <2>1. CASE side = "request"
    <3>1. /\ ctx.extra_request_headers \in EditLists /\ ctx.request_headers_to_set \in EditLists
          /\ ctx.request_headers_to_remove \subseteq Names
      BY DEF ExchangeInv, ContextTyped
    <3>2. ASSUME NEW k \in Keys PROVE Base.set[k] \in Seq(OptionType)
      <4>1. CASE k = Path
        <5>1. OverwriteOption("/") \in OptionType
          BY OptionTyped, AdapterAssumption DEF Legal
        <5>2. Base.set[k] = IF ctx.rewritten_path = None THEN << >>
                            ELSE <<OverwriteOption(ctx.rewritten_path)>>
          BY <2>1, <4>1 DEF Base, CollectRequestHeaderMutations
        <5>3. << >> \in Seq(OptionType) /\ <<OverwriteOption("/")>> \in Seq(OptionType)
          BY <5>1
        <5> QED
          BY <5>2, <5>3 DEF TypedInv
      <4>2. CASE k # Path
        <5>1. k \in Names
          BY <4>2 DEF Keys
        <5>2. Base.set[k] = RequestOptions(ctx.extra_request_headers[k],
                                           ctx.request_headers_to_set[k])
          BY <2>1, <4>2 DEF Base, CollectRequestHeaderMutations, RequestOptions
        <5>3. /\ ctx.extra_request_headers[k] \in Seq(EditValues)
              /\ ctx.request_headers_to_set[k] \in Seq(EditValues)
          BY <3>1, <5>1 DEF EditLists
        <5> QED
          BY <5>2, <5>3, RequestOptionsTyped
      <4> QED
        BY <4>1, <4>2
    <3>3. /\ Base = [set |-> Base.set, remove |-> ctx.request_headers_to_remove]
          /\ Base.set = [k \in Keys |-> Base.set[k]]
      BY <2>1 DEF Base, CollectRequestHeaderMutations
    <3> HIDE DEF Base
    <3>4. Base.set \in [Keys -> Seq(OptionType)]
      BY <3>2, <3>3
    <3> QED
      BY <3>1, <3>3, <3>4 DEF MutationType
  <2>2. CASE side # "request"
    <3>1. ASSUME NEW k \in Keys PROVE Base.set[k] \in Seq(OptionType)
      <4>1. Base.set[k] = IF k \in Names /\ ctx.response_header[k] # original[k]
                            THEN ReplaceHeaderValues(ctx.response_header[k]) ELSE << >>
        BY <2>2 DEF Base, CollectResponseHeaderMutationsDiff
      <4>2. k \in Names => ctx.response_header[k] \in Seq(Legal)
        BY DEF TypedInv, TypeOK
      <4>3. k \in Names => ReplaceHeaderValues(ctx.response_header[k]) \in Seq(OptionType)
        BY <4>2, ReplacedTyped
      <4>4. << >> \in Seq(OptionType)
        OBVIOUS
      <4> QED
        BY <4>1, <4>3, <4>4
    <3>2. /\ Base = [set |-> Base.set, remove |-> Base.remove]
          /\ Base.set = [k \in Keys |-> Base.set[k]]
          /\ Base.remove \subseteq Names
      BY <2>2 DEF Base, CollectResponseHeaderMutationsDiff
    <3> HIDE DEF Base
    <3>3. Base.set \in [Keys -> Seq(OptionType)]
      BY <3>1, <3>2
    <3> QED
      BY <3>2, <3>3 DEF MutationType
  <2> QED
    BY <2>1, <2>2
<1>2. <<OverwriteOption(body.left)>> \in Seq(OptionType)
  <2>1. body.left \in Legal
    BY AdapterAssumption DEF TypedInv, Legal
  <2>2. OverwriteOption(body.left) \in OptionType
    BY <2>1, OptionTyped
  <2> QED
    BY <2>2
<1>3. Collected = IF Resized
                    THEN [Base EXCEPT !.set[ContentLength] = <<OverwriteOption(body.left)>>]
                    ELSE Base
  BY DEF Collected, WithContentLength, SetContentLength, Resized, Base
<1> HIDE DEF Base
<1> DEFINE options == <<OverwriteOption(body.left)>>
<1> HIDE DEF options
<1>4. [Base EXCEPT !.set[ContentLength] = options] \in MutationType
  BY <1>1, <1>2 DEF MutationType, options
<1> QED
  BY <1>1, <1>3, <1>4 DEF options

(* What a filter replies by itself.                                         *)
LEMMA ReplyTyped ==
    ASSUME NEW r \in Replies
    PROVE  ImmediateResponse(r) \in MutationType /\ ImmediateBody(r.body) \in Octets
<1>1. PICK n \in EditNames, s \in {<< >>} \cup {<<w>> : w \in EditValues \ Opaque},
           t \in Values2, v \in EditValues :
        r = [pairs |-> [NoReply.pairs EXCEPT ![n] = s],
             headers |-> [NoReply.headers EXCEPT ![n] = t], body |-> v]
  BY DEF Replies
<1>2. EditValues \subseteq Legal /\ n \in Names
  BY ExchangeAssumption
<1>3. s \in Seq(Legal) /\ t \in Seq(Legal)
  <2>1. << >> \in Seq(Legal) /\ \A x, y \in Legal : <<x>> \in Seq(Legal) /\ <<x, y>> \in Seq(Legal)
    OBVIOUS
  <2>2. s = << >> \/ \E x \in EditValues : s = <<x>>
    OBVIOUS
  <2>3. \/ t = << >>
        \/ \E x \in EditValues : t = <<x>>
        \/ \E x, y \in EditValues : t = <<x, y>>
    BY DEF Values2
  <2> QED
    BY <1>2, <2>1, <2>2, <2>3
<1>4. NoReply.pairs = [k \in Names |-> << >>] /\ NoReply.headers = [k \in Names |-> << >>]
  BY DEF NoReply, NoHeaders
<1>5. r.pairs \in [Names -> Seq(Legal)] /\ r.headers \in [Names -> Seq(Legal)]
  <2>1. << >> \in Seq(Legal)
    OBVIOUS
  <2> QED
    BY <1>1, <1>2, <1>3, <1>4, <2>1
<1>6. ASSUME NEW k \in Names
      PROVE  Map(OverwriteOption, r.pairs[k] \o r.headers[k]) \in Seq(OptionType)
  <2> DEFINE values == r.pairs[k] \o r.headers[k]
  <2>1. values \in Seq(Legal)
    BY <1>5
  <2> HIDE DEF values
  <2>2. Len(values) \in Nat /\ \A i \in 1 .. Len(values) : values[i] \in Legal
    BY <2>1
  <2>3. Map(OverwriteOption, values) \in [1 .. Len(values) -> OptionType]
    BY <2>2, OptionTyped DEF Map
  <2>4. Map(OverwriteOption, values) \in Seq(OptionType)
    BY <2>2, <2>3
  <2> QED
    BY <2>4 DEF values
<1>7. ImmediateResponse(r) \in MutationType
  <2> DEFINE options(k) == IF k = Path THEN << >>
                           ELSE Map(OverwriteOption, r.pairs[k] \o r.headers[k])
  <2>1. \A k \in Keys : options(k) \in Seq(OptionType)
    BY <1>6 DEF Keys
  <2>2. ImmediateResponse(r) = [set |-> [k \in Keys |-> options(k)], remove |-> {}]
    BY DEF ImmediateResponse
  <2> HIDE DEF options
  <2> QED
    BY <2>1, <2>2 DEF MutationType
<1>8. ImmediateBody(r.body) \in Octets
  <2>1. r.body \in Legal
    BY <1>1, <1>2
  <2> QED
    BY <2>1, AdapterAssumption DEF ImmediateBody, Octets, Legal
<1> QED
  BY <1>7, <1>8

(* Envoy finds the last option that overwrites, if there is one.            *)
LEMMA LastOverwriteTyped ==
    ASSUME NEW options \in Seq(OptionType)
    PROVE  LastOverwrite(options) \in 0 .. Len(options)
<1> DEFINE n == Len(options)
           after_(i) == \A j \in (i + 1) .. n : options[j].action = "append"
           T == {i \in 0 .. n : after_(i)}
<1>1. n \in Nat /\ \A i \in 1 .. n : options[i].action \in {"append", "overwrite"}
  <2>1. n \in Nat /\ \A i \in 1 .. n : options[i] \in OptionType
    OBVIOUS
  <2> QED
    BY <2>1 DEF OptionType
<1> HIDE DEF n
<1>2. T \subseteq Nat /\ n \in T
  BY <1>1
<1>3. PICK i \in T : \A j \in T : i <= j
  BY <1>2, Least
<1>4. i \in 0 .. n /\ after_(i)
  OBVIOUS
<1>5. ASSUME i > 0 PROVE options[i].action = "overwrite"
  <2>1. i - 1 \in 0 .. n /\ i \in 1 .. n /\ i - 1 \notin T
    BY <1>1, <1>3, <1>4, <1>5
  <2>2. PICK j \in i .. n : options[j].action # "append"
    BY <2>1
  <2>3. j = i
    BY <1>1, <1>4, <2>1, <2>2
  <2> QED
    BY <1>1, <2>1, <2>2, <2>3
<1>6. LastOverwrite(options) = i
  BY <1>1, <1>4, <1>5, LastOverwriteIs DEF n
<1> QED
  BY <1>4, <1>6 DEF n

(* A mutation of legal fields leaves legal values.                          *)
LEMMA AppliedTyped ==
    ASSUME NEW S, Octets \subseteq S, NEW values \in Seq(S), NEW mutation \in MutationType,
           NEW k \in Keys
    PROVE  EnvoyApplies(values, mutation, k) \in Seq(S)
<1> DEFINE options == mutation.set[k]
           last == LastOverwrite(options)
<1>1. options \in Seq(OptionType)
  BY DEF MutationType
<1> HIDE DEF options
<1>2. Len(options) \in Nat /\ last \in 0 .. Len(options)
  BY <1>1, LastOverwriteTyped
<1>3. \A j \in 1 .. Len(options) : FieldOctets(options[j].field) \in S
  <2>1. \A j \in 1 .. Len(options) : options[j] \in OptionType
    BY <1>1
  <2>2. \A j \in 1 .. Len(options) : options[j].field \in Field
    BY <2>1 DEF OptionType
  <2> QED
    BY <2>2, FieldTyped
<1> HIDE DEF last
<1>4. ASSUME NEW i \in 1 .. Len(options) + 1 PROVE ValuesFrom(options, i) \in Seq(S)
  <2> DEFINE m == Len(options) + 1 - i
             f == [j \in 1 .. m |-> FieldOctets(options[j + i - 1].field)]
  <2>1. m \in Nat
    BY <1>2
  <2>2. \A j \in 1 .. m : j + i - 1 \in 1 .. Len(options)
    BY <1>2
  <2>3. ValuesFrom(options, i) = f
    BY DEF ValuesFrom
  <2> HIDE DEF m
  <2>4. f \in [1 .. m -> S]
    BY <1>3, <2>2
  <2> HIDE DEF f
  <2> QED
    BY <2>1, <2>3, <2>4
<1>5. CASE last > 0
  <2>1. last \in 1 .. Len(options) + 1
    BY <1>2, <1>5
  <2>2. EnvoyApplies(values, mutation, k) = ValuesFrom(options, last)
    BY <1>5 DEF EnvoyApplies, last, options
  <2> QED
    BY <1>4, <2>1, <2>2
<1>6. CASE ~(last > 0)
  <2> DEFINE rest == IF k \in mutation.remove THEN << >> ELSE values
  <2>1. EnvoyApplies(values, mutation, k) = rest \o ValuesFrom(options, 1)
    BY <1>6 DEF EnvoyApplies, last, options
  <2>2. 1 \in 1 .. Len(options) + 1
    BY <1>2
  <2>3. rest \in Seq(S)
    OBVIOUS
  <2> HIDE DEF rest
  <2>4. ValuesFrom(options, 1) \in Seq(S)
    BY <1>4, <2>2
  <2> QED
    BY <2>1, <2>3, <2>4
<1> QED
  BY <1>5, <1>6

(* What Envoy holds before it applies anything.                             *)
LEMMA HeldOctets ==
    ASSUME held \in [Names -> Seq(Field)], NEW k \in Keys
    PROVE  HeldValues(k) \in Seq(Octets \cup {pseudo.path})
<1> DEFINE S == Octets \cup {pseudo.path}
<1>1. CASE k \in Names
  <2>1. held[k] \in Seq(Field) /\ Len(held[k]) \in Nat
    BY <1>1
  <2>2. \A i \in 1 .. Len(held[k]) : FieldOctets(held[k][i]) \in S
    BY <2>1, FieldTyped
  <2>3. HeldValues(k) = [i \in 1 .. Len(held[k]) |-> FieldOctets(held[k][i])]
    BY <1>1 DEF HeldValues, Map
  <2> HIDE DEF S
  <2>4. HeldValues(k) \in [1 .. Len(held[k]) -> S]
    BY <2>2, <2>3
  <2>5. HeldValues(k) \in Seq(S)
    BY <2>1, <2>4
  <2> QED
    BY <2>5 DEF S
<1>2. CASE k \notin Names
  <2>1. << >> \in Seq(S) /\ <<pseudo.path>> \in Seq(S)
    OBVIOUS
  <2> QED
    BY <1>2, <2>1 DEF HeldValues
<1> QED
  BY <1>1, <1>2

(* Before anything is sent.                                                 *)
LEMMA TypedInitially == Init => TypedInv
<1> SUFFICES ASSUME Init PROVE TypedInv
  OBVIOUS
<1>1. PICK m \in Messages : held = m.held /\ body = [sent |-> m.len, left |-> m.len]
  BY DEF Init
<1>2. held \in [Names -> Seq(Field)] /\ body.left \in Lengths
  BY <1>1, ExchangeAssumption
<1>3. [n \in Names |-> << >>] \in [Names -> Seq(Legal)]
  OBVIOUS
<1>4. Fresh(ctx, NoHeaders) /\ original = NoHeaders
  BY FreshContext DEF Init
<1>5. /\ ctx.response_header \in [Names -> Seq(Legal)] /\ original \in [Names -> Seq(Legal)]
      /\ ctx.rewritten_path \in {None, "/"}
  BY <1>3, <1>4 DEF Fresh, NoHeaders
<1>6. answer \in AnswerType
  <2>1. NoOptions \in [Keys -> Seq(OptionType)]
    BY DEF NoOptions
  <2>2. Empty \in Octets
    BY AdapterAssumption DEF Octets, Legal
  <2> QED
    BY <2>1, <2>2 DEF Init, NoAnswer, NoMutation, AnswerType, OptionType
<1>7. after \in [Keys -> Seq(Octets \cup {pseudo.path})]
  BY DEF Init, NoOptions
<1>8. stage = "sent"
  BY DEF Init
<1> QED
  BY <1>2, <1>5, <1>6, <1>7, <1>8 DEF TypedInv, TypeOK

(* An edit of the context leaves the rest typed.                            *)
LEMMA EditTyped ==
    ASSUME TypedInv, NEW c, Edit(c), c.response_header \in [Names -> Seq(Legal)],
           c.rewritten_path \in {None, "/"}
    PROVE  TypedInv'
<1>1. UNCHANGED <<pseudo, held, stage, original, body, answer, after>> /\ ctx' = c
  BY DEF Edit
<1> QED
  BY <1>1 DEF TypedInv, TypeOK

(* Every step keeps the types.                                              *)
LEMMA TypedStep == ExchangeInv /\ TypedInv /\ [Next]_vars => TypedInv'
<1> SUFFICES ASSUME ExchangeInv, TypedInv, [Next]_vars PROVE TypedInv'
  OBVIOUS
<1>1. /\ ctx = [client_addr |-> ctx.client_addr,
                extra_request_headers |-> ctx.extra_request_headers,
                request_headers_to_set |-> ctx.request_headers_to_set,
                request_headers_to_remove |-> ctx.request_headers_to_remove,
                rewritten_path |-> ctx.rewritten_path,
                response_header |-> ctx.response_header]
      /\ ctx.response_header \in [Names -> Seq(Legal)] /\ ctx.rewritten_path \in {None, "/"}
  BY DEF ExchangeInv, ContextTyped, TypedInv, TypeOK
<1>2. CASE Convert
  <2>1. /\ UNCHANGED <<pseudo, held, body, answer, after>> /\ stage' = "filters"
        /\ original' = EnvoyHeadersToResponse(pseudo, held).headers
        /\ ctx' = BuildFilterContext(request'.headers, original', trust)
    BY <1>2 DEF Convert
  <2>2. original' = [n \in Names |-> AppendHeader(n, held[n])]
    BY <2>1 DEF EnvoyHeadersToResponse, HeaderMap
  <2>3. \A n \in Names : AppendHeader(n, held[n]) \in Seq(Legal)
    BY AppendedLegal DEF TypedInv, TypeOK
  <2>4. original' \in [Names -> Seq(Legal)]
    BY <2>2, <2>3
  <2>5. ctx'.response_header = original' /\ ctx'.rewritten_path = None
    BY <2>1 DEF BuildFilterContext
  <2> QED
    BY <2>1, <2>4, <2>5 DEF TypedInv, TypeOK
<1>3. CASE \E n \in EditNames, v \in EditValues : FilterAppends(n, v) \/ FilterSets(n, v)
  <2>1. PICK n \in EditNames, v \in EditValues : FilterAppends(n, v) \/ FilterSets(n, v)
    BY <1>3
  <2> DEFINE c == [ctx EXCEPT !.extra_request_headers[n] = Append(@, v)]
             d == [ctx EXCEPT !.request_headers_to_set[n] = Append(@, v)]
  <2>2. /\ c.response_header = ctx.response_header /\ c.rewritten_path = ctx.rewritten_path
        /\ d.response_header = ctx.response_header /\ d.rewritten_path = ctx.rewritten_path
    BY <1>1
  <2>3. Edit(c) \/ Edit(d)
    BY <2>1 DEF FilterAppends, FilterSets
  <2> HIDE DEF c, d
  <2> QED
    BY <1>1, <2>2, <2>3, EditTyped
<1>4. CASE (\E n \in EditNames : FilterRemoves(n)) \/ FilterRewritesPath
  <2>1. PICK n : FilterRemoves(n) \/ FilterRewritesPath
    BY <1>4
  <2> DEFINE c == [ctx EXCEPT !.request_headers_to_remove = @ \cup {n}]
             d == [ctx EXCEPT !.rewritten_path = "/"]
  <2>2. /\ c.response_header = ctx.response_header /\ c.rewritten_path = ctx.rewritten_path
        /\ d.response_header = ctx.response_header /\ d.rewritten_path = "/"
    BY <1>1
  <2>3. Edit(c) \/ Edit(d)
    BY <2>1 DEF FilterRemoves, FilterRewritesPath
  <2> HIDE DEF c, d
  <2> QED
    BY <1>1, <2>2, <2>3, EditTyped
<1>5. CASE \E n \in EditNames, values \in Values2 : FilterEditsResponse(n, values)
  <2>1. PICK n \in EditNames, values \in Values2 : FilterEditsResponse(n, values)
    BY <1>5
  <2>2. EditValues \subseteq Legal /\ n \in Names
    BY ExchangeAssumption
  <2>3. values \in Seq(Legal)
    <3>1. /\ << >> \in Seq(Legal)
          /\ \A x, y \in Legal : <<x>> \in Seq(Legal) /\ <<x, y>> \in Seq(Legal)
      OBVIOUS
    <3>2. \/ values = << >>
          \/ \E x \in EditValues : values = <<x>>
          \/ \E x, y \in EditValues : values = <<x, y>>
      BY DEF Values2
    <3> QED
      BY <2>2, <3>1, <3>2
  <2> DEFINE c == [ctx EXCEPT !.response_header[n] = values]
  <2>4. /\ c.response_header = [ctx.response_header EXCEPT ![n] = values]
        /\ c.rewritten_path = ctx.rewritten_path
    BY <1>1
  <2>5. Edit(c)
    BY <2>1 DEF FilterEditsResponse
  <2> HIDE DEF c
  <2>6. c.response_header \in [Names -> Seq(Legal)]
    BY <1>1, <2>2, <2>3, <2>4
  <2> QED
    BY <1>1, <2>4, <2>5, <2>6, EditTyped
<1>6. CASE \E len \in Lengths : FilterResizesBody(len)
  <2>1. PICK len \in Lengths : FilterResizesBody(len)
    BY <1>6
  <2>2. /\ UNCHANGED <<pseudo, held, stage, ctx, original, answer, after>>
        /\ body' = [body EXCEPT !.left = len]
    BY <2>1 DEF FilterResizesBody
  <2>3. body'.left = len
    BY <2>2 DEF ExchangeInv
  <2> QED
    BY <2>2, <2>3 DEF TypedInv, TypeOK
<1>7. CASE Collect
  <2>1. /\ UNCHANGED <<pseudo, held, ctx, original, body, after>> /\ stage' = "answered"
        /\ answer' = [mutation |-> Collected,
                      clear_route_cache |-> side = "request" /\ MutationAffectsRouting(Collected),
                      body |-> Empty]
    BY <1>7 DEF Collect
  <2>2. Collected \in MutationType /\ Empty \in Octets
    BY CollectedTyped, AdapterAssumption DEF Octets, Legal
  <2>3. (side = "request" /\ MutationAffectsRouting(Collected)) \in BOOLEAN
    OBVIOUS
  <2>4. answer' \in AnswerType
    BY <2>1, <2>2, <2>3 DEF AnswerType, MutationType, OptionType
  <2> QED
    BY <2>1, <2>4 DEF TypedInv, TypeOK
<1>8. CASE \E r \in Replies : FilterReplies(r)
  <2>1. PICK r \in Replies : FilterReplies(r)
    BY <1>8
  <2>2. /\ UNCHANGED <<pseudo, held, original, body, after>> /\ stage' = "replied"
        /\ answer' = [mutation |-> ImmediateResponse(r), clear_route_cache |-> FALSE,
                      body |-> ImmediateBody(r.body)]
        /\ ctx' = BuildFilterContext(request.headers, original, trust)
    BY <2>1 DEF FilterReplies
  <2>3. answer' \in AnswerType
    BY <2>2, ReplyTyped DEF AnswerType, MutationType, OptionType
  <2>4. ctx'.response_header = original /\ ctx'.rewritten_path = None
    BY <2>2 DEF BuildFilterContext
  <2> QED
    BY <2>2, <2>3, <2>4 DEF TypedInv, TypeOK
<1>9. CASE Apply
  <2> DEFINE S == Octets \cup {pseudo.path}
             values(k) == IF stage = "answered" THEN HeldValues(k) ELSE << >>
  <2>1. /\ UNCHANGED <<pseudo, held, ctx, original, body, answer>>
        /\ stage' \in {"forwarded", "delivered"}
        /\ after' = [k \in Keys |-> EnvoyApplies(values(k), answer.mutation, k)]
    BY <1>9 DEF Apply
  <2>2. answer.mutation \in MutationType /\ held \in [Names -> Seq(Field)]
    BY DEF TypedInv, TypeOK, AnswerType, MutationType, OptionType
  <2>3. \A k \in Keys : HeldValues(k) \in Seq(S)
    BY <2>2, HeldOctets
  <2>4. Octets \subseteq S /\ << >> \in Seq(S)
    OBVIOUS
  <2> HIDE DEF S
  <2>5. \A k \in Keys : values(k) \in Seq(S)
    BY <2>3, <2>4
  <2> HIDE DEF values
  <2>6. \A k \in Keys : EnvoyApplies(values(k), answer.mutation, k) \in Seq(S)
    BY <2>2, <2>4, <2>5, AppliedTyped
  <2>7. after' \in [Keys -> Seq(S)]
    BY <2>1, <2>6
  <2>8. after' \in [Keys -> Seq(Octets \cup {pseudo'.path})]
    BY <2>1, <2>7 DEF S
  <2> QED
    BY <2>1, <2>8 DEF TypedInv, TypeOK
<1>10. CASE UNCHANGED vars
  <2>1. UNCHANGED <<pseudo, held, stage, ctx, original, body, answer, after>>
    BY <1>10 DEF vars
  <2> QED
    BY <2>1 DEF TypedInv, TypeOK
<1> QED
  BY <1>2, <1>3, <1>4, <1>5, <1>6, <1>7, <1>8, <1>9, <1>10 DEF Next

(* Type correctness: no option puts bytes that are not UTF-8 into a protobuf *)
(* string, whatever filters wrote (header_option).                          *)
THEOREM FieldsTyped == Spec => []TypeOK
<1>1. TypedInv => TypeOK
  BY DEF TypedInv
<1> QED
  BY <1>1, TypedInitially, AnswerApplied, TypedStep, PTL DEF Spec
=============================================================================
