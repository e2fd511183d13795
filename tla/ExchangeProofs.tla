--------------------------- MODULE ExchangeProofs ---------------------------
(***************************************************************************)
(* What the peer of a stream receives: the responses of all the paths keep  *)
(* the order of the phases and carry what header filters asked for, so that *)
(* the stream implements the exchange of module Exchange.  For every chain, *)
(* configuration, body length and limit.                                    *)
(***************************************************************************)
EXTENDS ObservedProofs

-----------------------------------------------------------------------------
(* Responses in order.                                                      *)

\* The stage before the i-th response and after the last one.
Before(o, from, i) == IF i = 1 THEN from ELSE StageOf(o[i - 1])
After(o, from) == IF o = <<>> THEN from ELSE StageOf(o[Len(o)])

\* All responses are of one direction, follow each other from stage `from`, and
\* go no further than stage `to`.
Orderly(o, side, from, to) ==
  \A i \in DOMAIN o :
    /\ o[i].side = side
    /\ ~IsImmediate(o[i])
    /\ Follows(Before(o, from, i), StageOf(o[i]))
    /\ StageOf(o[i]) \in Peer!UpTo(from, to)

\* What the header filters asked for is among the responses.
Carries(o) == \E i \in DOMAIN o : "filter" \in o[i].mutation

\* What the direction has received after responses in order.
Received(w, o) ==
  [stage |-> After(o, w.stage), disordered |-> w.disordered, mutated |-> w.mutated \/ Carries(o)]

\* The stages of the exchange are those of the wire, in this order.
LEMMA RankOf ==
  /\ Peer!Stages = WireStages
  /\ Peer!Rank["none"] = 0
  /\ Peer!Rank["headers"] = 1
  /\ Peer!Rank["body"] = 2
  /\ Peer!Rank["final"] = 3
  /\ Peer!Rank["trailers"] = 4
BY DEF Peer!Rank, Peer!Stages, WireStages

\* A stage between two stages.
LEMMA UpToOrder ==
  ASSUME NEW a \in WireStages, NEW b \in WireStages, NEW to \in WireStages
  PROVE  /\ a \in Peer!UpTo(b, to) <=> Peer!Rank[b] <= Peer!Rank[a] /\ Peer!Rank[a] <= Peer!Rank[to]
         /\ Peer!Rank[a] \in 0..4
BY RankOf DEF Peer!UpTo, WireStages

\* A response that is not immediate is at a stage.
LEMMA StageType ==
  ASSUME NEW x \in ResponseType, ~IsImmediate(x)
  PROVE  StageOf(x) \in WireStages \ {"none"}
BY DEF ResponseType, IsImmediate, StageOf, WireStages

\* Nothing is in order,
LEMMA OrderlyNothing ==
  ASSUME NEW side, NEW from, NEW to
  PROVE  /\ Orderly(<<>>, side, from, to)
         /\ After(<<>>, from) = from
         /\ ~Carries(<<>>)
BY DEF Orderly, After, Carries

\* a headers response is where nothing was sent before it,
LEMMA OrderlyHeaders ==
  ASSUME NEW side \in Sides, NEW mutation \in Mutations, NEW to \in WireStages \ {"none"}
  PROVE  LET o == <<HeadersResponse(side, mutation)>>
         IN /\ o \in Seq(ResponseType)
            /\ Orderly(o, side, "none", to)
            /\ After(o, "none") = "headers"
            /\ "filter" \in mutation => Carries(o)
<1> DEFINE x == HeadersResponse(side, mutation)
           o == <<x>>
<1>1. /\ x.side = side /\ x.kind = "headers" /\ x.mutation = mutation
      /\ StageOf(x) = "headers"
  BY DEF HeadersResponse, Plain, StageOf
<1>2. o \in Seq(ResponseType)
  BY HeadersOut
<1> HIDE DEF x
<1>3. DOMAIN o = {1} /\ o[1] = x /\ Len(o) = 1 /\ o # <<>>
  OBVIOUS
<1>4. "headers" \in Peer!UpTo("none", to)
  BY RankOf DEF Peer!UpTo, WireStages
<1>5. Orderly(o, side, "none", to)
  BY <1>1, <1>3, <1>4 DEF Orderly, Before, Follows, IsImmediate
<1> QED
  BY <1>1, <1>2, <1>3, <1>5 DEF After, Carries, x

\* and a trailers response is after anything else.
LEMMA OrderlyTrailers ==
  ASSUME NEW side \in Sides, NEW from \in {"headers", "body", "final"}
  PROVE  LET o == <<TrailersResponse(side)>>
         IN /\ o \in Seq(ResponseType)
            /\ Orderly(o, side, from, "trailers")
            /\ After(o, from) = "trailers"
<1> DEFINE x == TrailersResponse(side)
           o == <<x>>
<1>1. x.side = side /\ x.kind = "trailers" /\ StageOf(x) = "trailers"
  BY DEF TrailersResponse, Plain, StageOf
<1>2. x \in ResponseType
  BY PlainType DEF TrailersResponse, Mutations
<1> HIDE DEF x
<1>3. DOMAIN o = {1} /\ o[1] = x /\ Len(o) = 1 /\ o # <<>> /\ o \in Seq(ResponseType)
  BY <1>2
<1>4. "trailers" \in Peer!UpTo(from, "trailers")
  BY RankOf DEF Peer!UpTo, WireStages
<1>5. Orderly(o, side, from, "trailers")
  BY <1>1, <1>3, <1>4 DEF Orderly, Before, Follows, IsImmediate
<1> QED
  BY <1>1, <1>3, <1>5 DEF After, x

\* The stage of a body whose last piece ends the stream, or does not.
BodyStage(mode, eos) == IF mode = "fds" /\ eos THEN "final" ELSE "body"

\* The pieces of a body are in order after the headers or earlier pieces: only the
\* last one may be final.
LEMMA OrderlyBody ==
  ASSUME NEW side \in Sides, NEW some \in BOOLEAN, NEW len \in Nat, NEW held \in Nat,
         NEW mutation \in Mutations, NEW mode \in BodyModes, NEW eos \in BOOLEAN,
         NEW from \in {"headers", "body"}, NEW to \in WireStages,
         BodyStage(mode, eos) \in Peer!UpTo(from, to)
  PROVE  LET o == BodyResponses(side, some, len, held, mutation, mode, eos)
         IN /\ o \in Seq(ResponseType)
            /\ Orderly(o, side, from, to)
            /\ After(o, from) = BodyStage(mode, eos)
            /\ "filter" \in mutation => Carries(o)
<1> DEFINE o == BodyResponses(side, some, len, held, mutation, mode, eos)
<1>1. o \in Seq(ResponseType) /\ Len(o) > 0
  BY BodyResponsesType
<1>2. \A i \in DOMAIN o :
        /\ o[i].kind = "body"
        /\ o[i].side = side
        /\ o[i].eos <=> mode = "fds" /\ eos /\ i = Len(o)
        /\ i = 1 => o[i].mutation = mutation
  <2>1. CASE mode = "fds"
    <3> DEFINE n == IF some THEN len ELSE 0
               k == Pieces(n)
    <3>1. n \in Nat /\ k \in Nat
      BY PieceLenType, ChunkLimitAssumption DEF Pieces
    <3>2. o = [i \in 1..k |-> StreamedResponse(side, PieceLen(n, i),
                                IF i = 1 THEN mutation ELSE {}, eos /\ i = k)]
      BY <2>1 DEF BodyResponses, BodyResponsesStreamed
    <3> HIDE DEF k, n
    <3>3. DOMAIN o = 1..k /\ Len(o) = k
      BY <1>1, <3>1, <3>2
    <3> SUFFICES ASSUME NEW i \in 1..k
                 PROVE  /\ o[i].kind = "body"
                        /\ o[i].side = side
                        /\ o[i].eos <=> eos /\ i = k
                        /\ i = 1 => o[i].mutation = mutation
      BY <2>1, <3>3
    <3> DEFINE e == eos /\ i = k
               u == IF i = 1 THEN mutation ELSE {}
               x == StreamedResponse(side, PieceLen(n, i), u, e)
    <3>4. o[i] = x
      BY <3>2
    <3>5. e \in BOOLEAN /\ (e <=> eos /\ i = k) /\ (i = 1 => u = mutation)
      OBVIOUS
    <3> HIDE DEF e, u
    <3>6. x.kind = "body" /\ x.side = side /\ x.eos = e /\ x.mutation = u
      BY DEF StreamedResponse, Plain
    <3> HIDE DEF x
    <3> QED
      BY <3>4, <3>5, <3>6
  <2>2. CASE mode # "fds"
    <3> DEFINE x == [Plain("body", side, mutation) EXCEPT
                       !.content = IF some THEN "replace" ELSE "keep",
                       !.len = IF some THEN len ELSE held]
    <3>1. o = <<x>>
      BY <2>2 DEF BodyResponses
    <3>2. x.kind = "body" /\ x.side = side /\ x.eos = FALSE /\ x.mutation = mutation
      BY DEF Plain
    <3> HIDE DEF x
    <3> QED
      BY <2>2, <3>1, <3>2
  <2> QED
    BY <2>1, <2>2
<1> HIDE DEF o
<1>3. /\ DOMAIN o = 1..Len(o) /\ Len(o) \in Nat /\ o # <<>>
      /\ \A i \in DOMAIN o : o[i].eos \in BOOLEAN
  <2>1. \A i \in DOMAIN o : o[i] \in ResponseType
    BY <1>1
  <2>2. \A i \in DOMAIN o : o[i].eos \in BOOLEAN
    BY <2>1 DEF ResponseType
  <2> QED
    BY <1>1, <2>2
<1>4. \A i \in DOMAIN o : /\ i < Len(o) => StageOf(o[i]) = "body"
                          /\ i = Len(o) => StageOf(o[i]) = BodyStage(mode, eos)
  BY <1>2, <1>3 DEF StageOf, BodyStage
<1>5. BodyStage(mode, eos) \in {"body", "final"} /\ "body" \in Peer!UpTo(from, to)
  BY RankOf DEF BodyStage, Peer!UpTo, WireStages
<1>6. \A i \in DOMAIN o : Follows(Before(o, from, i), StageOf(o[i]))
  <2> SUFFICES ASSUME NEW i \in DOMAIN o PROVE Follows(Before(o, from, i), StageOf(o[i]))
    OBVIOUS
  <2>1. StageOf(o[i]) \in {"body", "final"}
    BY <1>3, <1>4, <1>5
  <2>2. Before(o, from, i) \in {"headers", "body"}
    <3>1. CASE i = 1
      BY <3>1 DEF Before
    <3>2. CASE i # 1
      <4>1. i - 1 \in DOMAIN o /\ i - 1 < Len(o)
        BY <1>3, <3>2
      <4> QED
        BY <1>4, <3>2, <4>1 DEF Before
    <3> QED
      BY <3>1, <3>2
  <2> QED
    BY <2>1, <2>2 DEF Follows
<1>7. Orderly(o, side, from, to)
  BY <1>2, <1>3, <1>4, <1>5, <1>6 DEF Orderly, IsImmediate
<1>8. Len(o) \in DOMAIN o /\ 1 \in DOMAIN o
  BY <1>1, <1>3
<1>9. After(o, from) = BodyStage(mode, eos)
  BY <1>3, <1>4, <1>8 DEF After
<1>10. "filter" \in mutation => Carries(o)
  BY <1>2, <1>8 DEF Carries
<1> QED
  BY <1>1, <1>7, <1>9, <1>10 DEF o

\* Where responses in order lead.
LEMMA AfterType ==
  ASSUME NEW o \in Seq(ResponseType), NEW side, NEW from \in WireStages, NEW to \in WireStages,
         Orderly(o, side, from, to)
  PROVE  /\ After(o, from) \in WireStages
         /\ o = <<>> => After(o, from) = from
         /\ o # <<>> => After(o, from) \in Peer!UpTo(from, to)
<1>1. CASE o = <<>>
  BY <1>1 DEF After
<1>2. CASE o # <<>>
  <2>1. Len(o) \in DOMAIN o
    BY <1>2
  <2>2. o[Len(o)] \in ResponseType
    BY <2>1
  <2> QED
    BY <1>2, <2>1, <2>2, StageType DEF Orderly, After
<1> QED
  BY <1>1, <1>2

\* Two answers in order, one after the other, are in order.
LEMMA OrderlyBoth ==
  ASSUME NEW p \in Seq(ResponseType), NEW q \in Seq(ResponseType), NEW side,
         NEW from \in WireStages, NEW to \in WireStages,
         Orderly(p, side, from, to), Orderly(q, side, After(p, from), to)
  PROVE  /\ p \o q \in Seq(ResponseType)
         /\ Orderly(p \o q, side, from, to)
         /\ After(p \o q, from) = After(q, After(p, from))
         /\ Carries(p) \/ Carries(q) => Carries(p \o q)
<1> DEFINE o == p \o q
           mid == After(p, from)
<1>1. /\ o \in Seq(ResponseType)
      /\ Len(o) = Len(p) + Len(q)
      /\ Len(p) \in Nat /\ Len(q) \in Nat
      /\ DOMAIN p = 1..Len(p) /\ DOMAIN q = 1..Len(q) /\ DOMAIN o = 1..Len(o)
      /\ \A i \in DOMAIN p : o[i] = p[i]
      /\ \A i \in DOMAIN q : o[Len(p) + i] = q[i]
      /\ p = <<>> <=> Len(p) = 0
      /\ q = <<>> <=> Len(q) = 0
      /\ o = <<>> <=> Len(o) = 0
  OBVIOUS
<1>2. mid \in WireStages /\ (p # <<>> => mid \in Peer!UpTo(from, to)) /\ (p = <<>> => mid = from)
  BY AfterType
<1> HIDE DEF o
<1>3. p # <<>> => mid = StageOf(o[Len(p)])
  BY <1>1 DEF After
<1> HIDE DEF mid
<1>4. \A i \in DOMAIN o : \/ i \in DOMAIN p
                          \/ i - Len(p) \in DOMAIN q /\ i = Len(p) + (i - Len(p))
  BY <1>1
<1>5. Orderly(o, side, from, to)
  <2> DEFINE Fine(i) == /\ o[i].side = side
                        /\ ~IsImmediate(o[i])
                        /\ Follows(Before(o, from, i), StageOf(o[i]))
                        /\ StageOf(o[i]) \in Peer!UpTo(from, to)
  <2> SUFFICES ASSUME NEW i \in DOMAIN o PROVE Fine(i)
    BY DEF Orderly
  <2>1. CASE i \in DOMAIN p
    <3>1. Before(o, from, i) = Before(p, from, i)
      BY <1>1, <2>1 DEF Before
    <3> QED
      BY <1>1, <2>1, <3>1 DEF Orderly
  <2>2. CASE i \notin DOMAIN p
    <3> DEFINE j == i - Len(p)
    <3>1. j \in DOMAIN q /\ o[i] = q[j]
      BY <1>1, <1>4, <2>2
    <3>2. /\ q[j].side = side
          /\ ~IsImmediate(q[j])
          /\ Follows(Before(q, mid, j), StageOf(q[j]))
          /\ StageOf(q[j]) \in Peer!UpTo(mid, to)
      BY <3>1 DEF Orderly, mid
    <3>3. Before(o, from, i) = Before(q, mid, j)
      <4>1. CASE j = 1 /\ p = <<>>
        BY <1>1, <1>2, <4>1 DEF Before
      <4>2. CASE j = 1 /\ p # <<>>
        BY <1>1, <1>3, <4>2 DEF Before
      <4>3. CASE j # 1
        <5>1. j - 1 \in DOMAIN q /\ i - 1 = Len(p) + (j - 1) /\ i # 1
          BY <1>1, <3>1, <4>3
        <5>2. o[i - 1] = q[j - 1]
          BY <1>1, <5>1
        <5> QED
          BY <4>3, <5>1, <5>2 DEF Before
      <4> QED
        BY <4>1, <4>2, <4>3
    <3>4. StageOf(q[j]) \in Peer!UpTo(from, to)
      <4>1. q[j] \in ResponseType
        BY <3>1
      <4>2. StageOf(q[j]) \in WireStages
        BY <3>2, <4>1, StageType
      <4> QED
        BY <1>2, <3>2, <4>2, UpToOrder
    <3> QED
      BY <3>1, <3>2, <3>3, <3>4
  <2> QED
    BY <2>1, <2>2
<1>6. After(o, from) = After(q, mid)
  <2>1. CASE q = <<>>
    BY <1>1, <1>2, <1>3, <2>1 DEF After
  <2>2. CASE q # <<>>
    <3>1. Len(q) \in DOMAIN q /\ o # <<>> /\ Len(o) = Len(p) + Len(q)
      BY <1>1, <2>2
    <3> QED
      BY <1>1, <2>2, <3>1 DEF After
  <2> QED
    BY <2>1, <2>2
<1>7. Carries(p) \/ Carries(q) => Carries(o)
  <2>1. Carries(p) => Carries(o)
    BY <1>1 DEF Carries
  <2>2. Carries(q) => Carries(o)
    <3> SUFFICES ASSUME NEW i \in DOMAIN q, "filter" \in q[i].mutation PROVE Carries(o)
      BY DEF Carries
    <3>1. Len(p) + i \in DOMAIN o
      BY <1>1
    <3> QED
      BY <1>1, <3>1 DEF Carries
  <2> QED
    BY <2>1, <2>2
<1> QED
  BY <1>1, <1>5, <1>6, <1>7 DEF o, mid

\* So is what was sent of an answer when the peer stopped receiving.
LEMMA OrderlyPrefix ==
  ASSUME NEW o \in Seq(ResponseType), NEW side, NEW from, NEW to, Orderly(o, side, from, to),
         NEW n \in 0..Len(o)
  PROVE  LET p == SubSeq(o, 1, n)
         IN p \in Seq(ResponseType) /\ Orderly(p, side, from, to)
<1> DEFINE p == SubSeq(o, 1, n)
<1>1. /\ p \in Seq(ResponseType) /\ Len(p) = n
      /\ DOMAIN p = 1..n /\ DOMAIN p \subseteq DOMAIN o
      /\ \A i \in DOMAIN p : p[i] = o[i]
  OBVIOUS
<1> HIDE DEF p
<1>2. \A i \in DOMAIN p : Before(p, from, i) = Before(o, from, i)
  BY <1>1 DEF Before
<1>3. Orderly(p, side, from, to)
  BY <1>1, <1>2 DEF Orderly
<1> QED
  BY <1>1, <1>3 DEF p

\* The positions up to the one before i, of which i - 1 is the last.
LEMMA LastBefore ==
  ASSUME NEW n \in Nat, NEW i \in 1..n
  PROVE  LET S == {j \in 1..n : j < i}
         IN (S = {} <=> i = 1) /\ (S # {} => Max(S) = i - 1)
<1> DEFINE S == {j \in 1..n : j < i}
<1>1. S = {} <=> i = 1
  BY 1 \in 1..n
<1>2. ASSUME S # {} PROVE Max(S) = i - 1
  <2>1. i - 1 \in S /\ \A y \in S : i - 1 >= y
    BY <1>1, <1>2
  <2>2. \A x \in S : (\A y \in S : x >= y) => x = i - 1
    BY <2>1
  <2> HIDE DEF S
  <2>3. Max(S) \in S /\ \A y \in S : Max(S) >= y
    BY <2>1 DEF Max
  <2> QED
    BY <2>2, <2>3
<1> QED
  BY <1>1, <1>2

\* Responses in order leave a direction that was in order so, and the other one
\* alone.
LEMMA SeeOrderly ==
  ASSUME NEW w \in WireType, NEW o \in Seq(ResponseType), NEW side \in Sides, NEW to,
         Orderly(o, side, w.stage, to), NEW d \in Sides
  PROVE  /\ d = side => See(w, o, d) = Received(w, o)
         /\ d # side => See(w, o, d) = w
<1> DEFINE mine == {i \in DOMAIN o : ~IsImmediate(o[i]) /\ o[i].side = d}
           stage(seen) == IF seen = {} THEN w.stage ELSE StageOf(o[Max(seen)])
           late == \E i \in mine : ~Follows(stage({j \in mine : j < i}), StageOf(o[i]))
           bears == \E i \in mine : "filter" \in o[i].mutation
<1>1. See(w, o, d) = [stage |-> stage(mine), disordered |-> w.disordered \/ late,
                      mutated |-> w.mutated \/ bears]
  BY DEF See
<1>2. w.disordered \in BOOLEAN /\ w.mutated \in BOOLEAN
      /\ w = [stage |-> w.stage, disordered |-> w.disordered, mutated |-> w.mutated]
  BY DEF WireType
<1>3. CASE d # side
  <2>1. mine = {}
    BY <1>3 DEF Orderly
  <2>2. ~late /\ ~bears /\ stage(mine) = w.stage
    BY <2>1
  <2> HIDE DEF late, bears, stage, mine
  <2>3. (w.disordered \/ late) = w.disordered /\ (w.mutated \/ bears) = w.mutated
    BY <1>2, <2>2
  <2> QED
    BY <1>1, <1>2, <1>3, <2>2, <2>3
<1>4. CASE d = side
  <2> DEFINE n == Len(o)
  <2>1. mine = 1..n /\ n \in Nat /\ DOMAIN o = 1..n
    BY <1>4 DEF Orderly
  <2>2. \A i \in 1..n : stage({j \in 1..n : j < i}) = Before(o, w.stage, i)
    BY <2>1, LastBefore DEF Before
  <2>3. ~late
    BY <2>1, <2>2 DEF Orderly
  <2>4. stage(mine) = After(o, w.stage)
    <3>1. CASE n = 0
      BY <2>1, <3>1 DEF After
    <3>2. CASE n # 0
      <4> DEFINE k == n + 1
                 S == {j \in 1..k : j < k}
      <4>1. k \in Nat /\ k \in 1..k /\ k # 1 /\ k - 1 = n
        BY <2>1, <3>2
      <4>2. S = mine
        BY <2>1
      <4> HIDE DEF k
      <4>3. (S = {} <=> k = 1) /\ (S # {} => Max(S) = k - 1)
        BY <4>1, LastBefore
      <4> HIDE DEF S, mine
      <4>4. mine # {} /\ Max(mine) = n
        BY <4>1, <4>2, <4>3
      <4> QED
        BY <2>1, <3>2, <4>4 DEF After
    <3> QED
      BY <3>1, <3>2
  <2>5. bears <=> Carries(o)
    BY <2>1 DEF Carries
  <2> HIDE DEF late, bears, stage, mine
  <2>6. (w.disordered \/ late) = w.disordered
    BY <1>2, <2>3
  <2>7. (w.mutated \/ bears) = (w.mutated \/ Carries(o))
    BY <2>5
  <2> QED
    BY <1>1, <1>4, <2>4, <2>6, <2>7 DEF Received
<1> QED
  BY <1>3, <1>4

\* An immediate response, or none at all, moves nothing.
LEMMA SeeSilent ==
  ASSUME NEW w \in WireType, NEW o, o = <<>> \/ o = <<Immediate>>, NEW d \in Sides
  PROVE  See(w, o, d) = w
<1> DEFINE mine == {i \in DOMAIN o : ~IsImmediate(o[i]) /\ o[i].side = d}
<1>1. mine = {}
  BY DEF IsImmediate, Immediate, Plain
<1>2. See(w, o, d) = [stage |-> w.stage, disordered |-> w.disordered \/ FALSE,
                      mutated |-> w.mutated \/ FALSE]
  BY <1>1 DEF See
<1>3. w.disordered \in BOOLEAN /\ w.mutated \in BOOLEAN
      /\ w = [stage |-> w.stage, disordered |-> w.disordered, mutated |-> w.mutated]
  BY DEF WireType
<1>4. (w.disordered \/ FALSE) = w.disordered /\ (w.mutated \/ FALSE) = w.mutated
  BY <1>3
<1> QED
  BY <1>2, <1>3, <1>4

\* Responses in order do not end the exchange.
LEMMA OrderlyGoesOn ==
  ASSUME NEW o, NEW side, NEW from, NEW to, Orderly(o, side, from, to)
  PROVE  ~HasImmediate(o)
BY DEF Orderly, HasImmediate

\* The stage that the answer to a phase leads to, and the one it starts from.
BuiltStage(phase, mode, eos) == IF phase = Headers THEN "headers" ELSE BodyStage(mode, eos)

StartsAt(phase, mode, from) ==
  IF phase = Headers \/ mode = "fds" THEN from = "none" ELSE from \in {"headers", "body"}

\* build_request_for_phase and build_response_for_phase keep the order, and send
\* the header mutation.
LEMMA OrderlyBuild ==
  ASSUME NEW side \in Sides, NEW phase \in Steps, NEW mutation \in Mutations,
         NEW len \in Nat, NEW mode \in BodyModes, NEW eos \in BOOLEAN,
         NEW from \in WireStages, NEW to \in WireStages, StartsAt(phase, mode, from),
         BuiltStage(phase, mode, eos) \in Peer!UpTo(from, to)
  PROVE  LET o == BuildForPhase(side, phase, mutation, len, mode, eos)
         IN /\ o \in Seq(ResponseType)
            /\ Orderly(o, side, from, to)
            /\ After(o, from) = BuiltStage(phase, mode, eos)
            /\ "filter" \in mutation => Carries(o)
<1> DEFINE o == BuildForPhase(side, phase, mutation, len, mode, eos)
           h == <<HeadersResponse(side, mutation)>>
           some == TRUE
           none == {}
<1>1. some \in BOOLEAN /\ 0 \in Nat /\ none \in Mutations
  BY DEF Mutations
<1>2. BodyStage(mode, eos) \in {"body", "final"} /\ to \in WireStages
  BY DEF BodyStage
<1>3. CASE phase = Headers
  <2>1. o = h /\ from = "none" /\ to # "none"
    BY <1>3, RankOf DEF BuildForPhase, StartsAt, BuiltStage, Peer!UpTo, WireStages
  <2> QED
    BY <1>2, <1>3, <2>1, OrderlyHeaders DEF BuiltStage
<1>4. CASE phase # Headers /\ mode = "fds"
  <2> DEFINE b == BodyResponses(side, some, len, 0, none, mode, eos)
  <2>1. o = h \o b /\ from = "none"
    BY <1>4 DEF BuildForPhase, StartsAt
  <2>2. BodyStage(mode, eos) \in Peer!UpTo("headers", to) /\ to # "none"
    BY <1>2, <1>4, RankOf DEF BuiltStage, Peer!UpTo, WireStages
  <2> HIDE DEF some, none
  <2>3. /\ b \in Seq(ResponseType)
        /\ Orderly(b, side, "headers", to)
        /\ After(b, "headers") = BodyStage(mode, eos)
    BY <1>1, <2>2, OrderlyBody
  <2>4. /\ h \in Seq(ResponseType)
        /\ Orderly(h, side, "none", to)
        /\ After(h, "none") = "headers"
        /\ "filter" \in mutation => Carries(h)
    BY <1>2, <2>2, OrderlyHeaders
  <2>5. "none" \in WireStages
    BY DEF WireStages
  <2> HIDE DEF b, h
  <2>6. /\ h \o b \in Seq(ResponseType)
        /\ Orderly(h \o b, side, "none", to)
        /\ After(h \o b, "none") = After(b, "headers")
        /\ Carries(h) => Carries(h \o b)
    BY <2>3, <2>4, <2>5, OrderlyBoth
  <2> QED
    BY <1>4, <2>1, <2>3, <2>4, <2>6 DEF BuiltStage
<1>5. CASE phase # Headers /\ mode # "fds"
  <2>1. o = BodyResponses(side, some, len, 0, mutation, mode, eos)
        /\ from \in {"headers", "body"} /\ BodyStage(mode, eos) \in Peer!UpTo(from, to)
        /\ BuiltStage(phase, mode, eos) = BodyStage(mode, eos)
    BY <1>5 DEF BuildForPhase, StartsAt, BuiltStage
  <2> HIDE DEF some, o
  <2>2. LET b == BodyResponses(side, some, len, 0, mutation, mode, eos)
        IN /\ b \in Seq(ResponseType)
           /\ Orderly(b, side, from, to)
           /\ After(b, from) = BodyStage(mode, eos)
           /\ "filter" \in mutation => Carries(b)
    BY <1>1, <2>1, OrderlyBody
  <2>3. o \in Seq(ResponseType) /\ Orderly(o, side, from, to)
        /\ After(o, from) = BuiltStage(phase, mode, eos) /\ ("filter" \in mutation => Carries(o))
    BY <2>1, <2>2
  <2> QED
    BY <2>3 DEF o
<1> QED
  BY <1>3, <1>4, <1>5

\* It contains no immediate response.
LEMMA BuildGoesOn ==
  ASSUME NEW side \in Sides, NEW phase \in Steps, NEW mutation \in Mutations,
         NEW len \in Nat, NEW mode \in BodyModes, NEW eos \in BOOLEAN
  PROVE  ~HasImmediate(BuildForPhase(side, phase, mutation, len, mode, eos))
<1> DEFINE from == IF phase = Headers \/ mode = "fds" THEN "none" ELSE "headers"
<1>1. /\ from \in WireStages /\ "trailers" \in WireStages
      /\ StartsAt(phase, mode, from)
      /\ BuiltStage(phase, mode, eos) \in Peer!UpTo(from, "trailers")
  BY RankOf DEF WireStages, StartsAt, BuiltStage, BodyStage, Peer!UpTo
<1> HIDE DEF from
<1>2. Orderly(BuildForPhase(side, phase, mutation, len, mode, eos), side, from, "trailers")
  BY <1>1, OrderlyBuild
<1> QED
  BY <1>2, OrderlyGoesOn

-----------------------------------------------------------------------------
(* What filter calls change.                                                *)

\* At most the filter calls, the bytes and the context of one direction differ.
Inner(s, t, side) ==
  /\ t.order = s.order
  /\ t.local_reply = s.local_reply
  /\ t.mode = s.mode
  /\ t.eos = s.eos
  /\ t.headers = s.headers
  /\ t.headers_sent = s.headers_sent
  /\ t.deferred = s.deferred
  /\ t.buffered_request_body_processed = s.buffered_request_body_processed
  /\ \A o \in Sides \ {side} :
       t.hooks[o] = s.hooks[o] /\ t.filters_executed[o] = s.filters_executed[o]

\* The calls h became the calls g: exactly one call of the kinds that are due.
Counted(h, g, mutates, ends, selects) ==
  /\ g.mutated <=> h.mutated \/ mutates
  /\ ends => g.eos = More(h.eos)
  /\ ~ends => g.eos = h.eos
  /\ selects => g.selected = More(h.selected)
  /\ ~selects => g.selected = h.selected

\* At most one call of the kinds that are due.
Tallied(h, g, ends, selects) ==
  /\ g.eos \in {h.eos, More(h.eos)}
  /\ ~ends => g.eos = h.eos
  /\ g.selected \in {h.selected, More(h.selected)}
  /\ ~selects => g.selected = h.selected

\* What two steps leave alone, both leave alone.
LEMMA InnerTransitive ==
  ASSUME NEW s, NEW t, NEW u, NEW side \in Sides, Inner(s, t, side), Inner(t, u, side)
  PROVE  Inner(s, u, side)
BY DEF Inner

\* Calls that were made exactly once were made at most once.
LEMMA CountedTallied ==
  ASSUME NEW h, NEW g, NEW mutates, NEW ends, NEW selects,
         Counted(h, g, mutates, ends, selects)
  PROVE  Tallied(h, g, ends, selects)
BY DEF Counted, Tallied

\* The context is taken out,
LEMMA InnerHydrate ==
  ASSUME NEW s \in StateType, NEW side \in Sides
  PROVE  /\ Inner(s, s, side)
         /\ Inner(s, Hydrate(s), side)
         /\ Hydrate(s).hooks = s.hooks
         /\ Hydrate(s).body = s.body
         /\ Hydrate(s).filters_executed = s.filters_executed
BY DEF StateType, Inner, Hydrate

\* and put back.
LEMMA InnerDehydrate ==
  ASSUME NEW s \in StateType, NEW side \in Sides, NEW before, NEW f, NEW ran
  PROVE  /\ Inner(s, Dehydrate(s, before, f, ran), side)
         /\ Dehydrate(s, before, f, ran).hooks = s.hooks
         /\ Dehydrate(s, before, f, ran).filters_executed = s.filters_executed
         /\ Dehydrate(s, before, f, ran).body = s.body
BY DEF StateType, Inner, Dehydrate

\* One call of the header filters, of the body filters if they get the end of the
\* stream, or of the selected-upstream filters.
HeadersEffect(s, t, side, f) ==
  /\ Inner(s, t, side)
  /\ t.filters_executed = s.filters_executed
  /\ Counted(s.hooks[side], t.hooks[side], f.header = "mutate", FALSE, FALSE)

BodyEffect(c, s, t, side, eos) ==
  /\ Inner(s, t, side)
  /\ t.filters_executed = s.filters_executed
  /\ Counted(s.hooks[side], t.hooks[side], FALSE, eos /\ c.needs[side], FALSE)

SelectedEffect(c, s, t) ==
  /\ Inner(s, t, "request")
  /\ t.filters_executed = s.filters_executed
  /\ Counted(s.hooks["request"], t.hooks["request"], FALSE, FALSE, c.selected)

\* execute_request and execute_response.
LEMMA HeaderCallCounted ==
  ASSUME NEW s \in StateType, NEW side \in Sides, NEW f \in Outcomes
  PROVE  HeadersEffect(s, ExecuteHeaderFilters(s, side, f).state, side, f)
<1> DEFINE h == HeaderCall(s.hooks[side], f)
           t == [s EXCEPT !.hooks[side] = h]
<1>1. s.hooks[side] \in HookType
  BY DEF StateType
<1>2. Counted(s.hooks[side], h, f.header = "mutate", FALSE, FALSE)
  BY <1>1 DEF HeaderCall, HookType, Counted
<1>3. h \in HookType
  BY <1>1, CallType
<1> HIDE DEF h
<1>4. t \in StateType
  BY <1>3, SetHooksType
<1>5. ExecuteHeaderFilters(s, side, f).state = t
  BY <1>4, HookResultType DEF ExecuteHeaderFilters, h
<1>6. Inner(s, t, side) /\ t.filters_executed = s.filters_executed /\ t.hooks[side] = h
  BY DEF Inner, StateType
<1> QED
  BY <1>2, <1>5, <1>6 DEF HeadersEffect, Counted

\* run_body_filters and run_resp_body_filters.
LEMMA BodyCallCounted ==
  ASSUME NEW c \in ChainType, NEW s \in StateType, NEW side \in Sides, NEW f \in Outcomes,
         NEW len \in Nat, NEW eos \in BOOLEAN
  PROVE  BodyEffect(c, s, RunBodyFilters(c, s, side, f, len, eos).state, side, eos)
<1> DEFINE h == IF eos THEN EosCall(s.hooks[side]) ELSE s.hooks[side]
           t == [s EXCEPT !.hooks[side] = h]
           r == RunBodyFilters(c, s, side, f, len, eos)
<1>1. s.hooks[side] \in HookType
  BY DEF StateType
<1>2. Counted(s.hooks[side], h, FALSE, eos, FALSE)
  BY <1>1 DEF EosCall, HookType, Counted
<1>3. h \in HookType
  BY <1>1, CallType
<1> HIDE DEF h
<1>4. t \in StateType
  BY <1>3, SetHooksType
<1>5. r.state = IF BodyFiltersRun(c, side, len, eos) THEN t ELSE s
  BY <1>4, HookResultType, QuietReply DEF RunBodyFilters, h
<1>6. Inner(s, t, side) /\ t.filters_executed = s.filters_executed /\ t.hooks[side] = h
  BY DEF Inner, StateType
<1>7. Inner(s, s, side)
  BY InnerHydrate
<1> HIDE DEF t, r
<1>8. CASE BodyFiltersRun(c, side, len, eos)
  <2>1. eos /\ c.needs[side] <=> eos
    BY <1>8 DEF BodyFiltersRun
  <2> QED
    BY <1>2, <1>5, <1>6, <1>8, <2>1 DEF BodyEffect, Counted, r
<1>9. CASE ~BodyFiltersRun(c, side, len, eos)
  <2>1. ~(eos /\ c.needs[side])
    BY <1>9 DEF BodyFiltersRun
  <2>2. Counted(s.hooks[side], s.hooks[side], FALSE, eos /\ c.needs[side], FALSE)
    BY <1>1, <2>1 DEF Counted
  <2> QED
    BY <1>5, <1>7, <1>9, <2>2 DEF BodyEffect, r
<1> QED
  BY <1>8, <1>9

\* run_selected_upstream_body_filters.
LEMMA SelectedCallCounted ==
  ASSUME NEW c \in ChainType, NEW s \in StateType, NEW f \in Outcomes
  PROVE  SelectedEffect(c, s, RunSelectedUpstreamBodyFilters(c, s, f).state)
<1> DEFINE len == Rewritten(f.selected, s.body["request"])
           h == SelectedCall(s.hooks["request"])
           ran == [s EXCEPT !.body["request"] = len, !.hooks["request"] = h]
           r == RunSelectedUpstreamBodyFilters(c, s, f)
<1>1. "request" \in Sides /\ s.hooks["request"] \in HookType /\ s.body["request"] \in Nat
  BY DEF Sides, StateType
<1>2. h \in HookType /\ Counted(s.hooks["request"], h, FALSE, FALSE, TRUE)
  BY <1>1, CallType DEF SelectedCall, HookType, Counted
<1>3. len \in Nat
  BY <1>1 DEF Rewritten
<1> HIDE DEF h, len
<1>4. ran \in StateType
  BY <1>1, <1>2, <1>3 DEF StateType
<1>5. /\ Inner(s, ran, "request")
      /\ ran.filters_executed = s.filters_executed
      /\ ran.hooks["request"] = h
  BY <1>1 DEF StateType, Inner
<1>6. r.state = IF c.selected THEN ran ELSE s
  BY <1>4, HookResultType DEF RunSelectedUpstreamBodyFilters, Reply, ran, len, h
<1>7. Inner(s, s, "request")
  BY <1>1, InnerHydrate
<1> HIDE DEF ran, r
<1>8. c.selected \in BOOLEAN
  BY DEF ChainType
<1> QED
  BY <1>1, <1>2, <1>5, <1>6, <1>7, <1>8 DEF SelectedEffect, Counted, r

\* The flags of the direction may differ too.
Outer(s, t, side) ==
  /\ t.order = s.order
  /\ t.local_reply = s.local_reply
  /\ t.mode = s.mode
  /\ t.eos = s.eos
  /\ t.buffered_request_body_processed = s.buffered_request_body_processed
  /\ \A o \in Sides \ {side} :
       /\ t.headers[o] = s.headers[o]
       /\ t.headers_sent[o] = s.headers_sent[o]
       /\ t.deferred[o] = s.deferred[o]
       /\ t.hooks[o] = s.hooks[o]
       /\ t.filters_executed[o] = s.filters_executed[o]

\* What two steps leave alone, both leave alone.
LEMMA OuterTransitive ==
  ASSUME NEW s, NEW t, NEW u, NEW side \in Sides
  PROVE  /\ Inner(s, t, side) => Outer(s, t, side)
         /\ Outer(s, t, side) /\ Outer(t, u, side) => Outer(s, u, side)
BY DEF Inner, Outer

\* The calls that run_request_body_filters_at_eos makes.
AtEosEffect(c, s, r, phase, ordinary) ==
  LET h == s.hooks["request"]
      g == r.state.hooks["request"]
      ends == phase # Headers /\ ordinary /\ c.needs["request"]
      selects == phase # Headers /\ c.selected
  IN /\ Inner(s, r.state, "request")
     /\ r.state.filters_executed = s.filters_executed
     /\ Tallied(h, g, ends, selects)
     /\ g.mutated <=> h.mutated
     /\ ~Stops(r) => Counted(h, g, FALSE, ends, selects)

\* run_request_body_filters_at_eos.
LEMMA AtEosCounted ==
  ASSUME NEW c \in ChainType, NEW s \in StateType, NEW f \in Outcomes, NEW phase \in Steps,
         NEW ordinary \in BOOLEAN
  PROVE  AtEosEffect(c, s, RunRequestBodyFiltersAtEos(c, s, f, phase, ordinary), phase, ordinary)
<1> DEFINE len == s.body["request"]
           eos == TRUE
           new == BodyFilterLen(c, "request", f, len, eos)
           u == [s EXCEPT !.body["request"] = new]
           body == RunBodyFilters(c, u, "request", f, len, eos)
           quiet == Reply(s, <<>>)
           ran == IF ordinary THEN body ELSE quiet
           last == RunSelectedUpstreamBodyFilters(c, ran.state, f)
           r == RunRequestBodyFiltersAtEos(c, s, f, phase, ordinary)
           h == s.hooks["request"]
<1> SUFFICES AtEosEffect(c, s, r, phase, ordinary)
  OBVIOUS
<1>1. "request" \in Sides /\ len \in Nat /\ eos \in BOOLEAN /\ eos /\ h \in HookType
  BY DEF Sides, StateType
<1>2. r = IF phase = Headers THEN quiet ELSE IF Stops(ran) THEN ran ELSE last
  BY DEF RunRequestBodyFiltersAtEos
<1>3. c.needs["request"] \in BOOLEAN /\ c.selected \in BOOLEAN
  BY <1>1 DEF ChainType
<1> HIDE DEF len, eos
<1>4. new \in Nat
  BY <1>1, BodyFilterLenType
<1> HIDE DEF new
<1>5. u \in StateType /\ Inner(s, u, "request") /\ u.hooks = s.hooks
      /\ u.filters_executed = s.filters_executed
  BY <1>1, <1>4 DEF StateType, Inner
<1> HIDE DEF u
<1>6. /\ body.state \in StateType
      /\ BodyEffect(c, u, body.state, "request", eos)
  BY <1>1, <1>5, BodyCallCounted, RunBodyFiltersType DEF ResultType
<1>7. quiet.state = s /\ Inner(s, s, "request")
  BY <1>1, InnerHydrate DEF Reply
<1> HIDE DEF body, quiet
<1>8. /\ ran.state \in StateType
      /\ Inner(s, ran.state, "request")
      /\ ran.state.filters_executed = s.filters_executed
  BY <1>1, <1>5, <1>6, <1>7, InnerTransitive DEF BodyEffect
<1>9. Counted(h, ran.state.hooks["request"], FALSE, ordinary /\ c.needs["request"], FALSE)
  BY <1>1, <1>5, <1>6, <1>7 DEF BodyEffect, Counted
<1> HIDE DEF ran
<1>10. SelectedEffect(c, ran.state, last.state)
  BY <1>8, SelectedCallCounted
<1>11. /\ Inner(s, last.state, "request")
       /\ last.state.filters_executed = s.filters_executed
  BY <1>1, <1>8, <1>10, InnerTransitive DEF SelectedEffect
<1> HIDE DEF last, r, h
<1>12. CASE phase = Headers
  BY <1>1, <1>2, <1>7, <1>12 DEF AtEosEffect, Tallied, Counted, h
<1>13. CASE phase # Headers /\ Stops(ran)
  <2>1. r = ran
    BY <1>2, <1>13
  <2> QED
    BY <1>1, <1>3, <1>8, <1>9, <1>13, <2>1 DEF AtEosEffect, Tallied, Counted, h
<1>14. CASE phase # Headers /\ ~Stops(ran)
  <2>1. r = last
    BY <1>2, <1>14
  <2>2. Counted(h, last.state.hooks["request"], FALSE, ordinary /\ c.needs["request"], c.selected)
    BY <1>3, <1>9, <1>10 DEF SelectedEffect, Counted
  <2> QED
    BY <1>3, <1>8, <1>10, <1>11, <1>14, <2>1, <2>2 DEF AtEosEffect, Tallied, Counted, h
<1> QED
  BY <1>12, <1>13, <1>14

\* The calls that execute_request_filters_if_needed makes.
IfNeededEffect(s, r, f) ==
  /\ Inner(s, r.state, "request")
  /\ Counted(s.hooks["request"], r.state.hooks["request"],
             ~s.filters_executed["request"] /\ f.header = "mutate", FALSE, FALSE)
  /\ Stops(r) \/ r.state.filters_executed["request"]

\* execute_request_filters_if_needed.
LEMMA IfNeededCounted ==
  ASSUME NEW s \in StateType, NEW f \in Outcomes
  PROVE  IfNeededEffect(s, ExecuteRequestFiltersIfNeeded(s, f), f)
<1> DEFINE ran == ExecuteHeaderFilters(s, "request", f)
           done == [ran.state EXCEPT !.filters_executed["request"] = TRUE]
           r == ExecuteRequestFiltersIfNeeded(s, f)
           fe == s.filters_executed["request"]
<1> SUFFICES IfNeededEffect(s, r, f)
  OBVIOUS
<1>1. "request" \in Sides /\ s.hooks["request"] \in HookType /\ fe \in BOOLEAN
  BY DEF Sides, StateType
<1>2. /\ ran.state \in StateType
      /\ HeadersEffect(s, ran.state, "request", f)
  BY <1>1, HeaderCallCounted, ExecuteHeaderFiltersType DEF ResultType
<1>3. r = IF fe THEN Reply(s, <<>>) ELSE IF Stops(ran) THEN ran ELSE Reply(done, <<>>)
  BY DEF ExecuteRequestFiltersIfNeeded
<1> HIDE DEF ran
<1>4. Inner(ran.state, done, "request") /\ done.hooks = ran.state.hooks
      /\ done.filters_executed["request"]
  BY <1>1, <1>2 DEF StateType, Inner
<1>5. Inner(s, done, "request") /\ Inner(s, s, "request")
  BY <1>1, <1>2, <1>4, InnerTransitive, InnerHydrate DEF HeadersEffect
<1> HIDE DEF done, r, fe
<1>6. CASE fe
  <2>1. r.state = s
    BY <1>3, <1>6 DEF Reply
  <2> QED
    BY <1>1, <1>5, <1>6, <2>1 DEF IfNeededEffect, HeadersEffect, Counted, fe
<1>7. CASE ~fe /\ Stops(ran)
  <2>1. r = ran
    BY <1>3, <1>7
  <2> QED
    BY <1>1, <1>2, <1>7, <2>1 DEF IfNeededEffect, HeadersEffect, Counted, fe
<1>8. CASE ~fe /\ ~Stops(ran)
  <2>1. r.state = done
    BY <1>3, <1>8 DEF Reply
  <2> QED
    BY <1>1, <1>2, <1>4, <1>5, <1>8, <2>1 DEF IfNeededEffect, HeadersEffect, Counted, fe
<1> QED
  BY <1>1, <1>6, <1>7, <1>8

-----------------------------------------------------------------------------
(* What pipelines do and say.                                               *)

\* No filter refuses a message as malformed.
Accepts(r) == r.err # "invalid_argument"

\* A hook fails, if it does, with an internal error.
LEMMA HookAccepts ==
  ASSUME NEW s, NEW outcome
  PROVE  Accepts(HookResult(s, outcome)) /\ Accepts(Reply(s, outcome))
BY DEF HookResult, Reply, Fail, Accepts

\* So do the hooks of one kind,
LEMMA FiltersAccept ==
  ASSUME NEW c, NEW s, NEW side, NEW f, NEW len, NEW eos \in BOOLEAN
  PROVE  /\ Accepts(ExecuteHeaderFilters(s, side, f))
         /\ Accepts(RunBodyFilters(c, s, side, f, len, eos))
         /\ Accepts(RunSelectedUpstreamBodyFilters(c, s, f))
<1>1. Accepts(ExecuteHeaderFilters(s, side, f))
  BY HookAccepts DEF ExecuteHeaderFilters
<1>2. Accepts(RunBodyFilters(c, s, side, f, len, eos))
  BY HookAccepts DEF RunBodyFilters
<1>3. Accepts(RunSelectedUpstreamBodyFilters(c, s, f))
  BY HookAccepts DEF RunSelectedUpstreamBodyFilters
<1> QED
  BY <1>1, <1>2, <1>3

\* and those of a phase.
LEMMA PhaseFiltersAccept ==
  ASSUME NEW c, NEW s, NEW f, NEW phase, NEW ordinary \in BOOLEAN
  PROVE  /\ Accepts(ExecuteRequestFiltersIfNeeded(s, f))
         /\ Accepts(RunRequestBodyFiltersAtEos(c, s, f, phase, ordinary))
         /\ Accepts(ExecuteResponsePipeline(c, s, f, phase, ordinary))
<1>1. ASSUME NEW t, NEW side, NEW n, NEW eos \in BOOLEAN
      PROVE  Accepts(RunBodyFilters(c, t, side, f, n, eos))
  BY FiltersAccept
<1>2. ASSUME NEW t, NEW side
      PROVE  /\ Accepts(ExecuteHeaderFilters(t, side, f))
             /\ Accepts(RunSelectedUpstreamBodyFilters(c, t, f))
             /\ Accepts(Reply(t, <<>>))
  BY FiltersAccept, HookAccepts
<1>3. ASSUME NEW t, NEW side, NEW n PROVE Accepts(RunBodyFilters(c, t, side, f, n, TRUE))
  BY <1>1
<1>4. Accepts(ExecuteRequestFiltersIfNeeded(s, f))
  BY <1>2 DEF ExecuteRequestFiltersIfNeeded
<1>5. Accepts(RunRequestBodyFiltersAtEos(c, s, f, phase, ordinary))
  BY <1>2, <1>3 DEF RunRequestBodyFiltersAtEos
<1>6. Accepts(ExecuteResponsePipeline(c, s, f, phase, ordinary))
  BY <1>2, <1>3 DEF ExecuteResponsePipeline
<1> QED
  BY <1>4, <1>5, <1>6

\* The responses answer a phase, and carry what must be carried.
Says(o, side, phase, mode, eos, carries) ==
  \E mutation \in Mutations, len \in Nat :
    /\ o = BuildForPhase(side, phase, mutation, len, mode, eos)
    /\ carries => "filter" \in mutation

\* The responses end a side's stage from at stage, in order, and carry what must be carried.
Voiced(o, side, stage, carries, from, to) ==
  /\ o \in Seq(ResponseType)
  /\ Orderly(o, side, from, to)
  /\ After(o, from) = stage
  /\ carries => Carries(o)

\* Such responses are in order where the phase may be answered.
LEMMA SaysOrderly ==
  ASSUME NEW o, NEW side \in Sides, NEW phase \in Steps, NEW mode \in BodyModes,
         NEW eos \in BOOLEAN, NEW carries, Says(o, side, phase, mode, eos, carries),
         NEW from \in WireStages, NEW to \in WireStages, StartsAt(phase, mode, from),
         BuiltStage(phase, mode, eos) \in Peer!UpTo(from, to)
  PROVE  Voiced(o, side, BuiltStage(phase, mode, eos), carries, from, to)
<1>1. PICK mutation \in Mutations, len \in Nat :
        /\ o = BuildForPhase(side, phase, mutation, len, mode, eos)
        /\ carries => "filter" \in mutation
  BY DEF Says
<1> QED
  BY <1>1, OrderlyBuild DEF Voiced

\* A headers response answers the headers phase.
LEMMA SaysHeaders ==
  ASSUME NEW side \in Sides, NEW mutation \in Mutations, NEW mode, NEW eos, NEW carries,
         carries => "filter" \in mutation
  PROVE  Says(<<HeadersResponse(side, mutation)>>, side, Headers, mode, eos, carries)
<1>1. <<HeadersResponse(side, mutation)>> = BuildForPhase(side, Headers, mutation, 0, mode, eos)
  BY DEF BuildForPhase
<1> QED
  BY <1>1 DEF Says

\* The phase that a request pipeline answers: without a body, the headers.
Replied(s, phase) == IF phase = Body /\ s.eos["request"].headers THEN Headers ELSE phase

\* What build_request changes and says.
BuildEffect(s, r, phase, carries, eos) ==
  /\ Outer(s, r.state, "request")
  /\ r.state.hooks = s.hooks
  /\ r.state.headers = s.headers
  /\ r.state.filters_executed = s.filters_executed
  /\ Accepts(r)
  /\ Stops(r) => Silent(r)
  /\ ~Stops(r) => Says(r.out, "request", Replied(s, phase), s.mode["request"], eos, carries)

\* build_request.
LEMMA BuildCounted ==
  ASSUME NEW s \in StateType, NEW phase \in Steps, NEW mutation \in Mutations,
         NEW original \in Nat, NEW eos \in BOOLEAN, NEW carries,
         carries => "filter" \in mutation
  PROVE  BuildEffect(s, BuildRequest(s, phase, mutation, original, eos), phase, carries, eos)
<1> DEFINE len == s.body["request"]
           mu == WithContentLength(mutation, len, original)
           sent == [s EXCEPT !.headers_sent["request"] = TRUE]
           quick == <<HeadersResponse("request", mu)>>
           full == BuildForPhase("request", phase, mu, len, s.mode["request"], eos)
           r == BuildRequest(s, phase, mutation, original, eos)
<1> SUFFICES BuildEffect(s, r, phase, carries, eos)
  OBVIOUS
<1>1. "request" \in Sides /\ len \in Nat
  BY DEF Sides, StateType
<1>2. mu \in Mutations /\ (carries => "filter" \in mu)
  BY DEF WithContentLength, Mutations
<1> HIDE DEF mu
<1>3. /\ Outer(s, sent, "request") /\ sent.hooks = s.hooks /\ sent.headers = s.headers
      /\ sent.filters_executed = s.filters_executed
  BY <1>1 DEF StateType, Outer
<1>4. Outer(s, s, "request")
  BY DEF Outer
<1>5. CASE phase = Body /\ s.eos["request"].headers
  <2>1. r = IF len > 0 THEN Reply(s, <<Immediate>>) ELSE Reply(sent, quick)
    BY <1>5 DEF BuildRequest, BuildBodyless, mu
  <2>2. Says(quick, "request", Replied(s, phase), s.mode["request"], eos, carries)
    BY <1>1, <1>2, <1>5, SaysHeaders DEF Replied
  <2> HIDE DEF quick, sent, len
  <2>3. CASE len > 0
    <3>1. r.state = s /\ Stops(r) /\ Silent(r) /\ Accepts(r)
      BY <2>1, <2>3, WaysToStop, StopsSilent, HookAccepts
    <3> HIDE DEF r
    <3> QED
      BY <1>4, <3>1 DEF BuildEffect
  <2>4. CASE ~(len > 0)
    <3>1. r.state = sent /\ r.out = quick /\ Accepts(r)
      BY <2>1, <2>4, HookAccepts DEF Reply
    <3>2. ~Stops(r)
      BY <2>1, <2>4 DEF Reply, Stops, HasImmediate, quick, HeadersResponse, Plain, IsImmediate
    <3> HIDE DEF r
    <3> QED
      BY <1>3, <2>2, <3>1, <3>2 DEF BuildEffect
  <2> QED
    BY <2>3, <2>4
<1>6. CASE ~(phase = Body /\ s.eos["request"].headers)
  <2>1. r = Reply(s, full)
    BY <1>6 DEF BuildRequest, mu
  <2>2. Says(full, "request", Replied(s, phase), s.mode["request"], eos, carries)
    BY <1>1, <1>2, <1>6 DEF Says, Replied
  <2>3. ~HasImmediate(full)
    <3>1. s.mode["request"] \in BodyModes
      BY <1>1 DEF StateType
    <3> QED
      BY <1>1, <1>2, <3>1, BuildGoesOn
  <2> HIDE DEF full
  <2>4. r.state = s /\ r.out = full /\ ~Stops(r) /\ Accepts(r)
    BY <2>1, <2>3, HookAccepts DEF Reply, Stops
  <2> HIDE DEF r
  <2> QED
    BY <1>4, <2>2, <2>4 DEF BuildEffect
<1> QED
  BY <1>5, <1>6

\* What the request pipeline does: the calls that are due, and the answer to the
\* phase with what the header filters asked for.
RequestEffect(c, s, r, f, phase, eos, ordinary) ==
  LET h == s.hooks["request"]
      g == r.state.hooks["request"]
      mutates == ~s.filters_executed["request"] /\ f.header = "mutate"
      ends == phase # Headers /\ ordinary /\ c.needs["request"]
      selects == phase # Headers /\ c.selected
  IN /\ Outer(s, r.state, "request")
     /\ Accepts(r)
     /\ Stops(r) => Silent(r)
     /\ Tallied(h, g, ends, selects)
     /\ ~Stops(r) =>
          /\ Counted(h, g, mutates, ends, selects)
          /\ r.state.headers = s.headers
          /\ r.state.filters_executed["request"]
          /\ Says(r.out, "request", Replied(s, phase), s.mode["request"], eos, mutates)

\* run_request_pipeline_inner, where its headers are there.
LEMMA RequestPipelineCounted ==
  ASSUME NEW c \in ChainType, NEW s \in LiveState, NEW f \in Outcomes, NEW phase \in Steps,
         NEW eos \in BOOLEAN, NEW ordinary \in BOOLEAN, s.headers["request"]
  PROVE  RequestEffect(c, s, RunRequestPipelineInner(c, s, f, phase, eos, ordinary),
                       f, phase, eos, ordinary)
<1> DEFINE runs == ~s.filters_executed["request"]
           u == Hydrate(s)
           ran == ExecuteRequestFiltersIfNeeded(u, f)
           filtered == RunRequestBodyFiltersAtEos(c, ran.state, f, phase, ordinary)
           back == Dehydrate(filtered.state, s, f, runs)
           mu == HeaderMutation(runs, f)
           mutates == runs /\ f.header = "mutate"
           original == s.body["request"]
           built == BuildRequest(back, phase, mu, original, eos)
           r == RunRequestPipelineInner(c, s, f, phase, eos, ordinary)
           h == s.hooks["request"]
           ends == phase # Headers /\ ordinary /\ c.needs["request"]
           selects == phase # Headers /\ c.selected
<1> SUFFICES RequestEffect(c, s, r, f, phase, eos, ordinary)
  OBVIOUS
<1>1. /\ "request" \in Sides /\ s \in StateType /\ original \in Nat /\ runs \in BOOLEAN
      /\ s.carried_context # Drained /\ h \in HookType
  BY DEF LiveState, Live, Sides, StateType
<1>2. mu \in Mutations /\ (mutates => "filter" \in mu)
  BY DEF HeaderMutation, Mutations
<1>3. /\ u \in StateType /\ Inner(s, u, "request") /\ u.hooks = s.hooks
      /\ u.filters_executed = s.filters_executed
  BY <1>1, HydrateType, InnerHydrate
<1>4. \/ r = ran /\ Stops(ran)
      \/ r = Reply(ran.state, <<Immediate>>)
      \/ r = filtered /\ Stops(filtered)
      \/ r = built /\ ~Stops(ran) /\ ~Stops(filtered)
  BY <1>1 DEF RunRequestPipelineInner, MissingHeaders
<1> HIDE DEF u, mu, original
<1>5. IfNeededEffect(u, ran, f) /\ ran.state \in StateType
  BY <1>3, IfNeededCounted, IfNeededType DEF ResultType
<1>6. Silent(ran) /\ Accepts(ran)
  BY RequestFiltersSilent, PhaseFiltersAccept
<1> HIDE DEF ran
<1>7. AtEosEffect(c, ran.state, filtered, phase, ordinary) /\ filtered.state \in StateType
  BY <1>5, AtEosCounted, AtEosType DEF ResultType
<1>8. Silent(filtered) /\ Accepts(filtered)
  BY RequestFiltersSilent, PhaseFiltersAccept
<1> HIDE DEF filtered
<1>9. /\ Inner(s, ran.state, "request")
      /\ Counted(h, ran.state.hooks["request"], mutates, FALSE, FALSE)
      /\ Stops(ran) \/ ran.state.filters_executed["request"]
  BY <1>1, <1>3, <1>5, InnerTransitive DEF IfNeededEffect, Counted
<1>10. /\ Inner(s, filtered.state, "request")
       /\ filtered.state.filters_executed = ran.state.filters_executed
       /\ Tallied(h, filtered.state.hooks["request"], ends, selects)
       /\ ~Stops(filtered) =>
            Counted(h, filtered.state.hooks["request"], mutates, ends, selects)
  <2>1. Inner(s, filtered.state, "request")
        /\ filtered.state.filters_executed = ran.state.filters_executed
    BY <1>1, <1>7, <1>9, InnerTransitive DEF AtEosEffect
  <2>2. Tallied(h, filtered.state.hooks["request"], ends, selects)
    BY <1>7, <1>9 DEF AtEosEffect, Counted, Tallied
  <2>3. ASSUME ~Stops(filtered)
        PROVE  Counted(h, filtered.state.hooks["request"], mutates, ends, selects)
    BY <1>7, <1>9, <2>3 DEF AtEosEffect, Counted
  <2> QED
    BY <2>1, <2>2, <2>3
<1> HIDE DEF runs
<1>11. /\ back \in StateType /\ Inner(filtered.state, back, "request")
       /\ back.hooks = filtered.state.hooks
       /\ back.filters_executed = filtered.state.filters_executed
  <2>1. back \in StateType
    BY <1>1, <1>7, DehydrateType
  <2> QED
    BY <1>1, <1>7, <2>1, InnerDehydrate
<1> HIDE DEF back
<1>12. BuildEffect(back, built, phase, mutates, eos)
  BY <1>1, <1>2, <1>11, BuildCounted
<1> HIDE DEF built, mutates, ends, selects, h
<1>13. ASSUME r = ran, Stops(ran) PROVE RequestEffect(c, s, r, f, phase, eos, ordinary)
  <2>1. Outer(s, r.state, "request") /\ Accepts(r) /\ Silent(r) /\ Stops(r)
    BY <1>1, <1>6, <1>9, <1>13, OuterTransitive
  <2>2. Tallied(h, r.state.hooks["request"], ends, selects)
    BY <1>9, <1>13 DEF Counted, Tallied
  <2> HIDE DEF r
  <2> QED
    BY <2>1, <2>2 DEF RequestEffect, h, ends, selects
<1>14. ASSUME r = Reply(ran.state, <<Immediate>>)
       PROVE  RequestEffect(c, s, r, f, phase, eos, ordinary)
  <2>1. r.state = ran.state /\ Stops(r) /\ Silent(r) /\ Accepts(r)
    BY <1>5, <1>14, WaysToStop, StopsSilent, HookAccepts
  <2>2. Outer(s, r.state, "request")
    BY <1>1, <1>9, <2>1, OuterTransitive
  <2>3. Tallied(h, r.state.hooks["request"], ends, selects)
    BY <1>9, <2>1 DEF Counted, Tallied
  <2> HIDE DEF r
  <2> QED
    BY <2>1, <2>2, <2>3 DEF RequestEffect, h, ends, selects
<1>15. ASSUME r = filtered, Stops(filtered)
       PROVE  RequestEffect(c, s, r, f, phase, eos, ordinary)
  <2>1. Outer(s, r.state, "request") /\ Accepts(r) /\ Silent(r) /\ Stops(r)
    BY <1>1, <1>8, <1>10, <1>15, OuterTransitive
  <2>2. Tallied(h, r.state.hooks["request"], ends, selects)
    BY <1>10, <1>15
  <2> HIDE DEF r
  <2> QED
    BY <2>1, <2>2 DEF RequestEffect, h, ends, selects
<1>16. ASSUME r = built, ~Stops(ran), ~Stops(filtered)
       PROVE  RequestEffect(c, s, r, f, phase, eos, ordinary)
  <2>1. Inner(s, back, "request")
    BY <1>1, <1>10, <1>11, InnerTransitive
  <2>2. Outer(s, r.state, "request") /\ Accepts(r) /\ (Stops(r) => Silent(r))
    BY <1>1, <1>12, <1>16, <2>1, OuterTransitive DEF BuildEffect
  <2>3. /\ Counted(h, r.state.hooks["request"], mutates, ends, selects)
        /\ Tallied(h, r.state.hooks["request"], ends, selects)
    BY <1>10, <1>11, <1>12, <1>16 DEF BuildEffect
  <2>4. r.state.headers = s.headers /\ r.state.filters_executed["request"]
    BY <1>9, <1>10, <1>11, <1>12, <1>16, <2>1 DEF BuildEffect, Inner
  <2>5. ~Stops(r) => Says(r.out, "request", Replied(s, phase), s.mode["request"], eos, mutates)
    <3>1. Replied(back, phase) = Replied(s, phase) /\ back.mode = s.mode
      BY <2>1 DEF Inner, Replied
    <3> QED
      BY <1>12, <1>16, <3>1 DEF BuildEffect
  <2> HIDE DEF r
  <2> QED
    BY <2>2, <2>3, <2>4, <2>5 DEF RequestEffect, h, ends, selects, mutates, runs
<1> QED
  BY <1>4, <1>13, <1>14, <1>15, <1>16

\* What the response pipeline does, parked mutation included.
ResponseEffect(c, s, r, f, phase, eos) ==
  LET h == s.hooks["response"]
      g == r.state.hooks["response"]
      mutates == (phase = Headers \/ ~s.filters_executed["response"]) /\ f.header = "mutate"
      ends == phase # Headers /\ c.needs["response"]
  IN /\ Outer(s, r.state, "response")
     /\ Accepts(r)
     /\ Stops(r) => Silent(r)
     /\ Tallied(h, g, ends, FALSE)
     /\ ~Stops(r) =>
          /\ Counted(h, g, mutates, ends, FALSE)
          /\ Says(r.out, "response", phase, s.mode["response"], eos,
                  mutates \/ (phase = Body /\ "filter" \in s.deferred["response"]))

\* The calls that execute_response_pipeline_and_body_filters makes.
ResponseCalls(c, s, r, f, phase, runs) ==
  LET h == s.hooks["response"]
      g == r.state.hooks["response"]
      ends == phase # Headers /\ c.needs["response"]
  IN /\ Inner(s, r.state, "response")
     /\ Tallied(h, g, ends, FALSE)
     /\ ~Stops(r) => Counted(h, g, runs /\ f.header = "mutate", ends, FALSE)

\* execute_response_pipeline_and_body_filters.
LEMMA ResponseCallsCounted ==
  ASSUME NEW c \in ChainType, NEW s \in StateType, NEW f \in Outcomes, NEW phase \in Steps,
         NEW runs \in BOOLEAN
  PROVE  ResponseCalls(c, s, ExecuteResponsePipeline(c, s, f, phase, runs), f, phase, runs)
<1> DEFINE len == s.body["response"]
           eos == TRUE
           called == ExecuteHeaderFilters(s, "response", f)
           quiet == Reply(s, <<>>)
           ran == IF runs THEN called ELSE quiet
           new == BodyFilterLen(c, "response", f, len, eos)
           u == [ran.state EXCEPT !.body["response"] = new]
           body == RunBodyFilters(c, u, "response", f, len, eos)
           r == ExecuteResponsePipeline(c, s, f, phase, runs)
           h == s.hooks["response"]
           mutates == runs /\ f.header = "mutate"
           ends == phase # Headers /\ c.needs["response"]
<1> SUFFICES ResponseCalls(c, s, r, f, phase, runs)
  OBVIOUS
<1>1. "response" \in Sides /\ len \in Nat /\ eos \in BOOLEAN /\ eos /\ h \in HookType
  BY DEF Sides, StateType
<1>2. r = IF Stops(ran) \/ phase = Headers THEN ran ELSE body
  BY DEF ExecuteResponsePipeline
<1>3. c.needs["response"] \in BOOLEAN
  BY <1>1 DEF ChainType
<1> HIDE DEF len, eos
<1>4. new \in Nat
  BY <1>1, BodyFilterLenType
<1> HIDE DEF new
<1>5. called.state \in StateType /\ HeadersEffect(s, called.state, "response", f)
  BY <1>1, HeaderCallCounted, ExecuteHeaderFiltersType DEF ResultType
<1>6. quiet.state = s /\ Inner(s, s, "response")
  BY <1>1, InnerHydrate DEF Reply
<1> HIDE DEF called, quiet
<1>7. ran.state \in StateType /\ Inner(s, ran.state, "response")
  BY <1>5, <1>6 DEF HeadersEffect
<1>8. Counted(h, ran.state.hooks["response"], mutates, FALSE, FALSE)
  BY <1>1, <1>5, <1>6 DEF HeadersEffect, Counted
<1> HIDE DEF ran
<1>9. u \in StateType /\ Inner(ran.state, u, "response") /\ u.hooks = ran.state.hooks
  BY <1>1, <1>4, <1>7 DEF StateType, Inner
<1> HIDE DEF u
<1>10. BodyEffect(c, u, body.state, "response", eos)
  BY <1>1, <1>9, BodyCallCounted
<1>11. Inner(s, body.state, "response")
  BY <1>1, <1>7, <1>9, <1>10, InnerTransitive DEF BodyEffect
<1> HIDE DEF body, r, h
<1>12. CASE Stops(ran) \/ phase = Headers
  <2>1. r = ran
    BY <1>2, <1>12
  <2>2. Tallied(h, ran.state.hooks["response"], ends, FALSE)
    BY <1>8 DEF Counted, Tallied
  <2>3. ASSUME phase = Headers
        PROVE  Counted(h, ran.state.hooks["response"], mutates, ends, FALSE)
    BY <1>8, <2>3 DEF Counted
  <2> HIDE DEF mutates, ends
  <2> QED
    BY <1>7, <1>12, <2>1, <2>2, <2>3 DEF ResponseCalls, h, mutates, ends
<1>13. CASE ~(Stops(ran) \/ phase = Headers)
  <2>1. r = body
    BY <1>2, <1>13
  <2>2. Counted(h, body.state.hooks["response"], mutates, ends, FALSE)
    BY <1>1, <1>3, <1>8, <1>9, <1>10, <1>13 DEF BodyEffect, Counted
  <2>3. Tallied(h, body.state.hooks["response"], ends, FALSE)
    BY <2>2 DEF Counted, Tallied
  <2> HIDE DEF mutates, ends
  <2> QED
    BY <1>11, <2>1, <2>2, <2>3 DEF ResponseCalls, h, mutates, ends
<1> QED
  BY <1>12, <1>13

\* run_response_pipeline, where its headers are there.
LEMMA ResponsePipelineCounted ==
  ASSUME NEW c \in ChainType, NEW s \in LiveState, NEW f \in Outcomes, NEW phase \in Steps,
         NEW eos \in BOOLEAN, ~MissingHeaders(s, "response")
  PROVE  ResponseEffect(c, s, RunResponsePipeline(c, s, f, phase, eos), f, phase, eos)
<1> DEFINE runs == phase = Headers \/ ~s.filters_executed["response"]
           taken == [s EXCEPT !.headers["response"] = FALSE]
           u == Hydrate(taken)
           ran == ExecuteResponsePipeline(c, u, f, phase, runs)
           parked == Dehydrate(ran.state, s, f, runs)
           deferred == IF phase = Body THEN parked.deferred["response"] ELSE {}
           done == [parked EXCEPT !.deferred["response"] = IF phase = Body THEN {} ELSE @]
           len == done.body["response"]
           mu == WithContentLength(deferred \cup HeaderMutation(runs, f), len, s.body["response"])
           built == BuildForPhase("response", phase, mu, len, s.mode["response"], eos)
           r == RunResponsePipeline(c, s, f, phase, eos)
           h == s.hooks["response"]
           mutates == runs /\ f.header = "mutate"
           ends == phase # Headers /\ c.needs["response"]
           carries == mutates \/ (phase = Body /\ "filter" \in s.deferred["response"])
<1> SUFFICES ResponseEffect(c, s, r, f, phase, eos)
  OBVIOUS
<1>1. /\ "response" \in Sides /\ s \in StateType /\ runs \in BOOLEAN
      /\ s.carried_context # Drained /\ s.mode["response"] \in BodyModes
  BY DEF LiveState, Live, Sides, StateType
<1>2. /\ taken \in StateType
      /\ Outer(s, taken, "response")
      /\ taken.hooks = s.hooks
      /\ taken.deferred = s.deferred
  <2>1. taken \in StateType
    BY <1>1, SetFlagType
  <2> QED
    BY <1>1, <2>1 DEF StateType, Outer
<1>3. (r = ran /\ Stops(ran)) \/ (r = Reply(done, built) /\ ~Stops(ran))
  BY <1>1 DEF RunResponsePipeline
<1>4. (mutates => "filter" \in HeaderMutation(runs, f)) /\ HeaderMutation(runs, f) \in Mutations
  BY DEF HeaderMutation, Mutations
<1> HIDE DEF taken, runs
<1>5. u \in StateType /\ Inner(taken, u, "response") /\ u.hooks = taken.hooks
  BY <1>1, <1>2, HydrateType, InnerHydrate
<1> HIDE DEF u
<1>6. ResponseCalls(c, u, ran, f, phase, runs) /\ ran.state \in StateType
  BY <1>1, <1>5, ResponseCallsCounted, ResponseFiltersType DEF ResultType
<1>7. Silent(ran) /\ Accepts(ran)
  BY <1>1, ResponseFiltersSilent, PhaseFiltersAccept
<1> HIDE DEF ran
<1>8. /\ Inner(taken, ran.state, "response")
      /\ Outer(s, ran.state, "response")
      /\ Tallied(h, ran.state.hooks["response"], ends, FALSE)
      /\ ~Stops(ran) => Counted(h, ran.state.hooks["response"], mutates, ends, FALSE)
  <2>1. Inner(taken, ran.state, "response") /\ Outer(s, ran.state, "response")
    BY <1>1, <1>2, <1>5, <1>6, InnerTransitive, OuterTransitive DEF ResponseCalls
  <2>2. u.hooks = s.hooks
    BY <1>2, <1>5
  <2> QED
    BY <1>6, <2>1, <2>2 DEF ResponseCalls
<1>9. /\ parked \in StateType /\ Inner(ran.state, parked, "response")
      /\ parked.hooks = ran.state.hooks
  <2>1. parked \in StateType
    BY <1>1, <1>6, DehydrateType
  <2> QED
    BY <1>1, <1>6, <2>1, InnerDehydrate
<1>10. parked.deferred = s.deferred
  BY <1>2, <1>8, <1>9 DEF Inner
<1> HIDE DEF parked
<1>11. Outer(parked, done, "response") /\ done.hooks = parked.hooks /\ done \in StateType
  BY <1>1, <1>9 DEF StateType, Outer, Mutations
<1>12. deferred \in Mutations /\ (phase = Body => deferred = s.deferred["response"])
  BY <1>1, <1>9, <1>10 DEF StateType, Mutations
<1> HIDE DEF done, deferred
<1>13. len \in Nat
  BY <1>1, <1>11 DEF StateType
<1> HIDE DEF len
<1>14. mu \in Mutations /\ (carries => "filter" \in mu)
  BY <1>4, <1>12 DEF WithContentLength, Mutations
<1> HIDE DEF mu, carries
<1>15. Says(built, "response", phase, s.mode["response"], eos, carries)
  BY <1>13, <1>14 DEF Says
<1>16. ~HasImmediate(built)
  BY <1>1, <1>13, <1>14, BuildGoesOn
<1> HIDE DEF built, h, mutates, ends
<1>17. ASSUME r = ran, Stops(ran) PROVE ResponseEffect(c, s, r, f, phase, eos)
  <2>1. Outer(s, r.state, "response") /\ Accepts(r) /\ Silent(r) /\ Stops(r)
        /\ Tallied(h, r.state.hooks["response"], ends, FALSE)
    BY <1>7, <1>8, <1>17
  <2> HIDE DEF r
  <2> QED
    BY <2>1 DEF ResponseEffect, h, ends
<1>18. ASSUME r = Reply(done, built), ~Stops(ran) PROVE ResponseEffect(c, s, r, f, phase, eos)
  <2>1. r.state = done /\ r.out = built /\ Accepts(r) /\ ~Stops(r)
    BY <1>16, <1>18, HookAccepts DEF Reply, Stops
  <2>2. Outer(s, r.state, "response")
    BY <1>1, <1>8, <1>9, <1>11, <2>1, OuterTransitive
  <2>3. /\ Tallied(h, r.state.hooks["response"], ends, FALSE)
        /\ Counted(h, r.state.hooks["response"], mutates, ends, FALSE)
    BY <1>8, <1>9, <1>11, <1>18, <2>1
  <2>4. Says(r.out, "response", phase, s.mode["response"], eos, carries)
    BY <1>15, <2>1
  <2> HIDE DEF r
  <2> QED
    BY <2>1, <2>2, <2>3, <2>4 DEF ResponseEffect, h, ends, mutates, runs, carries
<1> QED
  BY <1>3, <1>17, <1>18

\* What the early header filters do, and where what they ask for goes.
EarlyEffect(s, r, side, f, delivery) ==
  LET h == s.hooks[side]
      g == r.state.hooks[side]
      mutates == f.header = "mutate"
  IN /\ Outer(s, r.state, side)
     /\ Accepts(r)
     /\ Stops(r) => Silent(r)
     /\ Tallied(h, g, FALSE, FALSE)
     /\ ~Stops(r) =>
          /\ Counted(h, g, mutates, FALSE, FALSE)
          /\ r.state.headers = s.headers
          /\ r.state.headers_sent = s.headers_sent
          /\ r.state.filters_executed[side]
          /\ delivery = "silent" => r.out = <<>>
          /\ delivery # "silent" =>
               Says(r.out, side, Headers, s.mode[side], FALSE, mutates /\ delivery = "send")
          /\ delivery # "send" /\ mutates => "filter" \in r.state.deferred[side]

\* run_request_header_filters_early and run_response_header_filters_early.
LEMMA EarlyCounted ==
  ASSUME NEW s \in LiveState, NEW side \in Sides, NEW f \in Outcomes,
         NEW delivery \in {"send", "ack", "silent"}, ~MissingHeaders(s, side)
  PROVE  /\ side = "request" =>
              EarlyEffect(s, RunRequestHeaderFiltersEarly(s, f, delivery), side, f, delivery)
         /\ side = "response" =>
              EarlyEffect(s, RunResponseHeaderFiltersEarly(s, f, delivery), side, f, delivery)
<1> DEFINE u == Hydrate(s)
           called == ExecuteHeaderFilters(u, side, f)
           set == [called.state EXCEPT !.filters_executed[side] = TRUE]
           ran == TRUE
           back == Dehydrate(set, s, f, ran)
           mu == HeaderMutation(ran, f)
           parked == [back EXCEPT !.deferred[side] = mu]
           delivered == Deliver(back, side, mu, delivery)
           refused == Reply(called.state, <<Immediate>>)
           h == s.hooks[side]
           mutates == f.header = "mutate"
           none == {}
<1>1. /\ s \in StateType /\ s.carried_context # Drained /\ ran \in BOOLEAN
      /\ h \in HookType /\ none \in Mutations
  BY DEF LiveState, Live, StateType, Mutations
<1>2. mu \in Mutations /\ (mutates => "filter" \in mu)
  BY DEF HeaderMutation, Mutations
<1>3. side = "request" =>
        \/ RunRequestHeaderFiltersEarly(s, f, delivery) = delivered
        \/ RunRequestHeaderFiltersEarly(s, f, delivery) = called /\ Stops(called)
  BY <1>1 DEF RunRequestHeaderFiltersEarly
<1>4. side = "response" =>
        \/ RunResponseHeaderFiltersEarly(s, f, delivery) \in {delivered, refused}
        \/ RunResponseHeaderFiltersEarly(s, f, delivery) = called /\ Stops(called)
  BY <1>1 DEF RunResponseHeaderFiltersEarly
<1> HIDE DEF mu, ran
<1>5. /\ u \in StateType /\ Inner(s, u, side) /\ u.hooks = s.hooks
      /\ u.filters_executed = s.filters_executed
  BY <1>1, HydrateType, InnerHydrate
<1> HIDE DEF u
<1>6. called.state \in StateType /\ HeadersEffect(u, called.state, side, f)
  BY <1>5, HeaderCallCounted, ExecuteHeaderFiltersType DEF ResultType
<1>7. Silent(called) /\ Accepts(called)
  BY FiltersSilent, FiltersAccept
<1> HIDE DEF called
<1>8. /\ Inner(s, called.state, side)
      /\ Counted(h, called.state.hooks[side], mutates, FALSE, FALSE)
      /\ Tallied(h, called.state.hooks[side], FALSE, FALSE)
  BY <1>5, <1>6, InnerTransitive DEF HeadersEffect, Counted, Tallied
<1>9. /\ set \in StateType /\ Inner(called.state, set, side)
      /\ set.hooks = called.state.hooks /\ set.filters_executed[side]
  BY <1>6 DEF StateType, Inner
<1> HIDE DEF set
<1>10. /\ back \in StateType /\ Inner(set, back, side)
       /\ back.hooks = set.hooks /\ back.filters_executed = set.filters_executed
  <2>1. back \in StateType
    BY <1>1, <1>9, DehydrateType
  <2> QED
    BY <1>1, <1>9, <2>1, InnerDehydrate
<1> HIDE DEF back
<1>11. Inner(s, back, side)
  BY <1>8, <1>9, <1>10, InnerTransitive
<1>12. /\ Outer(back, parked, side) /\ parked.hooks = back.hooks
       /\ parked.headers = back.headers /\ parked.headers_sent = back.headers_sent
       /\ parked.filters_executed = back.filters_executed
       /\ parked.deferred[side] = mu
  BY <1>10 DEF StateType, Outer
<1>13. Outer(back, back, side)
  BY DEF Outer
<1> HIDE DEF parked, none
<1>14. /\ Says(<<HeadersResponse(side, mu)>>, side, Headers, s.mode[side], FALSE, mutates)
       /\ Says(<<HeadersResponse(side, none)>>, side, Headers, s.mode[side], FALSE, FALSE)
  BY <1>1, <1>2, SaysHeaders
<1>15. ASSUME NEW d \in {"send", "ack", "silent"}, d = delivery
       PROVE  EarlyEffect(s, delivered, side, f, delivery)
  <2> DEFINE quick == <<HeadersResponse(side, mu)>>
             ack == <<HeadersResponse(side, none)>>
  <2>1. ~HasImmediate(quick) /\ ~HasImmediate(ack) /\ ~HasImmediate(<<>>)
    BY DEF HasImmediate, IsImmediate, HeadersResponse, Plain
  <2>2. delivered = IF d = "send" THEN Reply(back, quick)
                    ELSE Reply(parked, IF d = "ack" THEN ack ELSE <<>>)
    BY <1>15 DEF Deliver, parked, none
  <2> HIDE DEF quick, ack, delivered
  <2>3. /\ delivered.state = IF d = "send" THEN back ELSE parked
        /\ delivered.out = IF d = "send" THEN quick ELSE IF d = "ack" THEN ack ELSE <<>>
        /\ delivered.err = "none"
    BY <2>2 DEF Reply
  <2>4. ~Stops(delivered) /\ Accepts(delivered)
    BY <2>1, <2>3 DEF Stops, Accepts
  <2>5. /\ Outer(s, delivered.state, side)
        /\ delivered.state.hooks = called.state.hooks
        /\ delivered.state.headers = s.headers
        /\ delivered.state.headers_sent = s.headers_sent
        /\ delivered.state.filters_executed[side]
    <3>1. Outer(s, back, side) /\ Outer(s, parked, side)
      BY <1>11, <1>12, OuterTransitive
    <3> QED
      BY <1>9, <1>10, <1>11, <1>12, <2>3, <3>1 DEF Inner
  <2>6. d = "silent" => delivered.out = <<>>
    BY <2>3
  <2>7. d # "silent" =>
          Says(delivered.out, side, Headers, s.mode[side], FALSE, mutates /\ d = "send")
    <3>1. CASE d = "send"
      BY <1>14, <2>3, <3>1 DEF quick, Says
    <3>2. CASE d = "ack"
      BY <1>14, <2>3, <3>2 DEF ack, Says
    <3> QED
      BY <3>1, <3>2
  <2>8. d # "send" /\ mutates => "filter" \in delivered.state.deferred[side]
    BY <1>2, <1>12, <2>3
  <2> QED
    BY <1>8, <1>15, <2>4, <2>5, <2>6, <2>7, <2>8 DEF EarlyEffect
<1>16. EarlyEffect(s, delivered, side, f, delivery)
  BY <1>15
<1> HIDE DEF delivered
<1>17. Stops(called) => EarlyEffect(s, called, side, f, delivery)
  BY <1>7, <1>8, OuterTransitive DEF EarlyEffect
<1>18. EarlyEffect(s, refused, side, f, delivery)
  <2>1. refused.state = called.state /\ Stops(refused) /\ Silent(refused) /\ Accepts(refused)
    BY <1>6, WaysToStop, StopsSilent, HookAccepts
  <2> HIDE DEF refused
  <2> QED
    BY <1>8, <2>1, OuterTransitive DEF EarlyEffect
<1> QED
  BY <1>3, <1>4, <1>16, <1>17, <1>18

\* What the body filters do between the headers and the end of a STREAMED body.
StreamedEffect(c, s, r, side, eos) ==
  LET h == s.hooks[side]
      g == r.state.hooks[side]
      ends == eos /\ c.needs[side]
  IN /\ Outer(s, r.state, side)
     /\ Accepts(r)
     /\ Stops(r) => Silent(r)
     /\ Tallied(h, g, ends, FALSE)
     /\ ~Stops(r) =>
          /\ Counted(h, g, FALSE, ends, FALSE)
          /\ r.state.headers = s.headers
          /\ r.state.headers_sent = s.headers_sent
          /\ r.state.deferred = s.deferred
          /\ r.state.filters_executed = s.filters_executed

\* process_streamed_body_chunk answers with the chunk.
LEMMA StreamedChunkCounted ==
  ASSUME NEW c \in ChainType, NEW s \in LiveState, NEW f \in Outcomes, NEW m \in MessageType,
         ~MissingHeaders(s, m.side)
  PROVE  LET r == ProcessStreamedBodyChunk(c, s, f, m)
         IN /\ StreamedEffect(c, s, r, m.side, m.eos)
            /\ ~Stops(r) =>
                 \E some \in BOOLEAN, len \in Nat, held \in Nat, mutation \in Mutations :
                   r.out = BodyResponses(m.side, some, len, held, mutation, s.mode[m.side], m.eos)
<1> DEFINE side == m.side
           eos == m.eos
           chunk == ChunkLen(s, m)
           len == BodyFilterLen(c, side, f, chunk, eos)
           kept == BufferResponseChunk(s, m)
           u == Hydrate(kept)
           ran == RunBodyFilters(c, u, side, f, chunk, eos)
           back == Dehydrate(ran.state, s, f, FALSE)
           some == len > 0 \/ m.len > 0
           b == BodyResponses(side, some, len, m.len, {}, s.mode[side], eos)
           full == Fail(Hydrate(s), "resource_exhausted")
           r == ProcessStreamedBodyChunk(c, s, f, m)
           Says2(o) == \E x \in BOOLEAN, n \in Nat, held \in Nat, mutation \in Mutations :
                         o = BodyResponses(side, x, n, held, mutation, s.mode[side], eos)
<1> SUFFICES StreamedEffect(c, s, r, side, eos) /\ (~Stops(r) => Says2(r.out))
  OBVIOUS
<1>1. /\ s \in StateType /\ s.carried_context # Drained
      /\ side \in Sides /\ m.len \in Nat /\ eos \in BOOLEAN /\ {} \in Mutations
  BY DEF LiveState, Live, MessageType, Mutations
<1>2. chunk \in Nat
  BY <1>1 DEF ChunkLen, WithheldTotal, StateType, Sides
<1>3. r = full \/ (r = ran /\ Stops(ran)) \/ (r = Reply(back, b) /\ ~Stops(ran))
  BY <1>1 DEF ProcessStreamedBodyChunk
<1>4. kept \in StateType /\ Inner(s, kept, side) /\ kept.hooks = s.hooks
      /\ kept.filters_executed = s.filters_executed
  <2>1. "response" \in Sides
    BY DEF Sides
  <2> DEFINE n == IF m.eos THEN 0 ELSE WithheldTotal(s, m)
  <2>2. n \in Nat
    BY <1>1, <2>1 DEF WithheldTotal, StateType
  <2>3. kept = s \/ kept = [s EXCEPT !.body["response"] = n]
    BY DEF BufferResponseChunk
  <2> HIDE DEF kept, n
  <2>4. [s EXCEPT !.body["response"] = n] \in StateType
    BY <1>1, <2>1, <2>2, SetBodyType
  <2>5. Inner(s, s, side) /\ Inner(s, [s EXCEPT !.body["response"] = n], side)
        /\ [s EXCEPT !.body["response"] = n].hooks = s.hooks
        /\ [s EXCEPT !.body["response"] = n].filters_executed = s.filters_executed
    BY <1>1 DEF StateType, Inner
  <2> QED
    BY <1>1, <2>3, <2>4, <2>5
<1> HIDE DEF kept, chunk
<1>5. len \in Nat /\ some \in BOOLEAN
  BY <1>1, <1>2, BodyFilterLenType
<1>6. Says2(b)
  BY <1>1, <1>5
<1> HIDE DEF len, some
<1>7. /\ u \in StateType /\ Inner(kept, u, side) /\ u.hooks = s.hooks
      /\ u.filters_executed = s.filters_executed
  BY <1>1, <1>4, HydrateType, InnerHydrate
<1> HIDE DEF u, side, eos
<1>8. ran.state \in StateType /\ BodyEffect(c, u, ran.state, side, eos)
  BY <1>1, <1>2, <1>7, BodyCallCounted, RunBodyFiltersType DEF ResultType
<1>9. Silent(ran) /\ Accepts(ran)
  BY <1>1, FiltersSilent, FiltersAccept
<1> HIDE DEF ran
<1>10. Inner(s, ran.state, side) /\ ran.state.filters_executed = s.filters_executed
       /\ Counted(s.hooks[side], ran.state.hooks[side], FALSE, eos /\ c.needs[side], FALSE)
       /\ Tallied(s.hooks[side], ran.state.hooks[side], eos /\ c.needs[side], FALSE)
  BY <1>1, <1>4, <1>7, <1>8, InnerTransitive DEF BodyEffect, Counted, Tallied
<1>11. Inner(ran.state, back, side) /\ back.hooks = ran.state.hooks
       /\ back.filters_executed = ran.state.filters_executed
  BY <1>8 DEF StateType, Dehydrate, Inner
<1> HIDE DEF back
<1>12. ASSUME r = full PROVE StreamedEffect(c, s, r, side, eos) /\ Stops(r)
  <2>1. /\ Hydrate(s) \in StateType /\ Inner(s, Hydrate(s), side)
        /\ Hydrate(s).hooks = s.hooks
    BY <1>1, HydrateType, InnerHydrate
  <2>2. r.state = Hydrate(s) /\ Stops(r) /\ Silent(r)
    BY <1>12, <2>1, WaysToStop, StopsSilent
  <2>3. Accepts(r)
    BY <1>12 DEF Fail, Accepts
  <2> HIDE DEF r
  <2> QED
    BY <1>1, <2>1, <2>2, <2>3, OuterTransitive DEF StreamedEffect, Tallied
<1>13. ASSUME r = ran, Stops(ran) PROVE StreamedEffect(c, s, r, side, eos) /\ Stops(r)
  <2> HIDE DEF r
  <2> QED
    BY <1>1, <1>9, <1>10, <1>13, OuterTransitive DEF StreamedEffect
<1>14. ASSUME r = Reply(back, b), ~Stops(ran)
       PROVE  StreamedEffect(c, s, r, side, eos) /\ Says2(r.out)
  <2>1. r.state = back /\ r.out = b /\ Accepts(r) /\ (Stops(r) => HasImmediate(b))
    BY <1>14, HookAccepts DEF Reply, Stops
  <2>2. ~HasImmediate(b)
    <3>1. s.mode[side] \in BodyModes
      BY <1>1 DEF StateType
    <3>2. /\ "trailers" \in WireStages
          /\ BodyStage(s.mode[side], eos) \in Peer!UpTo("headers", "trailers")
      BY RankOf DEF WireStages, BodyStage, Peer!UpTo
    <3>3. \A x \in BOOLEAN, n \in Nat, held \in Nat, mutation \in Mutations :
            Orderly(BodyResponses(side, x, n, held, mutation, s.mode[side], eos), side,
                    "headers", "trailers")
      BY <1>1, <3>1, <3>2, OrderlyBody
    <3>4. Orderly(b, side, "headers", "trailers")
      BY <1>6, <3>3
    <3> QED
      BY <3>4, OrderlyGoesOn
  <2>3. Inner(s, back, side)
    BY <1>1, <1>10, <1>11, InnerTransitive
  <2> HIDE DEF r, b, Says2
  <2>4. StreamedEffect(c, s, r, side, eos)
    BY <1>1, <1>10, <1>11, <2>1, <2>2, <2>3, OuterTransitive DEF StreamedEffect, Inner
  <2> QED
    BY <1>6, <2>1, <2>4
<1> HIDE DEF r
<1> QED
  BY <1>3, <1>12, <1>13, <1>14

\* flush_streamed_body_filters answers nothing.
LEMMA FlushCounted ==
  ASSUME NEW c \in ChainType, NEW s \in LiveState, NEW f \in Outcomes, NEW side \in Sides,
         ~MissingHeaders(s, side), NEW eos \in BOOLEAN, eos
  PROVE  LET r == FlushStreamedBodyFilters(c, s, f, side)
         IN StreamedEffect(c, s, r, side, eos) /\ (~Stops(r) => r.out = <<>>)
<1> DEFINE u == Hydrate(s)
           n == 0
           ran == RunBodyFilters(c, u, side, f, n, eos)
           back == Dehydrate(ran.state, s, f, FALSE)
           r == FlushStreamedBodyFilters(c, s, f, side)
<1> SUFFICES StreamedEffect(c, s, r, side, eos) /\ (~Stops(r) => r.out = <<>>)
  OBVIOUS
<1>1. s \in StateType /\ s.carried_context # Drained /\ n \in Nat
  BY DEF LiveState, Live
<1>2. /\ r = Reply(s, <<Immediate>>) \/ (r = ran /\ Stops(ran)) \/ r = Reply(back, ran.out)
  BY <1>1 DEF FlushStreamedBodyFilters, Stops
<1>3. /\ u \in StateType /\ Inner(s, u, side) /\ u.hooks = s.hooks
      /\ u.filters_executed = s.filters_executed
  BY <1>1, HydrateType, InnerHydrate
<1> HIDE DEF u, n
<1>4. ran.state \in StateType /\ BodyEffect(c, u, ran.state, side, eos)
  BY <1>1, <1>3, BodyCallCounted, RunBodyFiltersType DEF ResultType
<1>5. Silent(ran) /\ Accepts(ran)
  BY FiltersSilent, FiltersAccept
<1> HIDE DEF ran
<1>6. Inner(s, ran.state, side) /\ ran.state.filters_executed = s.filters_executed
      /\ Counted(s.hooks[side], ran.state.hooks[side], FALSE, eos /\ c.needs[side], FALSE)
      /\ Tallied(s.hooks[side], ran.state.hooks[side], eos /\ c.needs[side], FALSE)
  BY <1>3, <1>4, InnerTransitive DEF BodyEffect, Counted, Tallied
<1>7. Inner(ran.state, back, side) /\ back.hooks = ran.state.hooks
      /\ back.filters_executed = ran.state.filters_executed
  BY <1>4 DEF StateType, Dehydrate, Inner
<1> HIDE DEF back
<1>8. ASSUME r = Reply(s, <<Immediate>>) PROVE StreamedEffect(c, s, r, side, eos) /\ Stops(r)
  <2>1. r.state = s /\ Stops(r) /\ Silent(r) /\ Accepts(r)
    BY <1>1, <1>8, WaysToStop, StopsSilent, HookAccepts
  <2>2. Outer(s, s, side)
    BY DEF Outer
  <2> HIDE DEF r
  <2> QED
    BY <2>1, <2>2 DEF StreamedEffect, Tallied
<1>9. ASSUME r = ran, Stops(ran) PROVE StreamedEffect(c, s, r, side, eos) /\ Stops(r)
  <2> HIDE DEF r
  <2> QED
    BY <1>5, <1>6, <1>9, OuterTransitive DEF StreamedEffect
<1>10. ASSUME r = Reply(back, ran.out)
       PROVE  StreamedEffect(c, s, r, side, eos) /\ (~Stops(r) => r.out = <<>>)
  <2>1. r.state = back /\ r.out = ran.out /\ Accepts(r)
    BY <1>10, HookAccepts DEF Reply
  <2>2. Silent(r) /\ (~Stops(r) => r.out = <<>>)
    <3>1. Stops(r) \/ r.out # <<Immediate>>
      BY DEF Stops, HasImmediate, IsImmediate, Immediate, Plain
    <3> QED
      BY <1>5, <2>1, <3>1 DEF Silent
  <2>3. Inner(s, back, side)
    BY <1>6, <1>7, InnerTransitive
  <2> HIDE DEF r
  <2> QED
    BY <1>6, <1>7, <2>1, <2>2, <2>3, OuterTransitive DEF StreamedEffect, Inner
<1> QED
  BY <1>2, <1>8, <1>9, <1>10

-----------------------------------------------------------------------------
(* What the peer of a waiting stream has received.                          *)

\* Neither the headers nor the body of the direction ended it.
Unended(s, side) == ~s.eos[side].headers /\ ~s.eos[side].body

Pending(s, side) == s.order[side] \in {Headers, Body} /\ Unended(s, side)

\* The stage of the last message of a direction.
Asking(s, side) ==
  CASE s.order[side] = Unseen -> "none"
    [] s.order[side] = Headers -> "headers"
    [] s.order[side] = Body -> IF s.eos[side].body THEN "final" ELSE "body"
    [] OTHER -> "trailers"

\* No answer is out of order or ahead of its message, and trailers are answered.
Reached(s, w, side) ==
  /\ ~w.disordered
  /\ s.order[side] = Unseen => w.stage = "none"
  /\ s.order[side] = Headers => w.stage \in {"none", "headers"}
  /\ s.order[side] = Body => w.stage \in {"none", "headers", "body", "final"}
  /\ s.order[side] = Trailers => w.stage = "trailers"
  /\ w.stage = "final" => s.eos[side].body

\* While a direction is open its mode decides what has been answered: all that was
\* received, or, in FULL_DUPLEX_STREAMED, nothing until the filters are done with it.
\* Selected-upstream filters leave BUFFERED as the only mode.
Current(c, s, w, side) ==
  /\ s.headers[side]
  /\ s.mode[side] # "fds" => w.stage \in {"headers", "body"}
  /\ s.mode[side] = "fds" /\ c.needs[side] => w.stage = "none"
  /\ s.mode[side] = "fds" /\ ~c.needs[side] /\ s.headers_sent[side] =>
       w.stage \in {"headers", "body"}
  /\ s.mode[side] = "fds" /\ ~c.needs[side] /\ ~s.headers_sent[side] => w.stage = "none"
  /\ s.mode[side] = "streamed" => s.headers_sent[side]
  /\ side = "request" /\ c.selected => s.mode[side] = "buffered"
  /\ side = "request" /\ s.mode[side] = "buffered" /\ ~s.buffered_request_body_processed =>
       w.stage = "headers"
  /\ s.hooks[side].mutated => s.filters_executed[side]

\* What the header filters asked for is parked where a later message takes it along.
Parked(c, s, side) ==
  /\ "filter" \in s.deferred[side]
  /\ \/ side = "response" /\ s.mode[side] = "buffered"
     \/ s.mode[side] = "fds" /\ ~c.needs[side] /\ ~s.headers_sent[side]

\* It is on its way, or was dropped with a BUFFERED body that trailers closed.
Owing(c, s, w, side) ==
  s.hooks[side].mutated /\ ~w.mutated =>
    \/ Pending(s, side) /\ Parked(c, s, side)
    \/ s.order[side] = Trailers /\ s.mode[side] = "buffered"

Wired(c, s, w, side) ==
  /\ Reached(s, w, side)
  /\ s.order[side] # Trailers /\ ~Unended(s, side) => w.stage # "none"
  /\ Pending(s, side) => Current(c, s, w, side)
  /\ Owing(c, s, w, side)
  /\ s.order[side] = Unseen =>
       /\ ~s.hooks[side].mutated
       /\ s.hooks[side].selected = 0
       /\ Unended(s, side)
       /\ ~s.headers_sent[side]

\* A message that ends a direction in order,
LEMMA WiredEnded ==
  ASSUME NEW c, NEW s, NEW w, NEW side, s.order[side] \in {Headers, Body}, ~w.disordered,
         ~Unended(s, side), w.stage \in {"headers", "body", "final"},
         s.order[side] = Headers => w.stage = "headers",
         w.stage = "final" => s.eos[side].body,
         s.hooks[side].mutated => w.mutated
  PROVE  Wired(c, s, w, side)
BY DEF Wired, Reached, Pending, Owing, Unseen, Headers, Body, Trailers

\* one that leaves it open,
LEMMA WiredOpen ==
  ASSUME NEW c, NEW s, NEW w, NEW side, s.order[side] \in {Headers, Body}, ~w.disordered,
         Unended(s, side), w.stage \in {"none", "headers", "body"},
         s.order[side] = Headers => w.stage # "body",
         Current(c, s, w, side),
         s.hooks[side].mutated /\ ~w.mutated => Parked(c, s, side)
  PROVE  Wired(c, s, w, side)
BY DEF Wired, Reached, Pending, Owing, Unseen, Headers, Body, Trailers

\* and trailers.
LEMMA WiredTrailers ==
  ASSUME NEW c, NEW s, NEW w, NEW side, s.order[side] = Trailers, ~w.disordered,
         w.stage = "trailers",
         s.hooks[side].mutated => w.mutated \/ s.mode[side] = "buffered"
  PROVE  Wired(c, s, w, side)
BY DEF Wired, Reached, Pending, Owing, Unseen, Headers, Body, Trailers

\* The stages that were asked for.
LEMMA AskingType ==
  ASSUME NEW s \in StateType, NEW side \in Sides
  PROVE  /\ Asking(s, side) \in WireStages
         /\ s.order[side] = Headers => Asking(s, side) = "headers"
         /\ s.order[side] = Body /\ s.eos[side].body => Asking(s, side) = "final"
         /\ s.order[side] = Body /\ ~s.eos[side].body => Asking(s, side) = "body"
         /\ s.order[side] = Trailers => Asking(s, side) = "trailers"
         /\ s.order[side] = Unseen => Asking(s, side) = "none"
<1>1. s.order[side] \in {Unseen, Headers, Body, Trailers}
  BY DEF StateType, Steps
<1> QED
  BY <1>1 DEF Asking, WireStages, Unseen, Headers, Body, Trailers

\* When a phase of a direction that has its headers comes in.
Ready(c, s, w, side) ==
  /\ ~w.disordered
  /\ w.stage \in {"none", "headers", "body", "final"}
  /\ w.stage = "final" => s.eos[side].body
  /\ Unended(s, side) => Current(c, s, w, side)
  /\ ~Unended(s, side) => w.stage # "none"
  /\ s.hooks[side].mutated /\ ~w.mutated => Unended(s, side) /\ Parked(c, s, side)
  /\ side = "request" /\ s.buffered_request_body_processed => s.mode[side] = "buffered"

\* A message of one direction moves nothing of the other.
Beside(s, t, side) ==
  /\ t.order = s.order
  /\ t.local_reply = s.local_reply
  /\ t.mode["request"] = s.mode["request"]
  /\ s.eos[side].body => t.eos[side].body
  /\ side = "response" =>
       t.buffered_request_body_processed = s.buffered_request_body_processed
  /\ t.buffered_request_body_processed =>
       s.buffered_request_body_processed \/ s.mode["request"] = "buffered"
  /\ \A o \in Sides \ {side} :
       /\ t.eos[o] = s.eos[o]
       /\ t.headers[o] = s.headers[o]
       /\ t.headers_sent[o] = s.headers_sent[o]
       /\ t.deferred[o] = s.deferred[o]
       /\ t.hooks[o] = s.hooks[o]
       /\ t.filters_executed[o] = s.filters_executed[o]

\* A message that the end-of-stream state of its direction does not rule out.
Expected(s, side) == Unended(s, side) \/ (s.mode[side] = "fds" /\ s.eos[side].body)

\* What a handler does: the calls that are due and an answer in order.
Handed(c, s, r, side, w, ends, selects) ==
  LET t == r.state
      h == s.hooks[side]
      g == t.hooks[side]
  IN /\ Beside(s, t, side)
     /\ Expected(s, side) => Accepts(r)
     /\ Stops(r) => Silent(r)
     /\ Tallied(h, g, ends, selects)
     /\ ~Stops(r) =>
          /\ Orderly(r.out, side, w.stage, Asking(t, side))
          /\ Wired(c, t, Received(w, r.out), side)
          /\ ends => g.eos = More(h.eos)
          /\ selects => g.selected = More(h.selected)

\* Marks of a message before anything is run: the end of a body, its bytes and that it
\* was received.
Noted(s, t, side) ==
  /\ t.order = s.order
  /\ t.local_reply = s.local_reply
  /\ t.mode = s.mode
  /\ t.headers = s.headers
  /\ t.headers_sent = s.headers_sent
  /\ t.deferred = s.deferred
  /\ t.filters_executed = s.filters_executed
  /\ t.hooks = s.hooks
  /\ side = "response" =>
       t.buffered_request_body_processed = s.buffered_request_body_processed
  /\ t.buffered_request_body_processed =>
       s.buffered_request_body_processed \/ s.mode["request"] = "buffered"
  /\ t.eos[side].headers = s.eos[side].headers
  /\ s.eos[side].body => t.eos[side].body
  /\ \A o \in Sides \ {side} : t.eos[o] = s.eos[o]

\* Marks and what follows them stay beside the other direction.
LEMMA NotedBeside ==
  ASSUME NEW s, NEW t, NEW u, NEW side \in Sides, Noted(s, t, side)
  PROVE  /\ Beside(s, t, side)
         /\ Outer(t, u, side) => Beside(s, u, side)
         /\ Noted(t, u, side) => Noted(s, u, side)
BY DEF Noted, Outer, Beside, Sides

\* The marks of a body message and of trailers.
LEMMA MarksNoted ==
  ASSUME NEW s \in StateType, NEW m \in MessageType, NEW side \in Sides
  PROVE  /\ Noted(s, s, side)
         /\ Noted(s, MarkBody(s, m), m.side)
         /\ MarkBody(s, m).eos[m.side].body <=> s.eos[m.side].body \/ m.eos
         /\ Noted(s, CloseBody(s, side), side)
         /\ CloseBody(s, side).eos[side].body
         /\ CloseBody(s, side).buffered_request_body_processed =
              s.buffered_request_body_processed
         /\ MarkBody(s, m).buffered_request_body_processed = s.buffered_request_body_processed
<1>1. m.side \in Sides /\ m.eos \in BOOLEAN
  BY DEF MessageType
<1>2. \A d \in Sides : s.eos[d] \in EosType
  BY DEF StateType
<1>3. ASSUME NEW e \in EosType, NEW b \in BOOLEAN
      PROVE  BodyEnds(e, b).headers = e.headers /\ (BodyEnds(e, b).body <=> e.body \/ b)
  BY DEF EosType, BodyEnds
<1>4. ASSUME NEW d \in Sides, NEW x
      PROVE  LET t == [s EXCEPT !.eos[d] = x]
             IN /\ t.eos[d] = x
                /\ \A o \in Sides \ {d} : t.eos[o] = s.eos[o]
                /\ t.order = s.order /\ t.local_reply = s.local_reply /\ t.mode = s.mode
                /\ t.headers = s.headers /\ t.headers_sent = s.headers_sent
                /\ t.deferred = s.deferred /\ t.filters_executed = s.filters_executed
                /\ t.hooks = s.hooks
                /\ t.buffered_request_body_processed = s.buffered_request_body_processed
  BY DEF StateType
<1>5. Noted(s, s, side)
  BY DEF Noted
<1>6. ASSUME NEW d \in Sides, NEW b \in BOOLEAN
      PROVE  LET t == [s EXCEPT !.eos[d] = BodyEnds(@, b)]
             IN /\ Noted(s, t, d) /\ (t.eos[d].body <=> s.eos[d].body \/ b)
                /\ t.buffered_request_body_processed = s.buffered_request_body_processed
  <2> DEFINE x == BodyEnds(s.eos[d], b)
             t == [s EXCEPT !.eos[d] = x]
  <2>1. x.headers = s.eos[d].headers /\ (x.body <=> s.eos[d].body \/ b)
    BY <1>2, <1>3
  <2> HIDE DEF x
  <2>2. /\ t.eos[d] = x
        /\ \A o \in Sides \ {d} : t.eos[o] = s.eos[o]
        /\ t.order = s.order /\ t.local_reply = s.local_reply /\ t.mode = s.mode
        /\ t.headers = s.headers /\ t.headers_sent = s.headers_sent
        /\ t.deferred = s.deferred /\ t.filters_executed = s.filters_executed
        /\ t.hooks = s.hooks
        /\ t.buffered_request_body_processed = s.buffered_request_body_processed
    BY <1>4
  <2> HIDE DEF t
  <2>3. Noted(s, t, d) /\ (t.eos[d].body <=> s.eos[d].body \/ b)
    BY <2>1, <2>2 DEF Noted
  <2>4. [s EXCEPT !.eos[d] = BodyEnds(@, b)] = t
    BY DEF t, x
  <2> QED
    BY <2>2, <2>3, <2>4
<1>7. /\ Noted(s, MarkBody(s, m), m.side)
      /\ MarkBody(s, m).eos[m.side].body <=> s.eos[m.side].body \/ m.eos
      /\ MarkBody(s, m).buffered_request_body_processed = s.buffered_request_body_processed
  BY <1>1, <1>6 DEF MarkBody
<1>8. /\ Noted(s, CloseBody(s, side), side)
      /\ CloseBody(s, side).eos[side].body
      /\ CloseBody(s, side).buffered_request_body_processed = s.buffered_request_body_processed
  <2>1. ASSUME NEW b \in BOOLEAN, b
        PROVE  LET t == [s EXCEPT !.eos[side] = BodyEnds(@, b)]
               IN /\ Noted(s, t, side) /\ t.eos[side].body
                  /\ t.buffered_request_body_processed = s.buffered_request_body_processed
    BY <1>6, <2>1
  <2> QED
    BY <2>1 DEF CloseBody
<1> QED
  BY <1>5, <1>7, <1>8

-----------------------------------------------------------------------------
(* What handlers do and say.                                                *)

\* passthrough_chunk sends the parked headers response, if it was not sent before,
\* and the chunk.
PassedOn(s, r, m, from, to) ==
  LET side == m.side
      t == r.state
  IN /\ Outer(s, t, side)
     /\ t.hooks = s.hooks
     /\ t.headers = s.headers
     /\ t.filters_executed = s.filters_executed
     /\ t.headers_sent[side]
     /\ Accepts(r)
     /\ ~Stops(r)
     /\ Orderly(r.out, side, from, to)
     /\ After(r.out, from) = BodyStage(s.mode[side], m.eos)
     /\ ~s.headers_sent[side] /\ "filter" \in s.deferred[side] => Carries(r.out)

\* What take_first_chunk leaves, and the headers response it sends.
TookFirst(s, t, o, side, from, to) ==
  /\ Outer(s, t, side)
  /\ t.hooks = s.hooks
  /\ t.headers = s.headers
  /\ t.filters_executed = s.filters_executed
  /\ t.headers_sent[side]
  /\ o \in Seq(ResponseType)
  /\ Orderly(o, side, from, to)
  /\ s.headers_sent[side] => After(o, from) = from
  /\ ~s.headers_sent[side] => After(o, from) = "headers"
  /\ ~s.headers_sent[side] /\ "filter" \in s.deferred[side] => Carries(o)

\* take_first_chunk.
LEMMA DeferredOrderly ==
  ASSUME NEW s \in StateType, NEW side \in Sides, NEW from, NEW to \in WireStages \ {"none"},
         s.headers_sent[side] => from \in {"headers", "body"},
         ~s.headers_sent[side] => from = "none"
  PROVE  TookFirst(s, SendDeferredHeaders(s, side), DeferredHeaders(s, side), side, from, to)
<1> DEFINE t == SendDeferredHeaders(s, side)
           o == DeferredHeaders(s, side)
           mu == s.deferred[side]
<1> SUFFICES TookFirst(s, t, o, side, from, to)
  OBVIOUS
<1>1. /\ Outer(s, t, side) /\ t.hooks = s.hooks /\ t.headers = s.headers
      /\ t.filters_executed = s.filters_executed /\ t.headers_sent[side]
  BY DEF StateType, SendDeferredHeaders, Outer
<1>2. mu \in Mutations
  BY DEF StateType
<1>3. CASE s.headers_sent[side]
  <2>1. o = <<>>
    BY <1>3 DEF DeferredHeaders
  <2>2. o \in Seq(ResponseType) /\ Orderly(o, side, from, to) /\ After(o, from) = from
    BY <2>1, OrderlyNothing
  <2> HIDE DEF t, o
  <2> QED
    BY <1>1, <1>3, <2>2 DEF TookFirst
<1>4. CASE ~s.headers_sent[side]
  <2>1. o = <<HeadersResponse(side, mu)>>
    BY <1>4 DEF DeferredHeaders, DeferredHeaderResponse
  <2>2. LET q == <<HeadersResponse(side, mu)>>
        IN /\ q \in Seq(ResponseType)
           /\ Orderly(q, side, "none", to)
           /\ After(q, "none") = "headers"
           /\ "filter" \in mu => Carries(q)
    BY <1>2, OrderlyHeaders
  <2>3. /\ o \in Seq(ResponseType) /\ Orderly(o, side, from, to) /\ After(o, from) = "headers"
        /\ "filter" \in mu => Carries(o)
    BY <1>4, <2>1, <2>2
  <2> HIDE DEF t, o
  <2> QED
    BY <1>1, <1>4, <2>3 DEF TookFirst
<1> QED
  BY <1>3, <1>4

\* passthrough_chunk.
LEMMA PassthroughOrderly ==
  ASSUME NEW s \in StateType, NEW m \in MessageType, NEW from, NEW to \in WireStages,
         s.headers_sent[m.side] => from \in {"headers", "body"},
         ~s.headers_sent[m.side] => from = "none",
         BodyStage(s.mode[m.side], m.eos) \in Peer!UpTo("body", to)
  PROVE  PassedOn(s, PassthroughChunk(s, m), m, from, to)
<1> DEFINE side == m.side
           mode == s.mode[side]
           eos == m.eos
           some == m.len > 0
           none == {}
           h == DeferredHeaders(s, side)
           b == BodyResponses(side, some, m.len, m.len, none, mode, eos)
           t == SendDeferredHeaders(s, side)
           r == PassthroughChunk(s, m)
           mid == After(h, from)
<1> SUFFICES PassedOn(s, r, m, from, to)
  OBVIOUS
<1>1. /\ side \in Sides /\ mode \in BodyModes /\ eos \in BOOLEAN /\ some \in BOOLEAN
      /\ m.len \in Nat /\ none \in Mutations /\ from \in WireStages
      /\ s.headers_sent[side] => from \in {"headers", "body"}
      /\ ~s.headers_sent[side] => from = "none"
      /\ BodyStage(mode, eos) \in Peer!UpTo("body", to)
  BY DEF MessageType, StateType, Mutations, WireStages
<1>2. r.state = t /\ r.out = h \o b /\ r.err = "none"
  BY DEF PassthroughChunk, Reply
<1>3. BodyStage(mode, eos) \in WireStages /\ "body" \in WireStages
  BY DEF BodyStage, WireStages
<1>4. to # "none"
  BY <1>1, <1>3, RankOf, UpToOrder
<1> HIDE DEF some, none, side, eos, mode
<1>5. TookFirst(s, t, h, side, from, to)
  BY <1>1, <1>4, DeferredOrderly
<1>6. h \in Seq(ResponseType) /\ Orderly(h, side, from, to) /\ mid \in {"headers", "body"}
  BY <1>1, <1>5 DEF TookFirst
<1> HIDE DEF h, t, mid
<1>7. BodyStage(mode, eos) \in Peer!UpTo(mid, to)
  <2>1. mid \in WireStages /\ Peer!Rank[mid] <= Peer!Rank["body"]
    BY <1>6, RankOf DEF WireStages
  <2> QED
    BY <1>1, <1>3, <2>1, RankOf, UpToOrder
<1>8. b \in Seq(ResponseType) /\ Orderly(b, side, mid, to) /\ After(b, mid) = BodyStage(mode, eos)
  BY <1>1, <1>6, <1>7, OrderlyBody
<1> HIDE DEF b
<1>9. /\ Orderly(h \o b, side, from, to)
      /\ After(h \o b, from) = BodyStage(mode, eos)
      /\ Carries(h) => Carries(h \o b)
  BY <1>1, <1>6, <1>8, OrderlyBoth DEF mid
<1>10. ~Stops(r) /\ Accepts(r)
  BY <1>2, <1>9, OrderlyGoesOn DEF Stops, Accepts
<1> HIDE DEF r
<1> QED
  BY <1>2, <1>5, <1>9, <1>10 DEF PassedOn, TookFirst, side, mode, eos

\* A handler that ends the stream has called no more than was due.
LEMMA HandedByStop ==
  ASSUME NEW c, NEW s, NEW r, NEW side, NEW w, NEW ends, NEW selects,
         Beside(s, r.state, side), Expected(s, side) => Accepts(r), Silent(r), Stops(r),
         Tallied(s.hooks[side], r.state.hooks[side], ends, selects)
  PROVE  Handed(c, s, r, side, w, ends, selects)
BY DEF Handed

\* One that refuses a message, or rejects it at once, has called nothing.
LEMMA HandedAtOnce ==
  ASSUME NEW c, NEW s, NEW t \in StateType, NEW side \in Sides, NEW w, NEW ends, NEW selects,
         Beside(s, t, side), t.hooks = s.hooks
  PROVE  /\ Handed(c, s, Reply(t, <<Immediate>>), side, w, ends, selects)
         /\ Handed(c, s, Fail(t, "resource_exhausted"), side, w, ends, selects)
         /\ ~Expected(s, side) =>
              Handed(c, s, Fail(t, "invalid_argument"), side, w, ends, selects)
<1> DEFINE a == Reply(t, <<Immediate>>)
           b == Fail(t, "resource_exhausted")
           d == Fail(t, "invalid_argument")
<1>1. /\ a.state = t /\ Stops(a) /\ Silent(a) /\ Accepts(a)
      /\ b.state = t /\ Stops(b) /\ Silent(b)
      /\ d.state = t /\ Stops(d) /\ Silent(d)
  BY WaysToStop, StopsSilent, HookAccepts
<1>2. Accepts(b)
  BY DEF Accepts, Fail
<1>3. Tallied(s.hooks[side], t.hooks[side], ends, selects)
  BY DEF Tallied
<1> HIDE DEF a, b, d
<1>4. /\ Handed(c, s, a, side, w, ends, selects)
      /\ Handed(c, s, b, side, w, ends, selects)
      /\ ~Expected(s, side) => Handed(c, s, d, side, w, ends, selects)
  BY <1>1, <1>2, <1>3, HandedByStop
<1> QED
  BY <1>4 DEF a, b, d

\* What has been received after no answer.
LEMMA ReceivedNothing ==
  ASSUME NEW w \in WireType
  PROVE  Received(w, <<>>) = w
BY OrderlyNothing DEF Received, WireType

\* A handler that answers nothing and calls nothing.
LEMMA HandedQuiet ==
  ASSUME NEW c, NEW s, NEW t \in StateType, NEW side \in Sides, NEW w \in WireType,
         NEW ends, NEW selects, ~ends, ~selects,
         Beside(s, t, side), t.hooks = s.hooks, Wired(c, t, w, side)
  PROVE  Handed(c, s, Reply(t, <<>>), side, w, ends, selects)
<1> DEFINE r == Reply(t, <<>>)
<1>1. r.state = t /\ r.out = <<>> /\ Accepts(r)
  BY HookAccepts DEF Reply
<1>2. ~Stops(r)
  BY DEF Reply, Stops, HasImmediate
<1>3. Orderly(<<>>, side, w.stage, Asking(t, side)) /\ Received(w, <<>>) = w
  BY OrderlyNothing, ReceivedNothing
<1>4. Tallied(s.hooks[side], t.hooks[side], ends, selects)
  BY DEF Tallied
<1> HIDE DEF r
<1>5. Handed(c, s, r, side, w, ends, selects)
  BY <1>1, <1>2, <1>3, <1>4 DEF Handed
<1> QED
  BY <1>5 DEF r

\* A body message of a direction that is open, once its marks are made.
BodyTurn(c, s, t, m, w) ==
  /\ s.order[m.side] = Body
  /\ s.mode[m.side] # "none"
  /\ Unended(s, m.side)
  /\ Ready(c, s, w, m.side)
  /\ Noted(s, t, m.side)
  /\ t.eos[m.side].body <=> m.eos

\* What the answer to it may reach.
Turned(s, u, m) ==
  LET side == m.side
  IN /\ Beside(s, u, side)
     /\ u.order[side] = Body
     /\ u.mode = s.mode
     /\ u.eos[side].body <=> m.eos
     /\ Unended(u, side) <=> ~m.eos
     /\ Asking(u, side) \in WireStages
     /\ m.eos => Asking(u, side) = "final"
     /\ ~m.eos => Asking(u, side) = "body"
     /\ BodyStage(s.mode[side], m.eos) \in Peer!UpTo("body", Asking(u, side))

\* It may be answered as a body that ended, or did not.
LEMMA TurnAsks ==
  ASSUME NEW c, NEW s \in StateType, NEW t \in StateType, NEW m \in MessageType, NEW w,
         NEW u, BodyTurn(c, s, t, m, w), Outer(t, u, m.side)
  PROVE  Turned(s, u, m)
<1> DEFINE side == m.side
<1>1. side \in Sides /\ m.eos \in BOOLEAN
  BY DEF MessageType
<1>2. /\ Noted(s, t, side) /\ Unended(s, side) /\ (t.eos[side].body <=> m.eos)
      /\ s.order[side] = Body
  BY DEF BodyTurn
<1>3. Beside(s, u, side)
  BY <1>1, <1>2, NotedBeside
<1>4. u.order = t.order /\ u.eos = t.eos /\ u.mode = t.mode /\ u.order[side] = Body
      /\ u.mode = s.mode
  BY <1>2 DEF Outer, Noted
<1>5. t.eos[side].headers = s.eos[side].headers
  BY <1>2 DEF Noted
<1>6. Unended(u, side) <=> ~m.eos
  BY <1>2, <1>4, <1>5 DEF Unended
<1>7. Asking(u, side) = Asking(t, side) /\ t.order[side] = Body
  BY <1>4 DEF Asking
<1>8. /\ Asking(u, side) \in WireStages
      /\ m.eos => Asking(u, side) = "final"
      /\ ~m.eos => Asking(u, side) = "body"
  BY <1>1, <1>2, <1>7, AskingType
<1>9. BodyStage(s.mode[side], m.eos) \in Peer!UpTo("body", Asking(u, side))
  BY <1>1, <1>8, RankOf DEF BodyStage, Peer!UpTo, WireStages
<1> QED
  BY <1>2, <1>3, <1>4, <1>6, <1>8, <1>9 DEF Turned

\* An answer in order, with what the header filters asked for, leaves the direction
\* in order.
LEMMA TurnWired ==
  ASSUME NEW c, NEW s \in StateType, NEW m \in MessageType, NEW w \in WireType, NEW u,
         NEW o, Turned(s, u, m), ~w.disordered,
         After(o, w.stage) = BodyStage(s.mode[m.side], m.eos),
         ~m.eos => Current(c, u, Received(w, o), m.side),
         u.hooks[m.side].mutated => w.mutated \/ Carries(o)
  PROVE  Wired(c, u, Received(w, o), m.side)
<1> DEFINE side == m.side
           x == Received(w, o)
<1>1. x.stage = BodyStage(s.mode[side], m.eos) /\ ~x.disordered
      /\ (x.mutated <=> w.mutated \/ Carries(o))
  BY DEF Received, WireType
<1>2. /\ x.stage \in {"body", "final"}
      /\ x.stage = "final" => m.eos
  BY <1>1 DEF BodyStage
<1> HIDE DEF x
<1>3. u.order[side] = Body /\ (u.eos[side].body <=> m.eos) /\ (Unended(u, side) <=> ~m.eos)
  BY DEF Turned
<1>4. /\ u.order[side] \in {Headers, Body} /\ u.order[side] # Headers
      /\ u.hooks[side].mutated => x.mutated
  BY <1>1, <1>3 DEF Headers, Body
<1>5. CASE m.eos
  <2>1. /\ ~Unended(u, side) /\ x.stage \in {"headers", "body", "final"}
        /\ u.order[side] = Headers => x.stage = "headers"
        /\ x.stage = "final" => u.eos[side].body
    BY <1>2, <1>3, <1>4, <1>5
  <2>2. Wired(c, u, x, side)
    BY <1>1, <1>4, <2>1, WiredEnded
  <2> QED
    BY <2>2 DEF x
<1>6. CASE ~m.eos
  <2>1. Current(c, u, x, side)
    BY <1>6 DEF x
  <2>2. Wired(c, u, x, side)
    BY <1>1, <1>2, <1>3, <1>4, <1>6, <2>1, WiredOpen
  <2> QED
    BY <2>2 DEF x
<1> QED
  BY <1>5, <1>6

\* A STREAMED chunk that goes through the body filters.
LEMMA StreamedHanded ==
  ASSUME NEW c \in ChainType, NEW s \in StateType, NEW t \in LiveState, NEW f \in Outcomes,
         NEW m \in MessageType, NEW w \in WireType, BodyTurn(c, s, t, m, w),
         ~MissingHeaders(t, m.side), s.mode[m.side] = "streamed",
         NEW ends, NEW selects, ends <=> m.eos /\ c.needs[m.side], ~selects
  PROVE  Handed(c, s, ProcessStreamedBodyChunk(c, t, f, m), m.side, w, ends, selects)
<1> DEFINE side == m.side
           r == ProcessStreamedBodyChunk(c, t, f, m)
           u == r.state
           h == s.hooks[side]
<1> SUFFICES Handed(c, s, r, side, w, ends, selects)
  OBVIOUS
<1>1. side \in Sides /\ m.eos \in BOOLEAN /\ t \in StateType
  BY DEF MessageType, LiveState
<1>2. /\ StreamedEffect(c, t, r, side, m.eos)
      /\ ~Stops(r) => \E some \in BOOLEAN, len \in Nat, held \in Nat, mutation \in Mutations :
           r.out = BodyResponses(side, some, len, held, mutation, t.mode[side], m.eos)
  BY StreamedChunkCounted
<1> HIDE DEF r
<1>3. Turned(s, u, m)
  BY <1>1, <1>2, TurnAsks DEF StreamedEffect
<1>4. Noted(s, t, side) /\ Ready(c, s, w, side) /\ Unended(s, side)
  BY DEF BodyTurn
<1>5. t.hooks = s.hooks /\ t.mode = s.mode /\ t.headers = s.headers
      /\ t.headers_sent = s.headers_sent /\ t.filters_executed = s.filters_executed
  BY <1>4 DEF Noted
<1>6. Tallied(h, u.hooks[side], ends, selects)
  BY <1>2, <1>5 DEF StreamedEffect, Tallied
<1>7. CASE Stops(r)
  BY <1>2, <1>3, <1>6, <1>7, HandedByStop DEF StreamedEffect, Turned
<1>8. CASE ~Stops(r)
  <2>1. /\ Counted(h, u.hooks[side], FALSE, m.eos /\ c.needs[side], FALSE)
        /\ u.headers = s.headers /\ u.headers_sent = s.headers_sent
        /\ u.filters_executed = s.filters_executed
    BY <1>2, <1>5, <1>8 DEF StreamedEffect
  <2>2. Current(c, s, w, side) /\ w.stage \in {"headers", "body"} /\ ~w.disordered
    BY <1>4 DEF Ready, Current
  <2>3. BodyStage(s.mode[side], m.eos) \in Peer!UpTo(w.stage, Asking(u, side))
    BY <1>3, <2>2, RankOf DEF Turned, BodyStage, Peer!UpTo, WireStages
  <2>4. PICK some \in BOOLEAN, len \in Nat, held \in Nat, mutation \in Mutations :
          r.out = BodyResponses(side, some, len, held, mutation, s.mode[side], m.eos)
    BY <1>2, <1>5, <1>8
  <2>5. Orderly(r.out, side, w.stage, Asking(u, side))
        /\ After(r.out, w.stage) = BodyStage(s.mode[side], m.eos)
    <3>1. s.mode[side] \in BodyModes /\ Asking(u, side) \in WireStages
      BY <1>1, <1>3 DEF StateType, Turned
    <3> QED
      BY <1>1, <2>2, <2>3, <2>4, <3>1, OrderlyBody
  <2>6. u.hooks[side].mutated => w.mutated
    BY <1>4, <2>1 DEF Ready, Parked, Counted
  <2>7. ASSUME ~m.eos PROVE Current(c, u, Received(w, r.out), side)
    <3>1. Received(w, r.out).stage = "body" /\ u.mode = s.mode
      BY <1>3, <2>5 DEF Received, BodyStage, Turned
    <3> QED
      BY <2>1, <2>2, <3>1 DEF Current, Counted
  <2>8. Wired(c, u, Received(w, r.out), side)
    BY <1>3, <2>2, <2>5, <2>6, <2>7, TurnWired
  <2>9. Beside(s, u, side) /\ Accepts(r)
    BY <1>2, <1>3 DEF StreamedEffect, Turned
  <2> QED
    BY <1>6, <1>8, <2>1, <2>5, <2>8, <2>9 DEF Handed, Counted
<1> QED
  BY <1>7, <1>8

\* A chunk that no filter sees.
LEMMA PassthroughHanded ==
  ASSUME NEW c \in ChainType, NEW s \in StateType, NEW t \in StateType,
         NEW m \in MessageType, NEW w \in WireType, BodyTurn(c, s, t, m, w),
         s.mode[m.side] \in {"streamed", "fds"}, ~c.needs[m.side],
         NEW ends, NEW selects, ~ends, ~selects
  PROVE  Handed(c, s, PassthroughChunk(t, m), m.side, w, ends, selects)
<1> DEFINE side == m.side
           r == PassthroughChunk(t, m)
           u == r.state
           h == s.hooks[side]
<1> SUFFICES Handed(c, s, r, side, w, ends, selects)
  OBVIOUS
<1>1. side \in Sides /\ m.eos \in BOOLEAN
  BY DEF MessageType
<1>2. Noted(s, t, side) /\ Ready(c, s, w, side) /\ Unended(s, side)
  BY DEF BodyTurn
<1>3. t.hooks = s.hooks /\ t.mode = s.mode /\ t.headers = s.headers /\ t.deferred = s.deferred
      /\ t.headers_sent = s.headers_sent /\ t.filters_executed = s.filters_executed
  BY <1>2 DEF Noted
<1>4. Current(c, s, w, side) /\ ~w.disordered
  BY <1>2 DEF Ready
<1>5. /\ t.headers_sent[side] => w.stage \in {"headers", "body"}
      /\ ~t.headers_sent[side] => w.stage = "none"
  BY <1>3, <1>4 DEF Current
<1>6. Outer(t, t, side)
  BY DEF Outer
<1>7. /\ Asking(t, side) \in WireStages
      /\ BodyStage(t.mode[side], m.eos) \in Peer!UpTo("body", Asking(t, side))
  BY <1>1, <1>3, <1>6, TurnAsks DEF Turned
<1>8. PassedOn(t, r, m, w.stage, Asking(t, side))
  BY <1>5, <1>7, PassthroughOrderly
<1> HIDE DEF r
<1>9. Turned(s, u, m) /\ Asking(u, side) = Asking(t, side)
  BY <1>1, <1>8, TurnAsks DEF PassedOn, Outer, Asking
<1>10. /\ Orderly(r.out, side, w.stage, Asking(u, side))
       /\ After(r.out, w.stage) = BodyStage(s.mode[side], m.eos)
       /\ u.hooks = s.hooks /\ u.headers = s.headers /\ u.headers_sent[side]
       /\ u.filters_executed = s.filters_executed
  BY <1>3, <1>8, <1>9 DEF PassedOn
<1>11. u.hooks[side].mutated => w.mutated \/ Carries(r.out)
  BY <1>2, <1>3, <1>8, <1>10 DEF Ready, Parked, PassedOn
<1>12. ASSUME ~m.eos PROVE Current(c, u, Received(w, r.out), side)
  <2>1. Received(w, r.out).stage = "body" /\ u.mode = s.mode
    BY <1>9, <1>10, <1>12 DEF Received, BodyStage, Turned
  <2> QED
    BY <1>4, <1>10, <2>1 DEF Current
<1>13. Wired(c, u, Received(w, r.out), side)
  BY <1>4, <1>9, <1>10, <1>11, <1>12, TurnWired
<1>14. Tallied(h, u.hooks[side], ends, selects)
  BY <1>10 DEF Tallied
<1> QED
  BY <1>8, <1>9, <1>10, <1>13, <1>14 DEF Handed, PassedOn, Turned

\* A pipeline's answer to a body is in order.
LEMMA TurnSays ==
  ASSUME NEW o, NEW side \in Sides, NEW mode \in BodyModes, NEW eos \in BOOLEAN, NEW carries,
         Says(o, side, Body, mode, eos, carries), NEW from \in {"none", "headers", "body"},
         NEW to \in WireStages, StartsAt(Body, mode, from),
         BodyStage(mode, eos) \in Peer!UpTo("body", to)
  PROVE  Voiced(o, side, BodyStage(mode, eos), carries, from, to)
<1>1. Body \in Steps /\ from \in WireStages /\ BuiltStage(Body, mode, eos) = BodyStage(mode, eos)
  BY DEF Steps, WireStages, BuiltStage, Headers, Body
<1> DEFINE z == BodyStage(mode, eos)
<1>2. z \in WireStages /\ "body" \in WireStages /\ z \in Peer!UpTo("body", to)
  BY DEF BodyStage, WireStages
<1> HIDE DEF z
<1>3. Peer!Rank[from] <= Peer!Rank["body"] /\ Peer!Rank[from] \in 0..4
  BY RankOf
<1>4. Peer!Rank["body"] <= Peer!Rank[z] /\ Peer!Rank[z] <= Peer!Rank[to] /\ Peer!Rank[z] \in 0..4
  BY <1>2, UpToOrder
<1>5. Peer!Rank[from] <= Peer!Rank[z]
  BY <1>3, <1>4, RankOf
<1>6. z \in Peer!UpTo(from, to)
  BY <1>1, <1>2, <1>4, <1>5, UpToOrder
<1>7. BuiltStage(Body, mode, eos) \in Peer!UpTo(from, to)
  BY <1>1, <1>6 DEF z
<1>8. Voiced(o, side, BuiltStage(Body, mode, eos), carries, from, to)
  BY <1>1, <1>7, SaysOrderly, Zenon
<1> QED
  BY <1>1, <1>8

\* A request body that goes through the pipeline: complete, or as complete as BUFFERED
\* bodies get.
LEMMA RequestPipelineHanded ==
  ASSUME NEW c \in ChainType, NEW s \in StateType, NEW t \in LiveState, NEW f \in Outcomes,
         NEW m \in MessageType, m.side = "request", NEW w \in WireType,
         BodyTurn(c, s, t, m, w),
         \/ s.mode["request"] = "buffered" /\ t.buffered_request_body_processed
         \/ s.mode["request"] = "fds" /\ c.needs["request"] /\ m.eos,
         NEW ends, NEW selects, ends <=> c.needs["request"], selects <=> c.selected
  PROVE  Handed(c, s, RunRequestPipeline(c, t, f, Body, m.eos), "request", w, ends, selects)
<1> DEFINE side == "request"
           r == RunRequestPipeline(c, t, f, Body, m.eos)
           u == r.state
           h == s.hooks[side]
           mode == s.mode[side]
           ordinary == TRUE
           mutates == ~s.filters_executed[side] /\ f.header = "mutate"
<1> SUFFICES Handed(c, s, r, side, w, ends, selects)
  OBVIOUS
<1>1. /\ side \in Sides /\ m.eos \in BOOLEAN /\ t \in StateType /\ Body \in Steps
      /\ ordinary \in BOOLEAN /\ ordinary /\ Body # Headers
  BY DEF MessageType, LiveState, Sides, Steps, Headers, Body
<1>2. /\ Noted(s, t, side) /\ Ready(c, s, w, side) /\ Unended(s, side)
  BY DEF BodyTurn
<1>3. /\ t.hooks = s.hooks /\ t.mode = s.mode /\ t.headers = s.headers
      /\ t.filters_executed = s.filters_executed /\ ~t.eos[side].headers
  BY <1>2 DEF Noted, Unended
<1>4. Current(c, s, w, side) /\ ~w.disordered
  BY <1>2 DEF Ready
<1>5. r = RunRequestPipelineInner(c, t, f, Body, m.eos, ordinary)
  BY DEF RunRequestPipeline
<1> HIDE DEF r, ordinary
<1>6. RequestEffect(c, t, r, f, Body, m.eos, ordinary)
  <2>1. t.headers["request"]
    BY <1>3, <1>4 DEF Current
  <2> QED
    BY <1>1, <1>5, <2>1, RequestPipelineCounted
<1>7. Turned(s, u, m) /\ Outer(t, u, side)
  BY <1>1, <1>6, TurnAsks DEF RequestEffect
<1>8. Tallied(h, u.hooks[side], ends, selects)
  BY <1>1, <1>3, <1>6 DEF RequestEffect, Tallied
<1>9. Beside(s, u, side) /\ Accepts(r) /\ (Stops(r) => Silent(r))
  BY <1>6, <1>7 DEF RequestEffect, Turned
<1>10. CASE Stops(r)
  BY <1>8, <1>9, <1>10, HandedByStop
<1>11. CASE ~Stops(r)
  <2>1. /\ Counted(h, u.hooks[side], mutates, ends, selects)
        /\ u.headers = s.headers /\ u.filters_executed[side]
    BY <1>1, <1>3, <1>6, <1>11 DEF RequestEffect, Counted
  <2>2. Says(r.out, side, Body, mode, m.eos, mutates)
    <3>1. Replied(t, Body) = Body
      BY <1>3 DEF Replied
    <3> QED
      BY <1>3, <1>6, <1>11, <3>1 DEF RequestEffect
  <2>3. /\ mode \in BodyModes /\ w.stage \in WireStages /\ Asking(u, side) \in WireStages
        /\ StartsAt(Body, mode, w.stage)
        /\ BuiltStage(Body, mode, m.eos) = BodyStage(mode, m.eos)
    BY <1>1, <1>4, <1>7 DEF Current, StartsAt, BuiltStage, StateType, WireType, Turned
  <2>4. /\ w.stage \in {"none", "headers", "body"}
        /\ BodyStage(mode, m.eos) \in Peer!UpTo("body", Asking(u, side))
    BY <1>4, <1>7, <2>3 DEF Current, BodyModes, Turned
  <2>5. /\ Orderly(r.out, side, w.stage, Asking(u, side))
        /\ After(r.out, w.stage) = BodyStage(mode, m.eos)
        /\ mutates => Carries(r.out)
    <3> DEFINE o == r.out
               from == w.stage
               to == Asking(u, side)
               eos == m.eos
    <3>1. /\ side \in Sides /\ mode \in BodyModes /\ eos \in BOOLEAN
          /\ Says(o, side, Body, mode, eos, mutates)
          /\ from \in {"none", "headers", "body"} /\ to \in WireStages
          /\ StartsAt(Body, mode, from)
          /\ BodyStage(mode, eos) \in Peer!UpTo("body", to)
      BY <1>1, <2>2, <2>3, <2>4
    <3> HIDE DEF o, from, to, eos, side, mode, mutates
    <3>2. Voiced(o, side, BodyStage(mode, eos), mutates, from, to)
      BY <3>1, TurnSays, Zenon
    <3> QED
      BY <3>2 DEF o, from, to, eos, Voiced
  <2> HIDE DEF mutates
  <2>6. u.hooks[side].mutated => w.mutated \/ Carries(r.out)
    BY <1>2, <2>1, <2>5 DEF Ready, Parked, Counted
  <2>7. ASSUME ~m.eos PROVE Current(c, u, Received(w, r.out), side)
    <3>1. Received(w, r.out).stage = "body" /\ u.mode = s.mode
      BY <1>7, <2>5, <2>7 DEF Received, BodyStage, Turned
    <3>2. u.buffered_request_body_processed /\ s.mode[side] = "buffered"
      BY <1>7, <2>7 DEF Outer
    <3> QED
      BY <1>4, <2>1, <3>1, <3>2 DEF Current
  <2>8. Wired(c, u, Received(w, r.out), side)
    BY <1>4, <1>7, <2>5, <2>6, <2>7, TurnWired
  <2> QED
    BY <1>8, <1>9, <1>11, <2>1, <2>5, <2>8 DEF Handed, Counted
<1> QED
  BY <1>10, <1>11

\* A complete response body that goes through the pipeline.
LEMMA ResponsePipelineHanded ==
  ASSUME NEW c \in ChainType, NEW s \in StateType, NEW t \in LiveState, NEW f \in Outcomes,
         NEW m \in MessageType, m.side = "response", NEW w \in WireType,
         BodyTurn(c, s, t, m, w), m.eos, ~MissingHeaders(t, "response"),
         s.mode["response"] # "streamed", s.mode["response"] = "fds" => c.needs["response"],
         NEW ends, NEW selects, ends <=> c.needs["response"], ~selects
  PROVE  Handed(c, s, RunResponsePipeline(c, t, f, Body, m.eos), "response", w, ends, selects)
<1> DEFINE side == "response"
           r == RunResponsePipeline(c, t, f, Body, m.eos)
           u == r.state
           h == s.hooks[side]
           mode == s.mode[side]
           mutates == ~s.filters_executed[side] /\ f.header = "mutate"
           carries == mutates \/ "filter" \in s.deferred[side]
<1> SUFFICES Handed(c, s, r, side, w, ends, selects)
  OBVIOUS
<1>1. /\ side \in Sides /\ m.eos \in BOOLEAN /\ t \in StateType /\ Body \in Steps
      /\ Body # Headers
  BY DEF MessageType, LiveState, Sides, Steps, Headers, Body
<1>2. /\ Noted(s, t, side) /\ Ready(c, s, w, side) /\ Unended(s, side) /\ mode # "none"
  BY DEF BodyTurn
<1>3. /\ t.hooks = s.hooks /\ t.mode = s.mode /\ t.deferred = s.deferred
      /\ t.filters_executed = s.filters_executed
  BY <1>2 DEF Noted
<1>4. Current(c, s, w, side) /\ ~w.disordered
  BY <1>2 DEF Ready
<1>5. ResponseEffect(c, t, r, f, Body, m.eos)
  BY <1>1, ResponsePipelineCounted
<1> HIDE DEF r
<1>6. Turned(s, u, m)
  BY <1>1, <1>5, TurnAsks DEF ResponseEffect
<1>7. Tallied(h, u.hooks[side], ends, selects)
  BY <1>1, <1>3, <1>5 DEF ResponseEffect, Tallied
<1>8. Beside(s, u, side) /\ Accepts(r) /\ (Stops(r) => Silent(r))
  BY <1>5, <1>6 DEF ResponseEffect, Turned
<1>9. CASE Stops(r)
  BY <1>7, <1>8, <1>9, HandedByStop
<1>10. CASE ~Stops(r)
  <2>1. Counted(h, u.hooks[side], mutates, ends, selects)
    BY <1>1, <1>3, <1>5, <1>10 DEF ResponseEffect, Counted
  <2>2. Says(r.out, side, Body, mode, m.eos, carries)
    BY <1>1, <1>3, <1>5, <1>10 DEF ResponseEffect
  <2>3. /\ mode \in BodyModes /\ w.stage \in WireStages /\ Asking(u, side) \in WireStages
        /\ StartsAt(Body, mode, w.stage)
        /\ BuiltStage(Body, mode, m.eos) = BodyStage(mode, m.eos)
    BY <1>1, <1>4, <1>6 DEF Current, StartsAt, BuiltStage, StateType, WireType, Turned
  <2>4. /\ w.stage \in {"none", "headers", "body"}
        /\ BodyStage(mode, m.eos) \in Peer!UpTo("body", Asking(u, side))
    BY <1>4, <1>6, <2>3 DEF Current, BodyModes, Turned
  <2>5. carries <=> mutates \/ "filter" \in s.deferred[side]
    OBVIOUS
  <2> HIDE DEF mutates, carries
  <2>6. /\ Orderly(r.out, side, w.stage, Asking(u, side))
        /\ After(r.out, w.stage) = BodyStage(mode, m.eos)
        /\ carries => Carries(r.out)
    <3> DEFINE o == r.out
               from == w.stage
               to == Asking(u, side)
               eos == m.eos
    <3>1. /\ side \in Sides /\ mode \in BodyModes /\ eos \in BOOLEAN
          /\ Says(o, side, Body, mode, eos, carries)
          /\ from \in {"none", "headers", "body"} /\ to \in WireStages
          /\ StartsAt(Body, mode, from)
          /\ BodyStage(mode, eos) \in Peer!UpTo("body", to)
      BY <1>1, <2>2, <2>3, <2>4
    <3> HIDE DEF o, from, to, eos, side, mode
    <3>2. Voiced(o, side, BodyStage(mode, eos), carries, from, to)
      BY <3>1, TurnSays, Zenon
    <3> QED
      BY <3>2 DEF o, from, to, eos, Voiced
  <2>7. u.hooks[side].mutated => w.mutated \/ Carries(r.out)
    BY <1>2, <2>1, <2>5, <2>6 DEF Ready, Parked, Counted
  <2>8. Wired(c, u, Received(w, r.out), side)
    BY <1>4, <1>6, <2>6, <2>7, TurnWired
  <2> QED
    BY <1>7, <1>8, <1>10, <2>1, <2>6, <2>8 DEF Handed, Counted
<1> QED
  BY <1>9, <1>10

\* Marks that only count bytes, or that a body message was received.
LEMMA CountsNoted ==
  ASSUME NEW s \in StateType, NEW side \in Sides, NEW n, NEW b
  PROVE  /\ Noted(s, [s EXCEPT !.body_receipt[side] = TRUE], side)
         /\ [s EXCEPT !.body_receipt[side] = TRUE].eos = s.eos
         /\ Noted(s, [s EXCEPT !.streamed_request_bytes = n], side)
         /\ [s EXCEPT !.streamed_request_bytes = n].eos = s.eos
         /\ (b => s.mode["request"] = "buffered") =>
              Noted(s, [s EXCEPT !.buffered_request_body_processed = b], "request")
         /\ [s EXCEPT !.buffered_request_body_processed = b].eos = s.eos
         /\ [s EXCEPT !.buffered_request_body_processed = b].buffered_request_body_processed = b
BY DEF StateType, Noted, Sides

\* A final chunk that is sent again, and a body after headers that were final.
LEMMA RedeliveryHanded ==
  ASSUME NEW c, NEW s \in StateType, NEW t \in StateType, NEW m \in MessageType,
         NEW w \in WireType, s.order[m.side] = Body, Ready(c, s, w, m.side),
         Noted(s, t, m.side), t.eos = s.eos, NEW ends, NEW selects,
         ends => Unended(s, m.side), selects => Unended(s, m.side)
  PROVE  /\ BodyRedelivered(s, m) =>
              Handed(c, s, RedeliveredBody(t, m), m.side, w, ends, selects)
         /\ BodyAfterHeadersEos(s, m) =>
              Handed(c, s, Fail(t, "invalid_argument"), m.side, w, ends, selects)
<1> DEFINE side == m.side
<1>1. side \in Sides
  BY DEF MessageType
<1>2. Beside(s, t, side) /\ t.hooks = s.hooks /\ t.mode = s.mode /\ t.order = s.order
  BY <1>1, NotedBeside DEF Noted
<1>3. ASSUME ~Expected(s, side)
      PROVE  Handed(c, s, Fail(t, "invalid_argument"), side, w, ends, selects)
  BY <1>1, <1>2, <1>3, HandedAtOnce
<1>4. ASSUME BodyRedelivered(s, m), s.mode[side] = "fds"
      PROVE  Handed(c, s, Reply(t, <<>>), side, w, ends, selects)
  <2>1. ~Unended(s, side) /\ s.eos[side].body
    BY <1>4 DEF Unended, BodyRedelivered
  <2>2. /\ ~Unended(t, side) /\ t.eos[side].body
        /\ t.order[side] \in {Headers, Body} /\ t.order[side] # Headers
    BY <1>2, <2>1 DEF Unended, Headers, Body
  <2>3. /\ ~w.disordered /\ w.stage \in {"headers", "body", "final"}
        /\ t.hooks[side].mutated => w.mutated
    BY <1>2, <2>1 DEF Ready
  <2>4. Wired(c, t, w, side)
    BY <2>2, <2>3, WiredEnded
  <2>5. ~ends /\ ~selects
    BY <2>1
  <2> QED
    BY <1>1, <1>2, <2>4, <2>5, HandedQuiet
<1>5. BodyAfterHeadersEos(s, m) => ~Expected(s, side)
  BY DEF BodyAfterHeadersEos, Expected, Unended
<1>6. BodyRedelivered(s, m) /\ s.mode[side] # "fds" => ~Expected(s, side)
  BY DEF BodyRedelivered, Expected, Unended
<1>7. RedeliveredBody(t, m) = IF s.mode[side] = "fds" THEN Reply(t, <<>>)
                              ELSE Fail(t, "invalid_argument")
  BY <1>2 DEF RedeliveredBody
<1> QED
  BY <1>3, <1>4, <1>5, <1>6, <1>7

\* handle_request_body.
LEMMA RequestBodyHanded ==
  ASSUME NEW c \in ChainType, NEW s \in LiveState, NEW f \in Outcomes, NEW m \in MessageType,
         m.side = "request", NEW w \in WireType, s.order["request"] = Body,
         s.mode["request"] # "none", Ready(c, s, w, "request"), NEW ends, NEW selects,
         ends <=> Unended(s, "request") /\ (m.eos \/ s.mode["request"] = "buffered")
                    /\ c.needs["request"],
         selects <=> Unended(s, "request") /\ (m.eos \/ s.mode["request"] = "buffered")
                       /\ c.selected
  PROVE  Handed(c, s, HandleRequestBody(c, s, f, m), "request", w, ends, selects)
<1> DEFINE side == "request"
           seen == [s EXCEPT !.body_receipt["request"] = TRUE]
           marked == MarkBody(seen, m)
           mode == s.mode["request"]
           r == HandleRequestBody(c, s, f, m)
           Ok(x) == Handed(c, s, x, side, w, ends, selects)
<1> SUFFICES Ok(r)
  OBVIOUS
<1>1. side \in Sides /\ s \in StateType /\ m.eos \in BOOLEAN /\ m.len \in Nat /\ mode \in BodyModes
  BY DEF Sides, LiveState, MessageType, StateType
<1>2. \/ r = RedeliveredBody(seen, m) /\ BodyRedelivered(s, m)
      \/ r = Fail(seen, "invalid_argument") /\ BodyAfterHeadersEos(s, m)
      \/ /\ Unended(s, side)
         /\ r = IF mode = "streamed" \/ (mode = "fds" /\ ~c.needs["request"])
                THEN ForwardRequestChunk(c, marked, f, m)
                ELSE AccumulateRequestBody(c, marked, f, m)
  BY DEF HandleRequestBody, BodyRedelivered, BodyAfterHeadersEos, Unended
<1>3. seen \in LiveState /\ seen \in StateType /\ Noted(s, seen, side) /\ seen.eos = s.eos
  BY <1>1, LiveUpdates, CountsNoted DEF LiveState
<1> HIDE DEF seen
<1>4. /\ marked \in LiveState /\ marked \in StateType /\ Noted(s, marked, side)
      /\ marked.eos[side].body <=> s.eos[side].body \/ m.eos
  <2>1. marked \in LiveState /\ marked \in StateType
    BY <1>1, <1>3, LiveUpdates DEF LiveState
  <2>2. /\ Noted(seen, marked, side)
        /\ marked.eos[side].body <=> seen.eos[side].body \/ m.eos
    BY <1>1, <1>3, MarksNoted
  <2> QED
    BY <1>1, <1>3, <2>1, <2>2, NotedBeside
<1> HIDE DEF marked, r
<1>5. CASE ~Unended(s, side)
  <2>1. /\ BodyRedelivered(s, m) => Ok(RedeliveredBody(seen, m))
        /\ BodyAfterHeadersEos(s, m) => Ok(Fail(seen, "invalid_argument"))
    BY <1>1, <1>3, RedeliveryHanded
  <2> QED
    BY <1>2, <1>5, <2>1
<1>6. CASE Unended(s, side)
  <2>1. ~BodyRedelivered(s, m) /\ ~BodyAfterHeadersEos(s, m)
    BY <1>6 DEF Unended, BodyRedelivered, BodyAfterHeadersEos
  <2>2. BodyTurn(c, s, marked, m, w) /\ Current(c, s, w, side)
    BY <1>1, <1>4, <1>6 DEF BodyTurn, Unended, Ready
  <2>3. ASSUME NEW t \in StateType, Noted(marked, t, side), t.eos = marked.eos
        PROVE  BodyTurn(c, s, t, m, w)
    BY <1>1, <1>4, <2>2, <2>3, NotedBeside DEF BodyTurn
  <2>4. Ok(Reply(marked, <<Immediate>>))
    BY <1>1, <1>4, NotedBeside, HandedAtOnce DEF Noted
  <2>5. marked.headers["request"] /\ marked.mode = s.mode
    BY <1>4, <2>2 DEF Noted, Current
  <2>6. CASE mode = "streamed" \/ (mode = "fds" /\ ~c.needs["request"])
    <3> DEFINE n == marked.streamed_request_bytes + m.len
               counted == [marked EXCEPT !.streamed_request_bytes = n]
               x == ForwardRequestChunk(c, marked, f, m)
    <3>1. n \in Nat
      BY <1>1, <1>4 DEF StateType
    <3>2. \/ x = Reply(marked, <<Immediate>>)
          \/ x = ProcessStreamedBodyChunk(c, counted, f, m) /\ c.needs["request"]
          \/ x = PassthroughChunk(counted, m) /\ ~c.needs["request"]
      BY DEF ForwardRequestChunk
    <3> HIDE DEF n, x
    <3>3. Noted(marked, counted, side) /\ counted.eos = marked.eos
      BY <1>1, <1>4, CountsNoted
    <3>4. counted \in StateType /\ counted \in LiveState
      BY <1>4, <3>1 DEF StateType, LiveState, Live
    <3> HIDE DEF counted
    <3>5. BodyTurn(c, s, counted, m, w) /\ ~MissingHeaders(counted, side) /\ ~selects
      BY <1>1, <2>2, <2>3, <2>5, <2>6, <3>3, <3>4 DEF Noted, MissingHeaders, Current
    <3>6. ASSUME c.needs["request"] PROVE Ok(ProcessStreamedBodyChunk(c, counted, f, m))
      <4>1. mode = "streamed" /\ (ends <=> m.eos /\ c.needs[side])
        BY <1>6, <2>6, <3>6
      <4> QED
        BY <1>1, <3>4, <3>5, <4>1, StreamedHanded
    <3>7. ASSUME ~c.needs["request"] PROVE Ok(PassthroughChunk(counted, m))
      BY <1>1, <2>6, <3>4, <3>5, <3>7, PassthroughHanded
    <3>8. Ok(x)
      BY <2>4, <3>2, <3>6, <3>7
    <3> QED
      BY <1>2, <2>1, <2>6, <3>8 DEF x
  <2>7. CASE ~(mode = "streamed" \/ (mode = "fds" /\ ~c.needs["request"]))
    <3> DEFINE buffered == mode = "buffered"
               n == marked.body["request"] + m.len
               added == [marked EXCEPT !.body["request"] = n]
               run == [added EXCEPT !.buffered_request_body_processed = buffered]
               x == AccumulateRequestBody(c, marked, f, m)
    <3>1. n \in Nat /\ buffered \in BOOLEAN
      BY <1>1, <1>4 DEF StateType
    <3>2. \/ x = Reply(marked, <<Immediate>>)
          \/ x = Reply(added, <<>>) /\ ~m.eos /\ ~buffered
          \/ x = RunRequestPipeline(c, run, f, Body, m.eos) /\ (m.eos \/ buffered)
      BY <2>5 DEF AccumulateRequestBody
    <3>3. buffered <=> mode = "buffered"
      OBVIOUS
    <3> HIDE DEF n, x, buffered
    <3>4. added \in StateType /\ added \in LiveState /\ added = [marked EXCEPT !.body[side] = n]
      BY <1>1, <1>4, <3>1 DEF StateType, LiveState, Live
    <3> HIDE DEF added
    <3>5. Noted(marked, added, side) /\ added.eos = marked.eos
          /\ added.buffered_request_body_processed = marked.buffered_request_body_processed
      <4> HIDE DEF marked, side
      <4> QED
        BY <1>1, <1>4, <3>4 DEF StateType, Noted, Sides
    <3>6. Noted(added, run, side) /\ run.eos = added.eos
          /\ run.buffered_request_body_processed = buffered
      <4>1. buffered => added.mode["request"] = "buffered"
        BY <1>4, <3>3, <3>5 DEF Noted
      <4> QED
        BY <1>1, <3>4, <4>1, CountsNoted
    <3>7. run \in StateType /\ run \in LiveState
      BY <3>1, <3>4 DEF StateType, LiveState, Live
    <3> HIDE DEF run
    <3>8. BodyTurn(c, s, added, m, w) /\ BodyTurn(c, s, run, m, w)
      <4>1. Noted(marked, run, side) /\ run.eos = marked.eos
        BY <1>1, <3>5, <3>6, NotedBeside, Zenon
      <4> QED
        BY <2>3, <3>4, <3>5, <3>7, <4>1
    <3>9. ASSUME ~m.eos, ~buffered PROVE Ok(Reply(added, <<>>))
      <4>1. mode = "fds" /\ c.needs["request"] /\ ~ends /\ ~selects
        BY <1>1, <2>2, <2>7, <3>3, <3>9 DEF BodyModes, Current
      <4>2. /\ Noted(s, added, side) /\ ~added.eos[side].body /\ Unended(added, side)
            /\ added.order[side] \in {Headers, Body} /\ added.order[side] # Headers
        BY <1>6, <3>8, <3>9 DEF BodyTurn, Noted, Unended, Headers, Body
      <4>3. Beside(s, added, side) /\ added.hooks = s.hooks /\ added.mode = s.mode
            /\ added.headers = s.headers /\ added.headers_sent = s.headers_sent
            /\ added.filters_executed = s.filters_executed
        BY <1>1, <4>2, NotedBeside DEF Noted
      <4>4. Current(c, added, w, side) /\ w.stage = "none" /\ ~w.disordered
        BY <2>2, <4>1, <4>3 DEF Current, BodyTurn, Ready
      <4>5. added.hooks[side].mutated => w.mutated
        BY <2>2, <4>1, <4>3 DEF BodyTurn, Ready, Parked
      <4>6. Wired(c, added, w, side)
        BY <4>2, <4>4, <4>5, WiredOpen
      <4> QED
        BY <1>1, <3>4, <4>1, <4>3, <4>6, HandedQuiet
    <3>10. ASSUME m.eos \/ buffered PROVE Ok(RunRequestPipeline(c, run, f, Body, m.eos))
      <4>1. /\ ends <=> c.needs["request"]
            /\ selects <=> c.selected
        BY <1>6, <3>3, <3>10
      <4>2. \/ s.mode["request"] = "buffered" /\ run.buffered_request_body_processed
            \/ s.mode["request"] = "fds" /\ c.needs["request"] /\ m.eos
        BY <1>1, <2>7, <3>3, <3>6, <3>10 DEF BodyModes
      <4> QED
        BY <1>1, <3>7, <3>8, <4>1, <4>2, RequestPipelineHanded
    <3>11. Ok(x)
      BY <2>4, <3>2, <3>9, <3>10
    <3> QED
      BY <1>2, <2>1, <2>7, <3>11 DEF x
  <2> QED
    BY <2>6, <2>7
<1> QED
  BY <1>5, <1>6

\* handle_response_body.
LEMMA ResponseBodyHanded ==
  ASSUME NEW c \in ChainType, NEW s \in LiveState, NEW f \in Outcomes, NEW m \in MessageType,
         m.side = "response", NEW w \in WireType, s.order["response"] = Body,
         s.mode["response"] # "none", Ready(c, s, w, "response"), s.headers["request"],
         NEW ends, NEW selects,
         ends <=> Unended(s, "response") /\ m.eos /\ c.needs["response"], ~selects
  PROVE  Handed(c, s, HandleResponseBody(c, s, f, m), "response", w, ends, selects)
<1> DEFINE side == "response"
           seen == [s EXCEPT !.body_receipt["response"] = TRUE]
           marked == MarkBody(seen, m)
           mode == s.mode["response"]
           r == HandleResponseBody(c, s, f, m)
           Ok(x) == Handed(c, s, x, side, w, ends, selects)
<1> SUFFICES Ok(r)
  OBVIOUS
<1>1. side \in Sides /\ s \in StateType /\ m.eos \in BOOLEAN /\ m.len \in Nat /\ mode \in BodyModes
  BY DEF Sides, LiveState, MessageType, StateType
<1>2. \/ r = RedeliveredBody(seen, m) /\ BodyRedelivered(s, m)
      \/ r = Fail(seen, "invalid_argument") /\ BodyAfterHeadersEos(s, m)
      \/ /\ ~c.needs["response"] /\ mode \in {"streamed", "fds"}
         /\ r = PassthroughChunk(marked, m)
      \/ mode = "streamed" /\ r = ProcessStreamedBodyChunk(c, marked, f, m)
      \/ /\ mode # "streamed" /\ (mode = "fds" => c.needs["response"])
         /\ r = AccumulateResponseBody(c, marked, f, m)
  BY DEF HandleResponseBody
<1>3. r = RedeliveredBody(seen, m) \/ r = Fail(seen, "invalid_argument") \/ Unended(s, side)
  BY DEF HandleResponseBody, BodyRedelivered, BodyAfterHeadersEos, Unended
<1>4. seen \in LiveState /\ seen \in StateType /\ Noted(s, seen, side) /\ seen.eos = s.eos
  BY <1>1, LiveUpdates, CountsNoted DEF LiveState
<1> HIDE DEF seen
<1>5. /\ marked \in LiveState /\ marked \in StateType /\ Noted(s, marked, side)
      /\ marked.eos[side].body <=> s.eos[side].body \/ m.eos
  <2>1. marked \in LiveState /\ marked \in StateType
    BY <1>1, <1>4, LiveUpdates DEF LiveState
  <2>2. /\ Noted(seen, marked, side)
        /\ marked.eos[side].body <=> seen.eos[side].body \/ m.eos
    BY <1>1, <1>4, MarksNoted
  <2> QED
    BY <1>1, <1>4, <2>1, <2>2, NotedBeside
<1>6. ~Unended(s, side) =>
        \/ r = RedeliveredBody(seen, m) /\ BodyRedelivered(s, m)
        \/ r = Fail(seen, "invalid_argument") /\ BodyAfterHeadersEos(s, m)
  BY DEF HandleResponseBody, BodyRedelivered, BodyAfterHeadersEos, Unended, seen
<1> HIDE DEF marked, r
<1>7. /\ BodyRedelivered(s, m) => Ok(RedeliveredBody(seen, m))
      /\ BodyAfterHeadersEos(s, m) => Ok(Fail(seen, "invalid_argument"))
  BY <1>1, <1>4, RedeliveryHanded
<1>8. CASE ~Unended(s, side)
  BY <1>6, <1>7, <1>8
<1>9. CASE Unended(s, side)
  <2>1. BodyTurn(c, s, marked, m, w) /\ Current(c, s, w, side)
    BY <1>1, <1>5, <1>9 DEF BodyTurn, Unended, Ready
  <2>2. ~MissingHeaders(marked, side) /\ marked.mode = s.mode
    BY <1>5, <2>1 DEF Noted, MissingHeaders, Current
  <2>3. ASSUME ~c.needs["response"], mode \in {"streamed", "fds"}
        PROVE  Ok(PassthroughChunk(marked, m))
    BY <1>1, <1>5, <2>1, <2>3, PassthroughHanded
  <2>4. ASSUME mode = "streamed" PROVE Ok(ProcessStreamedBodyChunk(c, marked, f, m))
    <3>1. ends <=> m.eos /\ c.needs[side]
      BY <1>9
    <3> QED
      BY <1>1, <1>5, <2>1, <2>2, <2>4, <3>1, StreamedHanded
  <2>5. ASSUME mode # "streamed", mode = "fds" => c.needs["response"]
        PROVE  Ok(AccumulateResponseBody(c, marked, f, m))
    <3> DEFINE n == marked.body["response"] + m.len
               added == [marked EXCEPT !.body["response"] = n]
               x == AccumulateResponseBody(c, marked, f, m)
    <3>1. n \in Nat
      BY <1>1, <1>5 DEF StateType
    <3>2. \/ x = Fail(marked, "resource_exhausted")
          \/ x = Reply(added, <<>>) /\ ~m.eos
          \/ x = RunResponsePipeline(c, added, f, Body, TRUE) /\ m.eos
      BY DEF AccumulateResponseBody
    <3>3. \/ x = Fail(marked, "resource_exhausted")
          \/ x = Reply(added, <<>>) /\ ~m.eos
          \/ x = RunResponsePipeline(c, added, f, Body, m.eos) /\ m.eos
      <4>1. m.eos => m.eos = TRUE
        BY <1>1
      <4> QED
        BY <3>2, <4>1
    <3> HIDE DEF n, x
    <3>4. added \in StateType /\ added \in LiveState /\ added = [marked EXCEPT !.body[side] = n]
      BY <1>1, <1>5, <3>1 DEF StateType, LiveState, Live
    <3> HIDE DEF added
    <3>5. Noted(marked, added, side) /\ added.eos = marked.eos
      <4> HIDE DEF marked, side
      <4> QED
        BY <1>1, <1>5, <3>4 DEF StateType, Noted, Sides
    <3>6. Noted(s, added, side) /\ BodyTurn(c, s, added, m, w)
      BY <1>1, <1>5, <2>1, <3>5, NotedBeside DEF BodyTurn
    <3>7. Ok(Fail(marked, "resource_exhausted"))
      BY <1>1, <1>5, NotedBeside, HandedAtOnce DEF Noted
    <3>8. ASSUME ~m.eos PROVE Ok(Reply(added, <<>>))
      <4>1. /\ ~added.eos[side].body /\ Unended(added, side)
            /\ added.order[side] \in {Headers, Body} /\ added.order[side] # Headers
        BY <1>9, <3>6, <3>8 DEF BodyTurn, Noted, Unended, Headers, Body
      <4>2. Beside(s, added, side) /\ added.hooks = s.hooks /\ added.mode = s.mode
            /\ added.headers = s.headers /\ added.headers_sent = s.headers_sent
            /\ added.filters_executed = s.filters_executed /\ added.deferred = s.deferred
        BY <1>1, <3>6, NotedBeside DEF Noted
      <4>3. Current(c, added, w, side) /\ ~w.disordered
        BY <2>1, <4>2 DEF Current, BodyTurn, Ready
      <4>4. w.stage \in {"none", "headers", "body"}
        BY <1>1, <2>1 DEF Current, BodyModes
      <4>5. added.hooks[side].mutated /\ ~w.mutated => Parked(c, added, side)
        BY <2>1, <4>2 DEF BodyTurn, Ready, Parked
      <4>6. Wired(c, added, w, side)
        BY <4>1, <4>3, <4>4, <4>5, WiredOpen
      <4>7. ~ends
        BY <3>8
      <4> QED
        BY <1>1, <3>4, <4>2, <4>6, <4>7, HandedQuiet
    <3>9. ASSUME m.eos PROVE Ok(RunResponsePipeline(c, added, f, Body, m.eos))
      <4>1. ends <=> c.needs["response"]
        BY <1>9, <3>9
      <4>2. ~MissingHeaders(added, "response")
        BY <2>2, <3>5 DEF Noted, MissingHeaders
      <4> QED
        BY <1>1, <2>5, <3>4, <3>6, <3>9, <4>1, <4>2, ResponsePipelineHanded
    <3>10. Ok(x)
      BY <3>3, <3>7, <3>8, <3>9
    <3> QED
      BY <3>10 DEF x
  <2> HIDE DEF Ok
  <2> QED
    BY <1>2, <1>7, <2>3, <2>4, <2>5
<1> QED
  BY <1>8, <1>9

\* What the pipeline of a body that trailers close does and says.
TrailingEffect(c, s, r, side, f) ==
  LET h == s.hooks[side]
      g == r.state.hooks[side]
      mutates == ~s.filters_executed[side] /\ f.header = "mutate"
      ends == c.needs[side]
      selects == side = "request" /\ c.selected
  IN /\ r \in ResultType
     /\ Outer(s, r.state, side)
     /\ Accepts(r)
     /\ Stops(r) => Silent(r)
     /\ Tallied(h, g, ends, selects)
     /\ ~Stops(r) =>
          /\ Counted(h, g, mutates, ends, selects)
          /\ Says(r.out, side, Body, s.mode[side], FALSE,
                  mutates \/ (side = "response" /\ "filter" \in s.deferred[side]))

\* run_trailing_body_pipeline.
LEMMA TrailingCounted ==
  ASSUME NEW c \in ChainType, NEW s \in LiveState, NEW f \in Outcomes, NEW side \in Sides,
         ~MissingHeaders(s, side), ~s.eos[side].headers
  PROVE  TrailingEffect(c, s, RunTrailingBodyPipeline(c, s, f, side), side, f)
<1> DEFINE r == RunTrailingBodyPipeline(c, s, f, side)
           eos == FALSE
           ordinary == TRUE
           h == s.hooks[side]
           g == r.state.hooks[side]
           mutates == ~s.filters_executed[side] /\ f.header = "mutate"
           parked == side = "response" /\ "filter" \in s.deferred[side]
           ends == c.needs[side]
           selects == side = "request" /\ c.selected
           carries == mutates \/ parked
<1> SUFFICES TrailingEffect(c, s, r, side, f)
  OBVIOUS
<1>1. /\ Body \in Steps /\ Body # Headers /\ eos \in BOOLEAN /\ ordinary \in BOOLEAN
      /\ s \in StateType /\ Live(s) /\ ordinary /\ ~eos
  BY DEF Steps, Headers, Body, LiveState
<1>2. side = "request" => r = RunRequestPipelineInner(c, s, f, Body, eos, ordinary)
  BY DEF RunTrailingBodyPipeline, RunRequestPipeline
<1>3. side = "response" => r = RunResponsePipeline(c, s, f, Body, eos)
  BY DEF RunTrailingBodyPipeline
<1> HIDE DEF eos, ordinary, r
<1>4. r \in ResultType
  BY <1>1, <1>2, <1>3, RequestPipelineGood, ResponsePipelineGood DEF Good, Sides
<1>5. ASSUME /\ Outer(s, r.state, side) /\ Accepts(r) /\ (Stops(r) => Silent(r))
             /\ Tallied(h, g, ends, selects)
             /\ ~Stops(r) => /\ Counted(h, g, mutates, ends, selects)
                             /\ Says(r.out, side, Body, s.mode[side], eos, carries)
      PROVE  TrailingEffect(c, s, r, side, f)
  BY <1>4, <1>5 DEF TrailingEffect, eos
<1>6. CASE side = "request"
  <2>1. s.headers["request"]
    BY <1>6 DEF MissingHeaders
  <2>2. RequestEffect(c, s, r, f, Body, eos, ordinary)
    BY <1>1, <1>2, <1>6, <2>1, RequestPipelineCounted
  <2>3. Outer(s, r.state, side) /\ Accepts(r) /\ (Stops(r) => Silent(r))
    BY <1>6, <2>2 DEF RequestEffect
  <2>4. Tallied(h, g, ends, selects)
    BY <1>1, <1>6, <2>2 DEF RequestEffect, Tallied
  <2>5. ~Stops(r) => Counted(h, g, mutates, ends, selects)
    BY <1>1, <1>6, <2>2 DEF RequestEffect, Counted
  <2>6. ~Stops(r) => Says(r.out, side, Body, s.mode[side], eos, carries)
    <3>1. Replied(s, Body) = Body /\ (carries <=> mutates)
      BY <1>6 DEF Replied
    <3>2. ~Stops(r) => Says(r.out, side, Body, s.mode[side], eos, mutates)
      BY <1>6, <2>2, <3>1 DEF RequestEffect
    <3> QED
      BY <3>1, <3>2 DEF Says
  <2> QED
    BY <1>5, <2>3, <2>4, <2>5, <2>6
<1>7. CASE side = "response"
  <2>1. ResponseEffect(c, s, r, f, Body, eos)
    BY <1>1, <1>3, <1>7, ResponsePipelineCounted
  <2>2. Outer(s, r.state, side) /\ Accepts(r) /\ (Stops(r) => Silent(r))
    BY <1>7, <2>1 DEF ResponseEffect
  <2>3. Tallied(h, g, ends, selects)
    BY <1>1, <1>7, <2>1 DEF ResponseEffect, Tallied
  <2>4. ~Stops(r) => Counted(h, g, mutates, ends, selects)
    BY <1>1, <1>7, <2>1 DEF ResponseEffect, Counted
  <2>5. ~Stops(r) => Says(r.out, side, Body, s.mode[side], eos, carries)
    BY <1>1, <1>7, <2>1 DEF ResponseEffect, Says
  <2> QED
    BY <1>5, <2>2, <2>3, <2>4, <2>5
<1> QED
  BY <1>6, <1>7 DEF Sides

\* What becomes of a direction before its trailers are answered.
Finalized(s, r, side, w, ends, selects) ==
  LET h == s.hooks[side]
      g == r.state.hooks[side]
  IN /\ Beside(s, r.state, side)
     /\ r.state.mode = s.mode
     /\ Accepts(r)
     /\ Stops(r) => Silent(r)
     /\ Tallied(h, g, ends, selects)
     /\ ~Stops(r) =>
          /\ r.out \in Seq(ResponseType)
          /\ Orderly(r.out, side, w.stage, "trailers")
          /\ After(r.out, w.stage) \in {"headers", "body", "final"}
          /\ g.mutated => w.mutated \/ Carries(r.out) \/ s.mode[side] = "buffered"
          /\ ends => g.eos = More(h.eos)
          /\ selects => g.selected = More(h.selected)

\* One whose end was noted, and nothing of another direction since.
LEMMA FinalizedBy ==
  ASSUME NEW s, NEW t, NEW u, NEW side \in Sides, Noted(s, t, side), Outer(t, u, side)
  PROVE  Beside(s, u, side) /\ t.hooks = s.hooks /\ u.mode = s.mode
BY NotedBeside DEF Noted, Outer

\* finalize_body_on_trailers.
LEMMA FinalizeFinalized ==
  ASSUME NEW c \in ChainType, NEW s \in LiveState, NEW f \in Outcomes, NEW side \in Sides,
         NEW w \in WireType, Ready(c, s, w, side), s.headers["request"], NEW ends, NEW selects,
         ends <=> Unended(s, side) /\ s.mode[side] # "none" /\ c.needs[side]
                    /\ ~(side = "request" /\ s.buffered_request_body_processed),
         selects <=> Unended(s, side) /\ s.mode[side] # "none" /\ side = "request" /\ c.selected
                       /\ ~s.buffered_request_body_processed
  PROVE  Finalized(s, FinalizeBodyOnTrailers(c, s, f, side), side, w, ends, selects)
<1> DEFINE closed == CloseBody(s, side)
           mode == s.mode[side]
           needed == TrailingBodyNeeded(c, side)
           early == side = "request" /\ s.buffered_request_body_processed
           r == FinalizeBodyOnTrailers(c, s, f, side)
           trailing == RunTrailingBodyPipeline(c, closed, f, side)
           never == FALSE
           Ok(x) == Finalized(s, x, side, w, ends, selects)
<1> SUFFICES Ok(r)
  OBVIOUS
<1>1. s \in StateType /\ mode \in BodyModes /\ w.stage \in WireStages /\ "trailers" \in WireStages
  BY DEF LiveState, StateType, WireType, WireStages
<1>2. \/ r = Reply(s, <<>>) /\ ~BodyOpen(s, side)
      \/ /\ BodyOpen(s, side)
         /\ \/ mode = "streamed" /\ needed /\ r = FlushStreamedBodyFilters(c, closed, f, side)
            \/ mode = "fds" /\ needed /\ r = RunTrailingFdsBody(c, closed, f, side)
            \/ mode = "fds" /\ ~needed /\ r = FlushDeferredFdsHeaders(closed, side)
            \/ mode = "buffered" /\ ~early /\ r = RunTrailingBufferedBody(c, closed, f, side)
            \/ /\ mode = "none" \/ (mode = "streamed" /\ ~needed) \/ (mode = "buffered" /\ early)
               /\ r = Reply(closed, <<>>)
  BY <1>1 DEF FinalizeBodyOnTrailers, BodyModes
<1>3. closed \in LiveState /\ closed \in StateType /\ Noted(s, closed, side)
      /\ closed.eos[side].body
  <2>1. PICK m \in MessageType : TRUE
    <3>1. Message("request", Headers, TRUE, 0, "none") \in MessageType
      BY DEF Message, MessageType, Sides, Steps, Guards
    <3> QED
      BY <3>1
  <2> QED
    BY <1>1, <2>1, LiveUpdates, MarksNoted DEF LiveState
<1>4. closed.hooks = s.hooks /\ closed.mode = s.mode /\ closed.headers = s.headers
      /\ closed.headers_sent = s.headers_sent /\ closed.deferred = s.deferred
      /\ closed.filters_executed = s.filters_executed
      /\ closed.eos[side].headers = s.eos[side].headers
  BY <1>3 DEF Noted
<1>5. Noted(s, s, side) /\ Outer(s, s, side) /\ Outer(closed, closed, side)
  BY DEF Noted, Outer
<1> HIDE DEF closed, r, early
<1>6. ASSUME NEW t, Noted(s, t, side), Outer(t, t, side), ~ends, ~selects,
             w.stage \in {"headers", "body", "final"},
             s.hooks[side].mutated => w.mutated \/ mode = "buffered"
      PROVE  Ok(Reply(t, <<>>))
  <2> DEFINE x == Reply(t, <<>>)
  <2>1. x.state = t /\ x.out = <<>> /\ Accepts(x) /\ ~Stops(x)
    BY HookAccepts DEF Reply, Stops, HasImmediate
  <2> HIDE DEF x
  <2>2. x.out \in Seq(ResponseType) /\ Orderly(x.out, side, w.stage, "trailers")
        /\ After(x.out, w.stage) = w.stage
    <3>1. Orderly(<<>>, side, w.stage, "trailers") /\ After(<<>>, w.stage) = w.stage
      BY OrderlyNothing
    <3> QED
      BY <2>1, <3>1
  <2>3. Counted(t.hooks[side], x.state.hooks[side], never, ends, selects)
        /\ Tallied(t.hooks[side], x.state.hooks[side], ends, selects)
    BY <1>6, <2>1 DEF Counted, Tallied
  <2>4. Ok(x)
    <3>1. Beside(s, x.state, side) /\ t.hooks = s.hooks /\ x.state.mode = s.mode
      BY <1>6, <2>1, FinalizedBy
    <3> QED
      BY <1>6, <2>1, <2>2, <2>3, <3>1 DEF Finalized, Counted
  <2> QED
    BY <2>4 DEF x
<1>7. CASE ~BodyOpen(s, side)
  <2>1. ~Unended(s, side)
    BY <1>7 DEF BodyOpen, Unended, Ready, Current
  <2>2. /\ ~ends /\ ~selects /\ w.stage \in {"headers", "body", "final"}
        /\ s.hooks[side].mutated => w.mutated
    BY <2>1 DEF Ready
  <2>3. Ok(Reply(s, <<>>))
    BY <1>5, <1>6, <2>2
  <2> QED
    BY <1>2, <1>7, <2>3
<1>8. CASE BodyOpen(s, side)
  <2>1. Unended(s, side)
    BY <1>8 DEF BodyOpen, Unended
  <2>2. Current(c, s, w, side) /\ (early => mode = "buffered")
    BY <2>1 DEF Ready, early
  <2>3. /\ ~MissingHeaders(closed, side) /\ ~closed.eos[side].headers
    BY <1>4, <2>1, <2>2 DEF MissingHeaders, Current, Unended
  <2>4. mode # "buffered" => (needed <=> c.needs[side]) /\ ~selects
    BY <2>2 DEF TrailingBodyNeeded, Current
  <2>5. s.hooks[side].mutated =>
          \/ w.mutated \/ mode = "buffered"
          \/ /\ mode = "fds" /\ ~c.needs[side] /\ ~s.headers_sent[side]
             /\ "filter" \in s.deferred[side]
    BY DEF Ready, Parked
  <2>6. mode # "fds" => w.stage \in {"headers", "body"}
    BY <2>2 DEF Current
  <2>7. ASSUME mode = "streamed", needed PROVE Ok(FlushStreamedBodyFilters(c, closed, f, side))
    <3> DEFINE x == FlushStreamedBodyFilters(c, closed, f, side)
               eos == TRUE
    <3>1. eos \in BOOLEAN /\ eos
      OBVIOUS
    <3> HIDE DEF eos
    <3>2. StreamedEffect(c, closed, x, side, eos) /\ (~Stops(x) => x.out = <<>>)
      BY <1>3, <2>3, <3>1, FlushCounted
    <3> HIDE DEF x
    <3>3. c.needs[side] /\ ends /\ ~selects
      BY <2>1, <2>2, <2>4, <2>7 DEF early
    <3>4. /\ Tallied(closed.hooks[side], x.state.hooks[side], ends, selects)
          /\ ~Stops(x) =>
               /\ Counted(closed.hooks[side], x.state.hooks[side], never, ends, selects)
               /\ x.out = <<>>
      BY <3>1, <3>2, <3>3 DEF StreamedEffect, Counted, Tallied
    <3>5. Outer(closed, x.state, side) /\ Accepts(x) /\ (Stops(x) => Silent(x))
      BY <3>2 DEF StreamedEffect
    <3>6. /\ <<>> \in Seq(ResponseType) /\ Orderly(<<>>, side, w.stage, "trailers")
          /\ After(<<>>, w.stage) = w.stage
      BY OrderlyNothing
    <3>7. s.hooks[side].mutated => w.mutated
      BY <2>5, <2>7
    <3>8. Beside(s, x.state, side) /\ x.state.mode = s.mode
      BY <1>3, <3>5, FinalizedBy
    <3>9. Ok(x)
      BY <1>4, <2>6, <2>7, <3>4, <3>5, <3>6, <3>7, <3>8 DEF Finalized, Counted
    <3> QED
      BY <3>9 DEF x
  <2>8. TrailingEffect(c, closed, trailing, side, f)
    BY <1>3, <2>3, TrailingCounted
  <2> DEFINE mutates == ~s.filters_executed[side] /\ f.header = "mutate"
             carries == mutates \/ (side = "response" /\ "filter" \in s.deferred[side])
             eos == FALSE
  <2>9. /\ Outer(closed, trailing.state, side) /\ Accepts(trailing) /\ trailing \in ResultType
        /\ Stops(trailing) => Silent(trailing)
        /\ ~Stops(trailing) => Says(trailing.out, side, Body, mode, eos, carries)
    BY <1>4, <2>8 DEF TrailingEffect
  <2>10. Beside(s, trailing.state, side) /\ trailing.state.mode = s.mode
    BY <1>3, <2>9, FinalizedBy
  <2>11. ASSUME ends <=> c.needs[side], selects <=> (side = "request" /\ c.selected)
         PROVE  /\ Tallied(closed.hooks[side], trailing.state.hooks[side], ends, selects)
                /\ ~Stops(trailing) =>
                     Counted(closed.hooks[side], trailing.state.hooks[side], mutates, ends, selects)
    BY <1>4, <2>8, <2>11 DEF TrailingEffect, Counted, Tallied
  <2>12. eos \in BOOLEAN /\ BodyStage(mode, eos) = "body"
    BY DEF BodyStage
  <2>13. carries <=> mutates \/ (side = "response" /\ "filter" \in s.deferred[side])
    OBVIOUS
  <2> HIDE DEF trailing, mutates, carries, eos
  <2>14. ASSUME mode = "fds", needed PROVE Ok(RunTrailingFdsBody(c, closed, f, side))
    <3> DEFINE x == RunTrailingFdsBody(c, closed, f, side)
               head == <<Head(trailing.out)>>
    <3>1. /\ x \in {trailing, [trailing EXCEPT !.out = head]}
          /\ Stops(trailing) => x = trailing
      BY DEF RunTrailingFdsBody, trailing
    <3>2. c.needs[side] /\ ends /\ ~selects /\ ~(side = "request" /\ c.selected) /\ w.stage = "none"
      BY <2>1, <2>2, <2>4, <2>14 DEF early, Current
    <3>3. /\ Tallied(closed.hooks[side], trailing.state.hooks[side], ends, selects)
          /\ ~Stops(trailing) =>
               Counted(closed.hooks[side], trailing.state.hooks[side], mutates, ends, selects)
      BY <2>11, <3>2
    <3>4. s.hooks[side].mutated \/ mutates => w.mutated \/ carries
      BY <2>5, <2>13, <2>14, <3>2
    <3>5. CASE x = trailing
      <4>1. ASSUME ~Stops(trailing)
            PROVE  /\ trailing.out \in Seq(ResponseType)
                   /\ Orderly(trailing.out, side, w.stage, "trailers")
                   /\ After(trailing.out, w.stage) = "body"
                   /\ carries => Carries(trailing.out)
        <5>1. /\ StartsAt(Body, mode, w.stage) /\ w.stage \in {"none", "headers", "body"}
              /\ BodyStage(mode, eos) \in Peer!UpTo("body", "trailers")
          BY <2>12, <2>14, <3>2, RankOf DEF StartsAt, Peer!UpTo, WireStages
        <5>2. Says(trailing.out, side, Body, mode, eos, carries)
          BY <2>9, <4>1
        <5> DEFINE o == trailing.out
                   from == w.stage
                   to == "trailers"
        <5>3. /\ side \in Sides /\ mode \in BodyModes /\ eos \in BOOLEAN
              /\ Says(o, side, Body, mode, eos, carries)
              /\ from \in {"none", "headers", "body"} /\ to \in WireStages
              /\ StartsAt(Body, mode, from) /\ BodyStage(mode, eos) = "body"
              /\ BodyStage(mode, eos) \in Peer!UpTo("body", to)
          BY <1>1, <2>12, <5>1, <5>2 DEF WireStages
        <5> HIDE DEF o, from, to
        <5>4. Voiced(o, side, BodyStage(mode, eos), carries, from, to)
          BY <5>3, TurnSays, Zenon
        <5> QED
          BY <5>3, <5>4 DEF o, from, to, Voiced
      <4> HIDE DEF x
      <4>2. Ok(x)
        BY <1>4, <2>9, <2>10, <3>3, <3>4, <3>5, <4>1 DEF Finalized, Counted
      <4> QED
        BY <4>2 DEF x
    <3>6. CASE x # trailing
      <4>1. ~Stops(trailing) /\ x = [trailing EXCEPT !.out = head]
        BY <3>1, <3>6
      <4>2. x.state = trailing.state /\ x.out = head /\ x.err = trailing.err
        BY <2>9, <4>1 DEF ResultType
      <4>3. PICK mu \in Mutations, len \in Nat :
              /\ trailing.out = BuildForPhase(side, Body, mu, len, mode, eos)
              /\ carries => "filter" \in mu
        BY <2>9, <4>1 DEF Says
      <4>4. head = <<HeadersResponse(side, mu)>>
        <5> DEFINE b == BodyResponses(side, TRUE, len, 0, {}, mode, eos)
                   y == HeadersResponse(side, mu)
        <5>1. trailing.out = <<y>> \o b
          BY <2>14, <4>3 DEF BuildForPhase, Headers, Body
        <5>2. b \in Seq(ResponseType) /\ y \in ResponseType
          <6>1. y \in ResponseType
            BY HeadersOut
          <6>2. ASSUME NEW some \in BOOLEAN, NEW n \in Nat, NEW none \in Mutations
                PROVE  BodyResponses(side, some, len, n, none, mode, eos) \in Seq(ResponseType)
            BY <1>1, <2>12, BodyResponsesType
          <6>3. {} \in Mutations /\ 0 \in Nat /\ TRUE \in BOOLEAN
            BY DEF Mutations
          <6>4. b \in Seq(ResponseType)
            BY <6>2, <6>3, Zenon
          <6> QED
            BY <6>1, <6>4
        <5> HIDE DEF b, y
        <5>3. Head(<<y>> \o b) = y
          BY <5>2
        <5> QED
          BY <5>1, <5>3 DEF y
      <4>5. /\ head \in Seq(ResponseType)
            /\ Orderly(head, side, "none", "trailers")
            /\ After(head, "none") = "headers"
            /\ carries => Carries(head)
        BY <1>1, <4>3, <4>4, OrderlyHeaders
      <4>6. ~Stops(x) /\ Accepts(x)
        BY <2>9, <4>1, <4>2, <4>5, OrderlyGoesOn DEF Stops, Accepts
      <4> HIDE DEF x, head
      <4>7. Ok(x)
        BY <1>4, <2>9, <2>10, <3>2, <3>3, <3>4, <4>1, <4>2, <4>5, <4>6 DEF Finalized, Counted
      <4> QED
        BY <4>7 DEF x
    <3> QED
      BY <3>5, <3>6
  <2>15. ASSUME mode = "fds", ~needed PROVE Ok(FlushDeferredFdsHeaders(closed, side))
    <3> DEFINE x == FlushDeferredFdsHeaders(closed, side)
    <3>1. /\ x.state = SendDeferredHeaders(closed, side) /\ x.out = DeferredHeaders(closed, side)
          /\ x.err = "none"
      BY DEF FlushDeferredFdsHeaders, Reply
    <3>2. ~c.needs[side] /\ ~ends /\ ~selects
      BY <2>4, <2>15
    <3>3. /\ closed.headers_sent[side] => w.stage \in {"headers", "body"}
          /\ ~closed.headers_sent[side] => w.stage = "none"
      BY <1>4, <2>2, <2>15, <3>2 DEF Current
    <3>4. TookFirst(closed, x.state, x.out, side, w.stage, "trailers")
      BY <1>1, <1>3, <3>1, <3>3, DeferredOrderly
    <3> HIDE DEF x
    <3>5. ~Stops(x) /\ Accepts(x)
      BY <3>1, <3>4, OrderlyGoesOn DEF Stops, Accepts, TookFirst
    <3>6. /\ Outer(closed, x.state, side)
          /\ x.out \in Seq(ResponseType) /\ Orderly(x.out, side, w.stage, "trailers")
          /\ After(x.out, w.stage) \in {"headers", "body", "final"}
      BY <3>3, <3>4 DEF TookFirst
    <3>7. s.hooks[side].mutated => w.mutated \/ Carries(x.out)
      BY <1>4, <2>5, <2>15, <3>4 DEF TookFirst
    <3>8. /\ Counted(closed.hooks[side], x.state.hooks[side], never, ends, selects)
          /\ Tallied(closed.hooks[side], x.state.hooks[side], ends, selects)
      BY <3>2, <3>4 DEF TookFirst, Counted, Tallied
    <3>9. Beside(s, x.state, side) /\ x.state.mode = s.mode
      BY <1>3, <3>6, FinalizedBy
    <3>10. Ok(x)
      BY <1>4, <3>5, <3>6, <3>7, <3>8, <3>9 DEF Finalized, Counted
    <3> QED
      BY <3>10 DEF x
  <2>16. ASSUME mode = "buffered", ~early PROVE Ok(RunTrailingBufferedBody(c, closed, f, side))
    <3> DEFINE x == RunTrailingBufferedBody(c, closed, f, side)
    <3>1. \/ x = trailing /\ Stops(trailing)
          \/ x = [trailing EXCEPT !.out = <<>>] /\ ~Stops(trailing)
      BY DEF RunTrailingBufferedBody, trailing
    <3>2. (ends <=> c.needs[side]) /\ (selects <=> (side = "request" /\ c.selected))
      BY <2>1, <2>16 DEF early
    <3>3. /\ Tallied(closed.hooks[side], trailing.state.hooks[side], ends, selects)
          /\ ~Stops(trailing) =>
               Counted(closed.hooks[side], trailing.state.hooks[side], mutates, ends, selects)
      BY <2>11, <3>2
    <3>4. CASE x = trailing /\ Stops(trailing)
      <4> HIDE DEF x
      <4>1. Ok(x)
        BY <1>4, <2>9, <2>10, <3>3, <3>4 DEF Finalized, Counted
      <4> QED
        BY <4>1 DEF x
    <3>5. CASE x = [trailing EXCEPT !.out = <<>>] /\ ~Stops(trailing)
      <4>1. x.state = trailing.state /\ x.out = <<>> /\ x.err = trailing.err
        BY <2>9, <3>5 DEF ResultType
      <4>2. /\ <<>> \in Seq(ResponseType) /\ Orderly(<<>>, side, w.stage, "trailers")
            /\ After(<<>>, w.stage) = w.stage
        BY OrderlyNothing
      <4>3. ~Stops(x) /\ Accepts(x)
        BY <2>9, <3>5, <4>1, <4>2, OrderlyGoesOn DEF Stops, Accepts
      <4> HIDE DEF x
      <4>4. Ok(x)
        BY <1>4, <2>6, <2>9, <2>10, <2>16, <3>3, <3>5, <4>1, <4>2, <4>3 DEF Finalized, Counted
      <4> QED
        BY <4>4 DEF x
    <3> QED
      BY <3>1, <3>4, <3>5
  <2>17. ASSUME \/ mode = "none" \/ (mode = "streamed" /\ ~needed)
                \/ (mode = "buffered" /\ early)
         PROVE  Ok(Reply(closed, <<>>))
    <3>1. ~ends /\ ~selects
      BY <2>4, <2>17 DEF early
    <3>2. s.hooks[side].mutated => w.mutated \/ mode = "buffered"
      BY <2>5, <2>17
    <3> QED
      BY <1>3, <1>5, <1>6, <2>6, <2>17, <3>1, <3>2
  <2> HIDE DEF Ok, needed
  <2> QED
    BY <1>2, <1>8, <2>7, <2>14, <2>15, <2>16, <2>17
<1> QED
  BY <1>7, <1>8

\* handle_trailers.
LEMMA TrailersHanded ==
  ASSUME NEW c \in ChainType, NEW s \in LiveState, NEW f \in Outcomes, NEW side \in Sides,
         NEW w \in WireType, s.order[side] = Trailers, Ready(c, s, w, side),
         s.headers["request"], NEW ends, NEW selects,
         ends <=> Unended(s, side) /\ s.mode[side] # "none" /\ c.needs[side]
                    /\ ~(side = "request" /\ s.buffered_request_body_processed),
         selects <=> Unended(s, side) /\ s.mode[side] # "none" /\ side = "request" /\ c.selected
                       /\ ~s.buffered_request_body_processed
  PROVE  Handed(c, s, HandleTrailers(c, s, f, side), side, w, ends, selects)
<1> DEFINE r == FinalizeBodyOnTrailers(c, s, f, side)
           last == <<TrailersResponse(side)>>
           x == HandleTrailers(c, s, f, side)
<1>1. Finalized(s, r, side, w, ends, selects)
  BY FinalizeFinalized
<1>2. r \in ResultType
  BY FinalizeGood DEF Good
<1> HIDE DEF r
<1>3. \/ x = r /\ Stops(r)
      \/ x = [r EXCEPT !.out = Append(@, TrailersResponse(side))] /\ ~Stops(r)
  BY DEF HandleTrailers, r
<1> SUFFICES Handed(c, s, x, side, w, ends, selects)
  OBVIOUS
<1>4. CASE x = r /\ Stops(r)
  BY <1>1, <1>4, HandedByStop DEF Finalized
<1>5. CASE x = [r EXCEPT !.out = Append(@, TrailersResponse(side))] /\ ~Stops(r)
  <2> DEFINE mid == After(r.out, w.stage)
             o == r.out \o last
             t == r.state
  <2>1. /\ r.out \in Seq(ResponseType) /\ Orderly(r.out, side, w.stage, "trailers")
        /\ mid \in {"headers", "body", "final"}
        /\ t.hooks[side].mutated => w.mutated \/ Carries(r.out) \/ s.mode[side] = "buffered"
    BY <1>1, <1>5 DEF Finalized
  <2>2. x.state = t /\ x.err = r.err /\ x.out = o
    <3>1. Append(r.out, TrailersResponse(side)) = o
      BY <2>1
    <3> QED
      BY <1>2, <1>5, <3>1 DEF ResultType
  <2> HIDE DEF mid
  <2>3. last \in Seq(ResponseType) /\ Orderly(last, side, mid, "trailers")
        /\ After(last, mid) = "trailers"
    BY <2>1, OrderlyTrailers
  <2> HIDE DEF last
  <2>4. /\ Orderly(o, side, w.stage, "trailers") /\ After(o, w.stage) = "trailers"
        /\ Carries(r.out) => Carries(o)
    <3>1. w.stage \in WireStages /\ "trailers" \in WireStages
      BY DEF WireType, WireStages
    <3> QED
      BY <2>1, <2>3, <3>1, OrderlyBoth DEF mid
  <2> HIDE DEF o
  <2>5. Beside(s, t, side) /\ t.mode = s.mode /\ t.order = s.order /\ Accepts(r)
    BY <1>1 DEF Finalized, Beside
  <2>6. t.order[side] = Trailers /\ Asking(t, side) = "trailers"
    BY <2>5 DEF Asking, Unseen, Headers, Body, Trailers
  <2>7. ~Stops(x) /\ Accepts(x)
    BY <1>5, <2>2, <2>4, <2>5, OrderlyGoesOn DEF Stops, Accepts
  <2>8. Wired(c, t, Received(w, o), side)
    <3> DEFINE z == Received(w, o)
    <3>1. z.stage = "trailers" /\ ~z.disordered /\ (z.mutated <=> w.mutated \/ Carries(o))
      BY <2>4 DEF Received, Ready
    <3> HIDE DEF z
    <3>2. Wired(c, t, z, side)
      BY <2>1, <2>4, <2>5, <2>6, <3>1, WiredTrailers
    <3> QED
      BY <3>2 DEF z
  <2> HIDE DEF x
  <2> QED
    BY <1>1, <1>5, <2>2, <2>4, <2>5, <2>6, <2>7, <2>8 DEF Handed, Finalized
<1> QED
  BY <1>3, <1>4, <1>5

\* A direction whose headers are the first that is seen of it.
First(s, w, side) ==
  /\ s.order[side] = Headers
  /\ Unended(s, side)
  /\ ~s.headers_sent[side]
  /\ ~s.filters_executed[side]
  /\ ~s.hooks[side].mutated
  /\ w.stage = "none"
  /\ ~w.disordered

\* The marks of headers: that they are there, whether they end the stream, and whether
\* they are answered at once.
Started(s, t, side, eos) ==
  /\ t.order = s.order
  /\ t.local_reply = s.local_reply
  /\ t.mode = s.mode
  /\ t.deferred = s.deferred
  /\ t.filters_executed = s.filters_executed
  /\ t.hooks = s.hooks
  /\ t.buffered_request_body_processed = s.buffered_request_body_processed
  /\ t.eos[side].headers <=> s.eos[side].headers \/ eos
  /\ t.eos[side].body = s.eos[side].body
  /\ \A o \in Sides \ {side} :
       /\ t.eos[o] = s.eos[o]
       /\ t.headers[o] = s.headers[o]
       /\ t.headers_sent[o] = s.headers_sent[o]

\* Headers as they are marked, kept and answered.
LEMMA HeadersStarted ==
  ASSUME NEW s \in LiveState, NEW m \in MessageType, m.step = Headers
  PROVE  LET side == m.side
             marked == MarkHeaders(s, m)
             parsed == [marked EXCEPT !.headers[side] = TRUE]
             sent == [parsed EXCEPT !.headers_sent[side] = TRUE]
         IN /\ marked \in LiveState /\ parsed \in LiveState /\ sent \in LiveState
            /\ Started(s, marked, side, m.eos)
            /\ Started(s, parsed, side, m.eos)
            /\ Started(s, sent, side, m.eos)
            /\ parsed.headers[side] /\ sent.headers[side] /\ sent.headers_sent[side]
            /\ parsed.headers_sent = s.headers_sent
<1> DEFINE side == m.side
           marked == MarkHeaders(s, m)
           parsed == [marked EXCEPT !.headers[side] = TRUE]
           sent == [parsed EXCEPT !.headers_sent[side] = TRUE]
<1>1. side \in Sides /\ m.eos \in BOOLEAN /\ s \in StateType
  BY DEF MessageType, LiveState
<1>2. /\ marked \in LiveState /\ Started(s, marked, side, m.eos)
      /\ marked.headers_sent = s.headers_sent
      /\ marked.headers = s.headers
  <2> DEFINE e == HeadersEnd(s.eos[side], m.eos)
  <2>1. (e.headers <=> s.eos[side].headers \/ m.eos) /\ e.body = s.eos[side].body
    BY <1>1 DEF HeadersEnd, StateType, EosType
  <2>2. marked = [s EXCEPT !.eos[side] = e]
    BY DEF MarkHeaders
  <2> HIDE DEF e
  <2>3. marked.eos[side] = e /\ (\A o \in Sides \ {side} : marked.eos[o] = s.eos[o])
    BY <1>1, <2>2 DEF StateType
  <2>4. /\ marked.order = s.order /\ marked.local_reply = s.local_reply /\ marked.mode = s.mode
        /\ marked.deferred = s.deferred /\ marked.filters_executed = s.filters_executed
        /\ marked.hooks = s.hooks /\ marked.headers = s.headers
        /\ marked.buffered_request_body_processed = s.buffered_request_body_processed
        /\ marked.headers_sent = s.headers_sent
    BY <1>1, <2>2 DEF StateType
  <2>5. marked \in LiveState
    BY <1>1, LiveUpdates
  <2> HIDE DEF marked
  <2> QED
    BY <2>1, <2>3, <2>4, <2>5 DEF Started
<1> HIDE DEF marked
<1>3. marked \in StateType /\ parsed \in LiveState
  BY <1>1, <1>2, LiveUpdates DEF LiveState
<1>4. /\ Started(s, parsed, side, m.eos) /\ parsed.headers[side]
      /\ parsed.headers_sent = s.headers_sent
  BY <1>1, <1>2, <1>3 DEF Started, StateType
<1> HIDE DEF parsed
<1>5. parsed \in StateType /\ sent \in LiveState
  BY <1>1, <1>3, LiveUpdates DEF LiveState
<1>6. Started(s, sent, side, m.eos) /\ sent.headers[side] /\ sent.headers_sent[side]
  BY <1>1, <1>4, <1>5, ZenonT(40) DEF Started, StateType
<1> HIDE DEF sent
<1> QED
  BY <1>2, <1>3, <1>4, <1>5, <1>6 DEF marked, parsed, sent

\* What is run on marked headers stays beside the other direction.
LEMMA StartedBeside ==
  ASSUME NEW s, NEW t, NEW u, NEW side \in Sides, NEW eos, Started(s, t, side, eos)
  PROVE  /\ Beside(s, t, side)
         /\ Outer(t, u, side) => Beside(s, u, side)
BY DEF Started, Outer, Beside, Sides

\* Only the stage of what was received matters to an open direction.
LEMMA CurrentStage ==
  ASSUME NEW c, NEW s, NEW w, NEW v, NEW side, Current(c, s, w, side), v.stage = w.stage
  PROVE  Current(c, s, v, side)
BY DEF Current

\* Headers that are answered,
LEMMA HeadersSaid ==
  ASSUME NEW c, NEW s \in StateType, NEW r, NEW side \in Sides, NEW w \in WireType,
         NEW ends, NEW selects, NEW eos \in BOOLEAN, NEW carries,
         First(s, w, side), Beside(s, r.state, side), Accepts(r), ~Stops(r),
         r.state.mode = s.mode,
         Says(r.out, side, Headers, s.mode[side], eos, carries),
         Unended(r.state, side) => Current(c, r.state, [stage |-> "headers"], side),
         r.state.hooks[side].mutated =>
           carries \/ (Unended(r.state, side) /\ Parked(c, r.state, side)),
         Counted(s.hooks[side], r.state.hooks[side], r.state.hooks[side].mutated, ends, selects)
  PROVE  Handed(c, s, r, side, w, ends, selects)
<1> DEFINE u == r.state
           z == Received(w, r.out)
<1>1. u.order = s.order /\ u.order[side] = Headers /\ Asking(u, side) = "headers"
  BY DEF Beside, First, Asking, Unseen, Headers, Body, Trailers
<1>2. Headers \in Steps /\ s.mode[side] \in BodyModes /\ w.stage = "none"
      /\ "none" \in WireStages /\ "headers" \in WireStages
  BY DEF Steps, StateType, First, WireStages
<1>3. StartsAt(Headers, s.mode[side], "none") /\ BuiltStage(Headers, s.mode[side], eos) = "headers"
      /\ "headers" \in Peer!UpTo("none", "headers")
  BY <1>2, RankOf DEF StartsAt, BuiltStage, Peer!UpTo
<1>4. /\ Orderly(r.out, side, "none", "headers") /\ After(r.out, "none") = "headers"
      /\ carries => Carries(r.out)
  <2> DEFINE o == r.out
             mode == s.mode[side]
             none == "none"
             to == "headers"
  <2>1. /\ side \in Sides /\ Headers \in Steps /\ mode \in BodyModes /\ eos \in BOOLEAN
        /\ Says(o, side, Headers, mode, eos, carries) /\ none \in WireStages
        /\ to \in WireStages /\ StartsAt(Headers, mode, none)
        /\ BuiltStage(Headers, mode, eos) \in Peer!UpTo(none, to)
        /\ BuiltStage(Headers, mode, eos) = to
    BY <1>2, <1>3
  <2> HIDE DEF o, mode, none, to
  <2>2. Voiced(o, side, BuiltStage(Headers, mode, eos), carries, none, to)
    BY <2>1, SaysOrderly, Zenon
  <2> QED
    BY <2>1, <2>2 DEF o, none, to, Voiced
<1>5. z.stage = "headers" /\ ~z.disordered /\ (Carries(r.out) => z.mutated)
  BY <1>2, <1>4 DEF Received, First
<1> HIDE DEF z
<1>6. Wired(c, u, z, side)
  <2>1. CASE Unended(u, side)
    <3>1. Current(c, u, z, side)
      <4> DEFINE v == [stage |-> "headers"]
      <4>1. Current(c, u, v, side) /\ v.stage = z.stage
        BY <1>5, <2>1
      <4> HIDE DEF v
      <4> QED
        BY <4>1, CurrentStage
    <3> QED
      BY <1>1, <1>4, <1>5, <2>1, <3>1, WiredOpen DEF Headers, Body
  <2>2. CASE ~Unended(u, side)
    BY <1>1, <1>4, <1>5, <2>2, WiredEnded DEF Headers, Body
  <2> QED
    BY <2>1, <2>2
<1>7. Tallied(s.hooks[side], u.hooks[side], ends, selects)
  BY DEF Counted, Tallied
<1> HIDE DEF u
<1> QED
  BY <1>1, <1>2, <1>4, <1>6, <1>7 DEF Handed, Counted, z, u

\* and headers that are not answered yet.
LEMMA HeadersUnsaid ==
  ASSUME NEW c, NEW s \in StateType, NEW r, NEW side \in Sides, NEW w \in WireType,
         NEW ends, NEW selects, First(s, w, side), Beside(s, r.state, side), Accepts(r),
         ~Stops(r), r.out = <<>>, Unended(r.state, side),
         Current(c, r.state, [stage |-> "none"], side),
         r.state.hooks[side].mutated => Parked(c, r.state, side),
         Counted(s.hooks[side], r.state.hooks[side], r.state.hooks[side].mutated, ends, selects)
  PROVE  Handed(c, s, r, side, w, ends, selects)
<1> DEFINE u == r.state
           v == [stage |-> "none"]
<1>1. u.order[side] = Headers /\ Asking(u, side) = "headers" /\ w.stage = v.stage
  BY DEF Beside, First, Asking, Unseen, Headers, Body, Trailers
<1>2. Orderly(r.out, side, w.stage, "headers") /\ Received(w, r.out) = w
  <2>1. Orderly(<<>>, side, w.stage, "headers")
    BY OrderlyNothing
  <2> QED
    BY <2>1, ReceivedNothing
<1>3. Current(c, u, v, side)
  OBVIOUS
<1> HIDE DEF v, u
<1>4. Current(c, u, w, side)
  BY <1>1, <1>3, CurrentStage
<1>5. Wired(c, u, w, side)
  BY <1>1, <1>4, WiredOpen DEF First, Headers, Body, v, u
<1>6. Tallied(s.hooks[side], u.hooks[side], ends, selects)
  BY DEF Counted, Tallied, u
<1> QED
  BY <1>1, <1>2, <1>5, <1>6 DEF Handed, Counted, u

\* apply_response_mode_override changes neither the order nor the content of what is
\* answered, and of the state the response mode alone.
LEMMA OverrideHanded ==
  ASSUME NEW c \in ChainType, NEW s, NEW r \in ResultType, NEW m, NEW w \in WireType,
         NEW ends, NEW selects, Handed(c, s, r, "request", w, ends, selects)
  PROVE  Handed(c, s, ApplyResponseModeOverride(c, r, m), "request", w, ends, selects)
<1> DEFINE t == [r.state EXCEPT !.mode["response"] = "streamed"]
           o == [i \in DOMAIN r.out |-> WithOverride(r.out[i])]
           x == Reply(t, o)
           side == "request"
<1>1. "request" \in Sides /\ r.state \in StateType /\ r.out \in Seq(ResponseType)
  BY DEF Sides, ResultType
<1>2. \/ ApplyResponseModeOverride(c, r, m) = r
      \/ /\ ApplyResponseModeOverride(c, r, m) = x
         /\ r.err = "none"
         /\ \E i \in DOMAIN r.out : IsRequestHeaders(r.out[i])
  BY DEF ApplyResponseModeOverride
<1>3. ASSUME r.err = "none", \E i \in DOMAIN r.out : IsRequestHeaders(r.out[i])
      PROVE  Handed(c, s, x, "request", w, ends, selects)
  <2>1. /\ t.order = r.state.order /\ t.local_reply = r.state.local_reply
        /\ t.mode[side] = r.state.mode[side] /\ t.eos = r.state.eos
        /\ t.headers = r.state.headers /\ t.headers_sent = r.state.headers_sent
        /\ t.deferred = r.state.deferred /\ t.hooks = r.state.hooks
        /\ t.filters_executed = r.state.filters_executed
        /\ t.buffered_request_body_processed = r.state.buffered_request_body_processed
    BY <1>1 DEF StateType, Sides
  <2> HIDE DEF t
  <2>2. ~Stops(r)
    <3>1. PICK i \in DOMAIN r.out : IsRequestHeaders(r.out[i])
      BY <1>3
    <3>2. ~Silent(r)
      BY <3>1 DEF Silent, IsRequestHeaders, Immediate, Plain
    <3> QED
      BY <3>2 DEF Handed
  <2>3. DOMAIN o = DOMAIN r.out
    OBVIOUS
  <2>4. ASSUME NEW i \in DOMAIN r.out
        PROVE  /\ o[i].side = r.out[i].side /\ o[i].kind = r.out[i].kind
               /\ o[i].eos = r.out[i].eos /\ o[i].mutation = r.out[i].mutation
               /\ StageOf(o[i]) = StageOf(r.out[i])
               /\ IsImmediate(o[i]) <=> IsImmediate(r.out[i])
    <3>1. r.out[i] \in ResponseType /\ o[i] = WithOverride(r.out[i])
      BY <1>1
    <3> HIDE DEF o
    <3>2. /\ o[i].side = r.out[i].side /\ o[i].kind = r.out[i].kind
          /\ o[i].eos = r.out[i].eos /\ o[i].mutation = r.out[i].mutation
      BY <3>1 DEF WithOverride, ResponseType
    <3> QED
      BY <3>2 DEF StageOf, IsImmediate
  <2>5. DOMAIN r.out = 1..Len(r.out) /\ Len(r.out) \in Nat /\ o \in Seq(ResponseType)
        /\ Len(o) = Len(r.out)
    <3>1. DOMAIN r.out = 1..Len(r.out) /\ Len(r.out) \in Nat
      BY <1>1
    <3>2. ASSUME NEW i \in DOMAIN r.out PROVE WithOverride(r.out[i]) \in ResponseType
      <4>1. r.out[i] \in ResponseType
        BY <1>1
      <4> QED
        BY <4>1 DEF WithOverride, ResponseType
    <3> DEFINE n == Len(r.out)
    <3>3. n \in Nat /\ o \in [1..n -> ResponseType]
      BY <3>1, <3>2
    <3> HIDE DEF n, o
    <3>4. o \in Seq(ResponseType) /\ Len(o) = n
      BY <3>3
    <3> QED
      BY <3>1, <3>4 DEF n
  <2> HIDE DEF o
  <2>6. ASSUME NEW from, NEW to, Orderly(r.out, side, from, to) PROVE Orderly(o, side, from, to)
    <3>1. ASSUME NEW i \in DOMAIN o PROVE Before(o, from, i) = Before(r.out, from, i)
      BY <2>3, <2>4, <2>5, <3>1 DEF Before
    <3> QED
      BY <2>3, <2>4, <2>6, <3>1 DEF Orderly
  <2>7. ASSUME NEW from PROVE After(o, from) = After(r.out, from)
    <3>1. o = <<>> <=> r.out = <<>>
      BY <1>1, <2>3, <2>5
    <3>2. r.out # <<>> => Len(r.out) \in DOMAIN r.out
      BY <1>1, <2>5
    <3> QED
      BY <2>4, <2>5, <3>1, <3>2 DEF After
  <2>8. Carries(o) <=> Carries(r.out)
    BY <2>3, <2>4 DEF Carries
  <2>9. Received(w, o) = Received(w, r.out)
    BY <2>7, <2>8 DEF Received
  <2>10. ~HasImmediate(o)
    BY <2>2, <2>3, <2>4 DEF HasImmediate, Stops
  <2>11. x.state = t /\ x.out = o /\ ~Stops(x) /\ Accepts(x)
    BY <2>10 DEF Reply, Stops, Accepts
  <2>12. Asking(t, side) = Asking(r.state, side)
    BY <2>1 DEF Asking
  <2>13. ASSUME NEW v, Wired(c, r.state, v, side) PROVE Wired(c, t, v, side)
    BY <2>1, <2>13
    DEF Wired, Reached, Pending, Unended, Current, Owing, Parked
  <2>14. Beside(s, t, side)
    BY <2>1 DEF Handed, Beside
  <2> HIDE DEF x, side
  <2>15. Handed(c, s, x, side, w, ends, selects)
    <3>1. Handed(c, s, r, side, w, ends, selects)
      BY DEF side
    <3>2. /\ Orderly(r.out, side, w.stage, Asking(r.state, side))
          /\ Wired(c, r.state, Received(w, r.out), side)
          /\ ends => t.hooks[side].eos = More(s.hooks[side].eos)
          /\ selects => t.hooks[side].selected = More(s.hooks[side].selected)
          /\ Tallied(s.hooks[side], t.hooks[side], ends, selects)
      BY <2>1, <2>2, <3>1 DEF Handed
    <3>3. /\ Orderly(o, side, w.stage, Asking(t, side))
          /\ Wired(c, t, Received(w, o), side)
      BY <2>6, <2>9, <2>12, <2>13, <3>2
    <3> QED
      BY <2>11, <2>14, <3>2, <3>3 DEF Handed
  <2> QED
    BY <2>15 DEF side
<1> HIDE DEF x
<1> QED
  BY <1>2, <1>3

\* What a pipeline did to headers that end the stream.
LEMMA HeadersPiped ==
  ASSUME NEW c, NEW s \in StateType, NEW t, NEW r, NEW side \in Sides, NEW w \in WireType,
         NEW ends, NEW selects, NEW b \in BOOLEAN, NEW mutates, First(s, w, side),
         Started(s, t, side, TRUE), Outer(t, r.state, side), Accepts(r),
         Stops(r) => Silent(r), Tallied(t.hooks[side], r.state.hooks[side], ends, selects),
         ~Stops(r) =>
           /\ Counted(t.hooks[side], r.state.hooks[side], mutates, ends, selects)
           /\ Says(r.out, side, Headers, s.mode[side], b, mutates)
  PROVE  Handed(c, s, r, side, w, ends, selects)
<1>1. Beside(s, r.state, side) /\ t.hooks = s.hooks /\ r.state.mode = s.mode
      /\ ~Unended(r.state, side)
  <2>1. Beside(s, r.state, side)
    BY StartedBeside
  <2> QED
    BY <2>1 DEF Started, Outer, Unended
<1>2. CASE Stops(r)
  BY <1>1, <1>2, HandedByStop
<1>3. CASE ~Stops(r)
  <2> DEFINE g == r.state.hooks[side]
  <2>1. /\ Counted(s.hooks[side], g, g.mutated, ends, selects)
        /\ g.mutated => mutates
    BY <1>1, <1>3 DEF Counted, First
  <2>2. Says(r.out, side, Headers, s.mode[side], b, mutates)
    BY <1>3
  <2> HIDE DEF g
  <2> QED
    BY <1>1, <1>3, <2>1, <2>2, HeadersSaid DEF g
<1> QED
  BY <1>2, <1>3

\* What header filters that run early did to headers with a body to come.
LEMMA HeadersEarly ==
  ASSUME NEW c, NEW s \in StateType, NEW t, NEW r, NEW side \in Sides, NEW w \in WireType,
         NEW ends, NEW selects, NEW f, ~ends, ~selects, First(s, w, side), r \in ResultType,
         Started(s, t, side, FALSE), t.headers[side],
         NEW delivery \in {"send", "ack", "silent"}, EarlyEffect(t, r, side, f, delivery),
         side = "request" /\ c.selected => s.mode[side] = "buffered",
         \/ delivery = "send" /\ s.mode[side] \in {"none", "streamed"} /\ t.headers_sent[side]
         \/ delivery = "ack" /\ s.mode[side] = "buffered" /\ side = "response"
         \/ delivery = "silent" /\ s.mode[side] = "fds" /\ ~t.headers_sent[side] /\ ~c.needs[side]
  PROVE  Handed(c, s, r, side, w, ends, selects)
<1> DEFINE u == r.state
           g == u.hooks[side]
           mode == s.mode[side]
           mutates == f.header = "mutate"
           carries == mutates /\ delivery = "send"
<1>1. Beside(s, u, side) /\ t.hooks = s.hooks /\ u.mode = s.mode /\ Unended(u, side)
      /\ t.mode = s.mode /\ Accepts(r) /\ (Stops(r) => Silent(r))
  <2>1. Outer(t, u, side) /\ Accepts(r) /\ (Stops(r) => Silent(r))
    BY DEF EarlyEffect
  <2>2. Beside(s, u, side)
    BY <2>1, StartedBeside
  <2> QED
    BY <2>1, <2>2 DEF Started, Outer, Unended, First
<1>2. Tallied(s.hooks[side], g, ends, selects)
  BY <1>1 DEF EarlyEffect, Tallied
<1>3. CASE Stops(r)
  BY <1>1, <1>2, <1>3, HandedByStop
<1>4. CASE ~Stops(r)
  <2>1. /\ u.headers = t.headers /\ u.headers_sent = t.headers_sent /\ u.filters_executed[side]
        /\ delivery = "silent" => r.out = <<>>
        /\ delivery # "silent" => Says(r.out, side, Headers, t.mode[side], FALSE, carries)
        /\ delivery # "send" /\ mutates => "filter" \in u.deferred[side]
    BY <1>4 DEF EarlyEffect
  <2>2. Counted(s.hooks[side], g, g.mutated, ends, selects) /\ (g.mutated => mutates)
    BY <1>1, <1>4 DEF EarlyEffect, Counted, First
  <2> HIDE DEF mutates
  <2>3. CASE delivery = "silent"
    <3>1. Current(c, u, [stage |-> "none"], side)
      BY <1>1, <2>1, <2>3 DEF Current
    <3>2. g.mutated => Parked(c, u, side)
      BY <1>1, <2>1, <2>2, <2>3 DEF Parked
    <3> HIDE DEF u, g
    <3> QED
      BY <1>1, <1>4, <2>1, <2>2, <2>3, <3>1, <3>2, HeadersUnsaid DEF u, g
  <2>4. CASE delivery # "silent"
    <3>1. Current(c, u, [stage |-> "headers"], side)
      BY <1>1, <2>1, <2>4 DEF Current
    <3>2. g.mutated => carries \/ (Unended(u, side) /\ Parked(c, u, side))
      BY <1>1, <2>1, <2>2, <2>4 DEF Parked
    <3> DEFINE b == FALSE
    <3>3. b \in BOOLEAN /\ Says(r.out, side, Headers, s.mode[side], b, carries)
      BY <1>1, <2>1, <2>4
    <3> HIDE DEF u, g, b, carries
    <3> QED
      BY <1>1, <1>4, <2>2, <3>1, <3>2, <3>3, HeadersSaid DEF u, g
  <2> QED
    BY <2>3, <2>4
<1> QED
  BY <1>3, <1>4

\* handle_request_headers.
LEMMA RequestHeadersHanded ==
  ASSUME NEW c \in ChainType, NEW s \in LiveState, NEW f \in Outcomes, NEW m \in MessageType,
         m.side = "request", m.step = Headers, NEW w \in WireType, First(s, w, "request"),
         NEW ends, NEW selects, ~ends, selects <=> m.eos /\ c.selected
  PROVE  Handed(c, s, HandleRequestHeaders(c, s, f, m), "request", w, ends, selects)
<1> DEFINE side == "request"
           marked == MarkHeaders(s, m)
           parsed == [marked EXCEPT !.headers["request"] = TRUE]
           sent == [parsed EXCEPT !.headers_sent["request"] = TRUE]
           mode == s.mode["request"]
           handled == IF m.eos THEN HandleEndStreamRequestHeaders(c, parsed, f)
                      ELSE HandleRequestHeadersWithBody(c, parsed, f)
           r == HandleRequestHeaders(c, s, f, m)
           Done(x) == Handed(c, s, x, "request", w, ends, selects)
           Ok(x) == x \in ResultType /\ Done(x)
<1>1. side \in Sides /\ s \in StateType /\ Headers \in Steps /\ Body \in Steps /\ mode \in BodyModes
      /\ m.eos \in BOOLEAN
  BY DEF Sides, LiveState, Steps, StateType, MessageType
<1>2. /\ marked \in LiveState /\ parsed \in LiveState /\ sent \in LiveState
      /\ Started(s, marked, side, m.eos)
      /\ Started(s, parsed, side, m.eos)
      /\ Started(s, sent, side, m.eos)
      /\ parsed.headers[side] /\ sent.headers[side] /\ sent.headers_sent[side]
      /\ parsed.headers_sent = s.headers_sent
  BY HeadersStarted
<1> HIDE DEF marked
<1>3. ~HeadersRedelivered(s, m)
  BY DEF HeadersRedelivered, First, Unended
<1>4. \/ r \in {Reply(marked, <<Immediate>>), Reply(parsed, <<Immediate>>)}
      \/ /\ m.eos \/ ~(mode = "fds" /\ c.selected)
         /\ r = ApplyResponseModeOverride(c, handled, m)
  BY <1>3 DEF HandleRequestHeaders, marked
<1> HIDE DEF r, parsed
<1>5. /\ marked \in StateType /\ parsed \in StateType /\ sent \in StateType
      /\ marked.hooks = s.hooks /\ parsed.hooks = s.hooks /\ sent.hooks = s.hooks
      /\ sent.mode = s.mode /\ parsed.mode = s.mode
      /\ parsed.filters_executed = s.filters_executed
      /\ sent.filters_executed = s.filters_executed
      /\ parsed.eos[side].headers <=> m.eos
  BY <1>2 DEF LiveState, Started, First, Unended
<1> HIDE DEF sent
<1>6. Beside(s, marked, side) /\ Beside(s, parsed, side) /\ Beside(s, sent, side)
  BY <1>1, <1>2, StartedBeside
<1>7. Done(Reply(marked, <<Immediate>>)) /\ Done(Reply(parsed, <<Immediate>>))
  BY <1>1, <1>5, <1>6, HandedAtOnce
<1>8. ASSUME m.eos PROVE Ok(handled)
  <2>1. ASSUME NEW phase \in {Headers, Body}, NEW ordinary \in BOOLEAN, NEW eos \in BOOLEAN,
               (phase = Headers /\ ~c.selected) \/ (phase = Body /\ c.selected /\ ~ordinary)
        PROVE  Ok(RunRequestPipelineInner(c, parsed, f, phase, eos, ordinary))
    <3> DEFINE x == RunRequestPipelineInner(c, parsed, f, phase, eos, ordinary)
               mutates == ~parsed.filters_executed["request"] /\ f.header = "mutate"
    <3>1. RequestEffect(c, parsed, x, f, phase, eos, ordinary)
      BY <1>1, <1>2, <2>1, RequestPipelineCounted
    <3>2. x \in ResultType
      BY <1>1, <1>2, <2>1, RequestPipelineGood DEF LiveState, Good
    <3> HIDE DEF x
    <3>3. Replied(parsed, phase) = Headers
      BY <1>5, <1>8, <2>1 DEF Replied
    <3>4. /\ Outer(parsed, x.state, side) /\ Accepts(x) /\ (Stops(x) => Silent(x))
          /\ Tallied(parsed.hooks[side], x.state.hooks[side], ends, selects)
      BY <1>8, <2>1, <3>1 DEF RequestEffect, Tallied, Headers, Body
    <3>5. ~Stops(x) =>
            /\ Counted(parsed.hooks[side], x.state.hooks[side], mutates, ends, selects)
            /\ Says(x.out, side, Headers, mode, eos, mutates)
      <4>1. ASSUME ~Stops(x)
            PROVE  Counted(parsed.hooks[side], x.state.hooks[side], mutates, ends, selects)
        BY <1>8, <2>1, <3>1, <4>1 DEF RequestEffect, Counted, Headers, Body
      <4>2. ASSUME ~Stops(x)
            PROVE  Says(x.out, side, Replied(parsed, phase), parsed.mode["request"], eos, mutates)
        BY <3>1, <4>2 DEF RequestEffect
      <4> QED
        BY <1>5, <3>3, <4>1, <4>2
    <3>6. Started(s, parsed, side, TRUE)
      BY <1>2, <1>8 DEF Started
    <3> HIDE DEF mutates, side
    <3>7. Handed(c, s, x, side, w, ends, selects)
      <4>1. First(s, w, side) /\ mode = s.mode[side]
        BY DEF side
      <4> HIDE DEF mode
      <4> QED
        BY <1>1, <3>4, <3>5, <3>6, <4>1, HeadersPiped
    <3> QED
      BY <3>2, <3>7 DEF x, side
  <2> DEFINE yes == TRUE
             no == FALSE
  <2>2. yes \in BOOLEAN /\ no \in BOOLEAN /\ ~no
    OBVIOUS
  <2> HIDE DEF yes, no, Ok
  <2>3. /\ ~c.selected => Ok(RunRequestPipelineInner(c, parsed, f, Headers, yes, yes))
        /\ c.selected => Ok(RunRequestPipelineInner(c, parsed, f, Body, yes, no))
    BY <2>1, <2>2
  <2> QED
    BY <1>8, <2>3 DEF HandleEndStreamRequestHeaders, RunRequestPipeline,
                RunBodylessSelectedUpstreamPipeline, yes, no
<1>9. ASSUME ~m.eos, ~(mode = "fds" /\ c.selected) PROVE Ok(handled)
  <2>1. /\ Started(s, parsed, side, FALSE) /\ Started(s, sent, side, FALSE) /\ ~selects
    BY <1>2, <1>9 DEF Started
  <2>2. ~MissingHeaders(parsed, side) /\ ~MissingHeaders(sent, side)
    BY <1>2 DEF MissingHeaders
  <2>3. CASE mode \in {"none", "streamed"} /\ ~c.selected
    <3> DEFINE x == RunRequestHeaderFiltersEarly(sent, f, "send")
    <3>1. EarlyEffect(sent, x, side, f, "send")
      BY <1>1, <1>2, <2>2, EarlyCounted
    <3>2. x \in ResultType
      BY <1>2, <1>5, EarlyGood DEF LiveState, Good
    <3>3. handled = x
      BY <1>5, <1>9, <2>3 DEF HandleRequestHeadersWithBody, sent
    <3> HIDE DEF x, handled
    <3>4. Done(x)
      BY <1>1, <1>2, <2>1, <2>3, <3>1, <3>2, HeadersEarly
    <3> QED
      BY <3>2, <3>3, <3>4
  <2>4. CASE mode \in {"none", "streamed"} /\ c.selected
    <3> DEFINE ran == RunRequestHeaderFiltersEarly(parsed, f, "silent")
               x == Reply(ran.state, <<Immediate>>)
    <3>1. EarlyEffect(parsed, ran, side, f, "silent")
      BY <1>1, <1>2, <2>2, EarlyCounted
    <3>2. ran \in ResultType
      BY <1>2, <1>5, EarlyGood DEF LiveState, Good
    <3>3. handled = IF Stops(ran) THEN ran ELSE x
      BY <1>5, <1>9, <2>4 DEF HandleRequestHeadersWithBody, HandleUnsupportedSelected
    <3> HIDE DEF ran, handled
    <3>4. Outer(parsed, ran.state, side) /\ Accepts(ran) /\ (Stops(ran) => Silent(ran))
          /\ Tallied(s.hooks[side], ran.state.hooks[side], ends, selects)
      BY <1>5, <2>1, <3>1 DEF EarlyEffect, Tallied
    <3>5. Beside(s, ran.state, side)
      BY <1>1, <1>2, <3>4, StartedBeside
    <3>6. ran.state \in StateType
      BY <3>2 DEF ResultType
    <3>7. Stops(x) /\ x.state = ran.state /\ Silent(x) /\ Accepts(x) /\ x \in ResultType
      <4>1. Stops(x) /\ x.state = ran.state
        BY <3>6, WaysToStop
      <4>2. x \in ResultType
        BY <3>6, ImmediateGood DEF Good
      <4> QED
        BY <4>1, <4>2 DEF Silent, Accepts, Reply
    <3> HIDE DEF x
    <3>8. Done(x) /\ (Stops(ran) => Done(ran))
      BY <3>4, <3>5, <3>7, HandedByStop
    <3> QED
      BY <3>2, <3>3, <3>7, <3>8
  <2>5. CASE mode = "buffered"
    <3> DEFINE x == Reply(sent, <<HeadersResponse("request", {})>>)
    <3>1. handled = x
      BY <1>5, <1>9, <2>5 DEF HandleRequestHeadersWithBody, sent
    <3>2. x.state = sent /\ x.out = <<HeadersResponse("request", {})>> /\ x.err = "none"
      BY DEF Reply
    <3>3. x \in ResultType /\ ~Stops(x) /\ Accepts(x)
      <4>1. {} \in Mutations
        BY DEF Mutations
      <4>2. <<HeadersResponse("request", {})>> \in Seq(ResponseType)
        BY <1>1, <4>1, HeadersOut
      <4>3. ~IsImmediate(HeadersResponse("request", {}))
        BY DEF IsImmediate, HeadersResponse, Plain
      <4> QED
        BY <1>5, <3>2, <4>2, <4>3 DEF Reply, ResultType, Stops, HasImmediate, Accepts, Errors
    <3> DEFINE no == FALSE
    <3>4. no \in BOOLEAN /\ Says(x.out, side, Headers, mode, no, no)
      <4>1. {} \in Mutations /\ (no => "filter" \in {})
        BY DEF Mutations
      <4> HIDE DEF no
      <4>2. Says(<<HeadersResponse("request", {})>>, side, Headers, mode, no, no)
        BY <1>1, <4>1, SaysHeaders
      <4> QED
        BY <3>2, <4>2 DEF no
    <3> HIDE DEF x, handled, no
    <3>5. ~sent.hooks[side].mutated /\ Unended(sent, side)
      BY <1>5, <2>1 DEF First, Started, Unended
    <3>6. Current(c, sent, [stage |-> "headers"], side)
      BY <1>2, <1>5, <2>5, <3>5 DEF Current
    <3>7. Counted(s.hooks[side], sent.hooks[side], sent.hooks[side].mutated, ends, selects)
      BY <1>5, <2>1 DEF Counted
    <3>8. Done(x)
      BY <1>1, <1>5, <1>6, <3>2, <3>3, <3>4, <3>5, <3>6, <3>7, HeadersSaid
    <3> QED
      BY <3>1, <3>3, <3>8
  <2>6. CASE mode = "fds" /\ ~c.needs["request"]
    <3> DEFINE x == RunRequestHeaderFiltersEarly(parsed, f, "silent")
    <3>1. EarlyEffect(parsed, x, side, f, "silent")
      BY <1>1, <1>2, <2>2, EarlyCounted
    <3>2. x \in ResultType
      BY <1>2, <1>5, EarlyGood DEF LiveState, Good
    <3>3. handled = x
      BY <1>5, <1>9, <2>6 DEF HandleRequestHeadersWithBody
    <3>4. ~parsed.headers_sent[side]
      BY <1>2 DEF First
    <3> HIDE DEF x, handled
    <3>5. Done(x)
      BY <1>1, <1>2, <1>9, <2>1, <2>6, <3>1, <3>2, <3>4, HeadersEarly
    <3> QED
      BY <3>2, <3>3, <3>5
  <2>7. CASE mode = "fds" /\ c.needs["request"]
    <3> DEFINE x == Reply(parsed, <<>>)
    <3>1. handled = x
      BY <1>5, <1>9, <2>7 DEF HandleRequestHeadersWithBody
    <3>2. x.state = parsed /\ x.out = <<>> /\ x.err = "none" /\ x \in ResultType
      BY <1>5 DEF Reply, ResultType, Errors
    <3>3. ~Stops(x) /\ Accepts(x)
      BY <3>2 DEF Stops, HasImmediate, Accepts
    <3> HIDE DEF x, handled
    <3>4. ~parsed.hooks[side].mutated /\ Unended(parsed, side)
      BY <1>5, <2>1 DEF First, Started, Unended
    <3>5. Current(c, parsed, [stage |-> "none"], side)
      BY <1>2, <1>5, <1>9, <2>7, <3>4 DEF Current
    <3>6. Counted(s.hooks[side], parsed.hooks[side], parsed.hooks[side].mutated, ends, selects)
      BY <1>5, <2>1 DEF Counted
    <3>7. Done(x)
      BY <1>1, <1>6, <3>2, <3>3, <3>4, <3>5, <3>6, HeadersUnsaid
    <3> QED
      BY <3>1, <3>2, <3>7
  <2> QED
    BY <1>1, <2>3, <2>4, <2>5, <2>6, <2>7 DEF BodyModes
<1> HIDE DEF handled
<1>10. (m.eos \/ ~(mode = "fds" /\ c.selected)) => Done(ApplyResponseModeOverride(c, handled, m))
  BY <1>8, <1>9, OverrideHanded
<1>11. Done(r)
  BY <1>4, <1>7, <1>10
<1> QED
  BY <1>11 DEF r

\* handle_response_headers, of a stream that is no local reply.
LEMMA ResponseHeadersHanded ==
  ASSUME NEW c \in ChainType, NEW s \in LiveState, NEW f \in Outcomes, NEW m \in MessageType,
         m.side = "response", m.step = Headers, NEW w \in WireType, First(s, w, "response"),
         s.headers["request"], NEW ends, NEW selects, ~ends, ~selects
  PROVE  Handed(c, s, HandleResponseHeaders(c, s, f, m), "response", w, ends, selects)
<1> DEFINE side == "response"
           marked == MarkHeaders(s, m)
           parsed == [marked EXCEPT !.headers["response"] = TRUE]
           sent == [parsed EXCEPT !.headers_sent["response"] = TRUE]
           mode == s.mode["response"]
           r == HandleResponseHeaders(c, s, f, m)
           piped == RunResponsePipeline(c, parsed, f, Headers, TRUE)
           early == RunResponseHeaderFiltersEarly(sent, f, "send")
           acked == RunResponseHeaderFiltersEarly(parsed, f, "ack")
           silent == RunResponseHeaderFiltersEarly(parsed, f, "silent")
           quiet == Reply(parsed, <<>>)
           ack == Reply(parsed, <<HeadersResponse("response", {})>>)
           Done(x) == Handed(c, s, x, "response", w, ends, selects)
<1>1. side \in Sides /\ s \in StateType /\ Headers \in Steps /\ mode \in BodyModes
      /\ m.eos \in BOOLEAN
  BY DEF Sides, LiveState, Steps, StateType, MessageType
<1>2. /\ parsed \in LiveState /\ sent \in LiveState
      /\ Started(s, parsed, side, m.eos)
      /\ Started(s, sent, side, m.eos)
      /\ parsed.headers[side] /\ sent.headers[side] /\ sent.headers_sent[side]
      /\ parsed.headers_sent = s.headers_sent
  BY HeadersStarted
<1>3. ~HeadersRedelivered(s, m)
  BY DEF HeadersRedelivered, First, Unended
<1>4. \/ m.eos /\ r = piped
      \/ /\ ~m.eos
         /\ \/ mode \in {"none", "streamed"} /\ r = early
            \/ mode = "buffered" /\ ~c.needs[side] /\ r = acked
            \/ mode = "fds" /\ ~c.needs[side] /\ r = silent
            \/ mode = "fds" /\ c.needs[side] /\ r = quiet
            \/ mode = "buffered" /\ c.needs[side] /\ r = ack
  BY <1>1, <1>3 DEF HandleResponseHeaders, BodyModes
<1> HIDE DEF r, parsed
<1>5. /\ parsed \in StateType /\ sent \in StateType
      /\ parsed.hooks = s.hooks /\ sent.hooks = s.hooks
      /\ sent.mode = s.mode /\ parsed.mode = s.mode
      /\ parsed.headers["request"] /\ sent.headers["request"]
  BY <1>2 DEF LiveState, Started, First, Unended, Sides
<1> HIDE DEF sent
<1>6. Beside(s, parsed, side) /\ ~MissingHeaders(parsed, side) /\ ~MissingHeaders(sent, side)
  BY <1>1, <1>2, <1>5, StartedBeside DEF MissingHeaders
<1>7. ASSUME m.eos PROVE Done(piped)
  <2> DEFINE eos == TRUE
             x == RunResponsePipeline(c, parsed, f, Headers, eos)
             mutates == f.header = "mutate"
  <2>1. eos \in BOOLEAN
    OBVIOUS
  <2> HIDE DEF eos
  <2>2. ResponseEffect(c, parsed, x, f, Headers, eos)
    BY <1>1, <1>2, <1>6, <2>1, ResponsePipelineCounted
  <2> HIDE DEF x
  <2>3. /\ Outer(parsed, x.state, side) /\ Accepts(x) /\ (Stops(x) => Silent(x))
        /\ Tallied(parsed.hooks[side], x.state.hooks[side], ends, selects)
    BY <2>2 DEF ResponseEffect, Tallied
  <2>4. ~Stops(x) =>
          /\ Counted(parsed.hooks[side], x.state.hooks[side], mutates, ends, selects)
          /\ Says(x.out, side, Headers, mode, eos, mutates)
    <3>1. ASSUME ~Stops(x)
          PROVE  Counted(parsed.hooks[side], x.state.hooks[side], mutates, ends, selects)
      BY <2>2, <3>1 DEF ResponseEffect, Counted
    <3>2. ASSUME ~Stops(x) PROVE Says(x.out, side, Headers, mode, eos, mutates)
      BY <1>5, <2>2, <3>2 DEF ResponseEffect, Says, Headers, Body
    <3> QED
      BY <3>1, <3>2
  <2>5. Started(s, parsed, side, TRUE)
    BY <1>2, <1>7 DEF Started
  <2> HIDE DEF mutates
  <2>6. Done(x)
    BY <1>1, <2>1, <2>3, <2>4, <2>5, HeadersPiped
  <2> QED
    BY <2>6 DEF x, eos
<1>8. ASSUME ~m.eos
      PROVE  /\ mode \in {"none", "streamed"} => Done(early)
             /\ mode = "buffered" => Done(acked)
             /\ mode = "fds" /\ ~c.needs[side] => Done(silent)
  <2>1. Started(s, parsed, side, FALSE) /\ Started(s, sent, side, FALSE)
        /\ ~parsed.headers_sent[side]
    BY <1>2, <1>8 DEF Started, First
  <2>2. /\ EarlyEffect(sent, early, side, f, "send")
        /\ EarlyEffect(parsed, acked, side, f, "ack")
        /\ EarlyEffect(parsed, silent, side, f, "silent")
    BY <1>1, <1>2, <1>6, EarlyCounted
  <2>3. early \in ResultType /\ acked \in ResultType /\ silent \in ResultType
    BY <1>2, <1>5, EarlyGood DEF LiveState, Good
  <2> HIDE DEF early, acked, silent
  <2>4. mode \in {"none", "streamed"} => Done(early)
    BY <1>1, <1>2, <2>1, <2>2, <2>3, HeadersEarly
  <2>5. mode = "buffered" => Done(acked)
    BY <1>1, <1>2, <2>1, <2>2, <2>3, HeadersEarly
  <2>6. mode = "fds" /\ ~c.needs[side] => Done(silent)
    BY <1>1, <1>2, <2>1, <2>2, <2>3, HeadersEarly
  <2> QED
    BY <2>4, <2>5, <2>6
<1>9. ASSUME ~m.eos
      PROVE  /\ mode = "buffered" => Done(ack)
             /\ mode = "fds" /\ c.needs[side] => Done(quiet)
  <2>1. ~parsed.hooks[side].mutated /\ Unended(parsed, side)
    BY <1>2, <1>5, <1>9 DEF First, Started, Unended
  <2>2. Counted(s.hooks[side], parsed.hooks[side], parsed.hooks[side].mutated, ends, selects)
    BY <1>5 DEF Counted
  <2>3. ASSUME mode = "fds", c.needs[side] PROVE Done(quiet)
    <3>1. quiet.state = parsed /\ quiet.out = <<>> /\ quiet.err = "none"
      BY DEF Reply
    <3>2. ~Stops(quiet) /\ Accepts(quiet)
      BY <3>1 DEF Stops, HasImmediate, Accepts
    <3> HIDE DEF quiet
    <3>3. Current(c, parsed, [stage |-> "none"], side)
      BY <1>2, <1>5, <2>1, <2>3 DEF Current
    <3> QED
      BY <1>1, <1>6, <2>1, <2>2, <3>1, <3>2, <3>3, HeadersUnsaid
  <2>4. ASSUME mode = "buffered" PROVE Done(ack)
    <3> DEFINE no == FALSE
    <3>1. ack.state = parsed /\ ack.out = <<HeadersResponse("response", {})>> /\ ack.err = "none"
      BY DEF Reply
    <3>2. no \in BOOLEAN /\ Says(ack.out, side, Headers, mode, no, no)
      <4>1. {} \in Mutations /\ (no => "filter" \in {})
        BY DEF Mutations
      <4> HIDE DEF no
      <4>2. Says(<<HeadersResponse("response", {})>>, side, Headers, mode, no, no)
        BY <1>1, <4>1, SaysHeaders
      <4> QED
        BY <3>1, <4>2 DEF no
    <3>3. ~Stops(ack) /\ Accepts(ack)
      <4>1. ~IsImmediate(HeadersResponse("response", {}))
        BY DEF IsImmediate, HeadersResponse, Plain
      <4> HIDE DEF ack
      <4> QED
        BY <3>1, <4>1 DEF Stops, HasImmediate, Accepts
    <3> HIDE DEF ack, no
    <3>4. Current(c, parsed, [stage |-> "headers"], side)
      BY <1>2, <1>5, <2>1, <2>4 DEF Current
    <3> QED
      BY <1>1, <1>5, <1>6, <2>1, <2>2, <3>1, <3>2, <3>3, <3>4, HeadersSaid
  <2> QED
    BY <2>3, <2>4
<1> HIDE DEF Done, piped, early, acked, silent, quiet, ack, mode
<1>10. Done(r)
  BY <1>4, <1>7, <1>8, <1>9
<1> QED
  BY <1>10 DEF Done, r

-----------------------------------------------------------------------------
(* A stream and its peer, message by message.                               *)

\* The messages that bring the end-of-stream call of the body filters of their
\* direction, and the call of the selected-upstream filters.
Ends(c, s, m) ==
  LET side == m.side
      mode == s.mode[side]
  IN /\ Unended(s, side)
     /\ mode # "none"
     /\ c.needs[side]
     /\ \/ m.step = Body /\ (m.eos \/ (side = "request" /\ mode = "buffered"))
        \/ m.step = Trailers /\ ~(side = "request" /\ s.buffered_request_body_processed)

Selects(c, s, m) ==
  LET mode == s.mode["request"]
  IN /\ Unended(s, "request")
     /\ m.side = "request"
     /\ c.selected
     /\ \/ m.step = Headers /\ m.eos
        \/ m.step = Body /\ (m.eos \/ mode = "buffered")
        \/ m.step = Trailers /\ mode # "none" /\ ~s.buffered_request_body_processed

\* What the peer has received of a local reply. In FULL_DUPLEX_STREAMED it is parked,
\* which may be too long.
LocalWired(s, w) ==
  /\ s.order["response"] # Unseen
  /\ ~s.hooks["response"].mutated
  /\ s.mode["response"] # "fds" => Reached(s, w, "response") /\ w.stage # "none"

\* What the peer of a waiting stream has received.
Wiring(c, s, ws) ==
  /\ \A side \in Sides : ~(s.local_reply /\ side = "response") => Wired(c, s, ws[side], side)
  /\ s.local_reply => LocalWired(s, ws["response"])
  /\ s.buffered_request_body_processed =>
       s.mode["request"] = "buffered" /\ s.order["request"] # Unseen

\* check_and_advance moves the order of one direction.
LEMMA Advanced ==
  ASSUME NEW s \in StateType, NEW m \in MessageType
  PROVE  LET a == Advance(s, m)
         IN /\ a.eos = s.eos /\ a.headers = s.headers /\ a.headers_sent = s.headers_sent
            /\ a.deferred = s.deferred /\ a.hooks = s.hooks /\ a.mode = s.mode
            /\ a.filters_executed = s.filters_executed
            /\ a.buffered_request_body_processed = s.buffered_request_body_processed
            /\ a.order[m.side] = m.step
            /\ \A o \in Sides \ {m.side} : a.order[o] = s.order[o]
<1>1. m.side \in Sides
  BY DEF MessageType
<1> QED
  BY <1>1 DEF Advance, StateType

\* A direction whose headers come in,
LEMMA FirstSeen ==
  ASSUME NEW c, NEW s \in StateType, NEW m \in MessageType, NEW w, ~OutOfOrder(s, m),
         m.step = Headers, Wired(c, s, w, m.side), Fresh(s, m.side)
  PROVE  First(Advance(s, m), w, m.side)
<1> DEFINE a == Advance(s, m)
<1>1. /\ a.eos = s.eos /\ a.headers_sent = s.headers_sent /\ a.hooks = s.hooks
      /\ a.filters_executed = s.filters_executed /\ a.order[m.side] = Headers
  BY Advanced
<1>2. s.order[m.side] = Unseen
  BY PhaseOrder
<1> HIDE DEF a
<1>3. First(a, w, m.side)
  BY <1>1, <1>2 DEF First, Wired, Reached, Unended, Fresh
<1> QED
  BY <1>3 DEF a

\* and one that goes on.
LEMMA ReadyToGoOn ==
  ASSUME NEW c, NEW s \in StateType, NEW m \in MessageType, NEW w, ~OutOfOrder(s, m),
         m.step # Headers, Wired(c, s, w, m.side),
         m.side = "request" /\ s.buffered_request_body_processed =>
           s.mode["request"] = "buffered"
  PROVE  Ready(c, Advance(s, m), w, m.side)
<1> DEFINE a == Advance(s, m)
           side == m.side
<1>1. /\ a.eos = s.eos /\ a.headers = s.headers /\ a.headers_sent = s.headers_sent
      /\ a.deferred = s.deferred /\ a.hooks = s.hooks /\ a.mode = s.mode
      /\ a.filters_executed = s.filters_executed
      /\ a.buffered_request_body_processed = s.buffered_request_body_processed
  BY Advanced
<1>2. s.order[side] \in {Headers, Body}
  <2>1. side \in Sides /\ s.order[side] \in {Unseen, Headers, Body, Trailers} /\ m.step \in Steps
    BY DEF MessageType, StateType, Steps
  <2>2. s.order[side] # Unseen
    BY PhaseOrder
  <2>3. s.order[side] # Trailers
    BY <2>1 DEF OutOfOrder, InvalidTransition, Steps, Unseen, Headers, Body, Trailers
  <2> QED
    BY <2>1, <2>2, <2>3
<1> HIDE DEF a
<1>3. Unended(a, side) <=> Unended(s, side)
  BY <1>1 DEF Unended
<1>4. Unended(s, side) => Current(c, a, w, side)
  <2>1. Unended(s, side) => Current(c, s, w, side)
    BY <1>2 DEF Wired, Pending
  <2> QED
    BY <1>1, <2>1 DEF Current
<1>5. /\ ~w.disordered
      /\ w.stage \in {"none", "headers", "body", "final"}
      /\ w.stage = "final" => a.eos[side].body
      /\ ~Unended(s, side) => w.stage # "none"
  BY <1>1, <1>2 DEF Wired, Reached, Unseen, Headers, Body, Trailers
<1>6. a.hooks[side].mutated /\ ~w.mutated => Unended(s, side) /\ Parked(c, a, side)
  BY <1>1, <1>2 DEF Wired, Owing, Pending, Parked, Headers, Body, Trailers
<1>7. Ready(c, a, w, side)
  BY <1>1, <1>3, <1>4, <1>5, <1>6 DEF Ready
<1> QED
  BY <1>7 DEF a

\* dispatch_request, of a stream that is no local reply.
LEMMA DispatchHanded ==
  ASSUME NEW c \in ChainType, NEW s \in LiveState, NEW f \in Outcomes, NEW m \in MessageType,
         Waiting(s), NEW ws \in [Sides -> WireType], Wiring(c, s, ws),
         ~OutOfOrder(s, m), ~BodyNotExpected(s, m), ~Advance(s, m).local_reply
  PROVE  LET a == Advance(s, m)
         IN Handed(c, a, DispatchRequest(c, s, f, m), m.side, ws[m.side],
                   Ends(c, a, m), Selects(c, a, m))
<1> DEFINE a == Advance(s, m)
           side == m.side
           w == ws[side]
           r == DispatchRequest(c, s, f, m)
           ends == Ends(c, a, m)
           selects == Selects(c, a, m)
           Ok(x) == Handed(c, a, x, side, w, ends, selects)
<1> SUFFICES Ok(r)
  OBVIOUS
<1>1. /\ side \in Sides /\ "request" \in Sides /\ s \in StateType /\ w \in WireType
      /\ m.step \in {Headers, Body, Trailers} /\ a \in LiveState
  BY LiveUpdates DEF MessageType, LiveState, Sides, Steps
<1>2. /\ a.mode = s.mode /\ a.headers = s.headers /\ a.order[side] = m.step
  BY <1>1, Advanced
<1>3. ~s.local_reply /\ (side = "response" => s.order["request"] # Unseen)
  BY <1>1, AdvanceKeeps
<1>4. r = CASE m.step = Trailers -> HandleTrailers(c, a, f, m.side)
            [] m.step = Headers /\ m.side = "request" -> HandleRequestHeaders(c, a, f, m)
            [] m.step = Body /\ m.side = "request" -> HandleRequestBody(c, a, f, m)
            [] m.step = Headers /\ m.side = "response" -> HandleResponseHeaders(c, a, f, m)
            [] OTHER -> HandleResponseBody(c, a, f, m)
  BY DEF DispatchRequest
<1>5. Wired(c, s, w, side)
  BY <1>1, <1>3 DEF Wiring
<1>6. m.step # Headers => Ready(c, a, w, side)
  BY <1>1, <1>5, ReadyToGoOn DEF Wiring
<1>7. m.step = Headers => First(a, w, side)
  <2>1. m.step = Headers => Fresh(s, side)
    BY <1>1, PhaseOrder DEF Waiting
  <2> QED
    BY <1>1, <1>5, <2>1, FirstSeen
<1>8. m.step # Headers \/ side = "response" => a.headers["request"]
  <2>1. m.step # Headers => s.order[side] # Unseen
    BY <1>1, PhaseOrder
  <2>2. m.step # Headers \/ side = "response" => s.order["request"] # Unseen
    BY <1>1, <1>3, <2>1 DEF Sides
  <2> QED
    BY <1>2, <2>2 DEF Waiting, Opened
<1>9. m.step = Body => a.mode[side] # "none"
  BY <1>2 DEF BodyNotExpected
<1> HIDE DEF a, r, w
<1>10. ends <=> /\ Unended(a, side) /\ a.mode[side] # "none" /\ c.needs[side]
                /\ \/ m.step = Body /\ (m.eos \/ (side = "request" /\ a.mode[side] = "buffered"))
                   \/ m.step = Trailers /\ ~(side = "request" /\ a.buffered_request_body_processed)
  BY DEF Ends
<1>11. selects <=> /\ Unended(a, "request") /\ side = "request" /\ c.selected
                   /\ \/ m.step = Headers /\ m.eos
                      \/ m.step = Body /\ (m.eos \/ a.mode["request"] = "buffered")
                      \/ m.step = Trailers /\ a.mode["request"] # "none"
                           /\ ~a.buffered_request_body_processed
  BY DEF Selects
<1> HIDE DEF ends, selects
<1>12. CASE m.step = Trailers
  <2>1. r = HandleTrailers(c, a, f, side)
    BY <1>4, <1>12 DEF Headers, Body, Trailers
  <2>2. m.step # Headers /\ m.step # Body
    BY <1>12 DEF Headers, Body, Trailers
  <2> HIDE DEF side
  <2>3. Ok(HandleTrailers(c, a, f, side))
    BY <1>1, <1>2, <1>6, <1>8, <1>10, <1>11, <1>12, <2>2, TrailersHanded
  <2> QED
    BY <2>1, <2>3
<1>13. CASE m.step = Headers
  <2>1. m.step # Trailers /\ m.step # Body
    BY <1>13 DEF Headers, Body, Trailers
  <2>2. CASE side = "request"
    <3>1. r = HandleRequestHeaders(c, a, f, m)
      BY <1>4, <1>13, <2>1, <2>2 DEF Headers, Body, Trailers
    <3>2. ~ends /\ (selects <=> m.eos /\ c.selected)
      BY <1>7, <1>10, <1>11, <1>13, <2>1, <2>2 DEF First
    <3>3. Ok(HandleRequestHeaders(c, a, f, m))
      BY <1>1, <1>7, <1>13, <2>2, <3>2, RequestHeadersHanded
    <3> QED
      BY <3>1, <3>3
  <2>3. CASE side = "response"
    <3>1. r = HandleResponseHeaders(c, a, f, m)
      BY <1>4, <1>13, <2>1, <2>3 DEF Headers, Body, Trailers
    <3>2. ~ends /\ ~selects
      BY <1>10, <1>11, <1>13, <2>1, <2>3
    <3>3. Ok(HandleResponseHeaders(c, a, f, m))
      BY <1>1, <1>7, <1>8, <1>13, <2>3, <3>2, ResponseHeadersHanded
    <3> QED
      BY <3>1, <3>3
  <2> QED
    BY <1>1, <2>2, <2>3 DEF Sides
<1>14. CASE m.step = Body
  <2>1. m.step # Trailers /\ m.step # Headers
    BY <1>14 DEF Headers, Body, Trailers
  <2>2. CASE side = "request"
    <3>1. r = HandleRequestBody(c, a, f, m)
      BY <1>4, <1>14, <2>1, <2>2 DEF Headers, Body, Trailers
    <3>2. /\ ends <=> /\ Unended(a, "request") /\ (m.eos \/ a.mode["request"] = "buffered")
                      /\ c.needs["request"]
          /\ selects <=> /\ Unended(a, "request") /\ (m.eos \/ a.mode["request"] = "buffered")
                         /\ c.selected
      BY <1>9, <1>10, <1>11, <1>14, <2>1, <2>2
    <3>3. Ok(HandleRequestBody(c, a, f, m))
      BY <1>1, <1>2, <1>6, <1>8, <1>9, <1>14, <2>1, <2>2, <3>2, RequestBodyHanded
    <3> QED
      BY <3>1, <3>3
  <2>3. CASE side = "response"
    <3>1. r = HandleResponseBody(c, a, f, m)
      BY <1>4, <1>14, <2>1, <2>3 DEF Headers, Body, Trailers
    <3>2. (ends <=> Unended(a, "response") /\ m.eos /\ c.needs["response"]) /\ ~selects
      BY <1>9, <1>10, <1>11, <1>14, <2>1, <2>3
    <3>3. Ok(HandleResponseBody(c, a, f, m))
      BY <1>1, <1>2, <1>6, <1>8, <1>9, <1>14, <2>1, <2>3, <3>2, ResponseBodyHanded
    <3> QED
      BY <3>1, <3>3
  <2> QED
    BY <1>1, <2>2, <2>3 DEF Sides
<1> QED
  BY <1>1, <1>12, <1>13, <1>14

\* What is done with a message of a local reply.
LocalHanded(s, r, w) ==
  LET t == r.state
  IN /\ Beside(s, t, "response")
     /\ t.mode = s.mode
     /\ t.hooks = s.hooks
     /\ Expected(s, "response") => Accepts(r)
     /\ Stops(r) => Silent(r)
     /\ ~Stops(r) => \A i \in DOMAIN r.out : r.out[i].side = "response"
     /\ ~Stops(r) /\ s.mode["response"] # "fds" =>
          /\ Orderly(r.out, "response", w.stage, Asking(t, "response"))
          /\ LocalWired(t, Received(w, r.out))

\* A local reply of which a message comes in.
LocalReady(s, m, w) ==
  /\ ~s.hooks["response"].mutated
  /\ s.order["response"] = m.step
  /\ m.step = Headers => Unended(s, "response") /\ w.stage = "none" /\ ~w.disordered
  /\ m.step # Headers /\ s.mode["response"] # "fds" =>
       /\ ~w.disordered
       /\ w.stage \in {"headers", "body", "final"}
       /\ w.stage = "final" => s.eos["response"].body

\* A message that is answered by nothing or by responses of its own direction, in
\* order where the mode is not FULL_DUPLEX_STREAMED.
LEMMA LocalAnswered ==
  ASSUME NEW s \in StateType, NEW m \in MessageType, NEW w \in WireType, LocalReady(s, m, w),
         NEW t, NEW o, Beside(s, t, "response"), t.mode = s.mode, t.hooks = s.hooks,
         ~HasImmediate(o), \A i \in DOMAIN o : o[i].side = "response",
         s.mode["response"] # "fds" =>
           /\ ~w.disordered
           /\ Orderly(o, "response", w.stage, Asking(t, "response"))
           /\ m.step = Headers => After(o, w.stage) = "headers"
           /\ m.step = Body => After(o, w.stage) = "body"
           /\ m.step = Trailers => After(o, w.stage) = "trailers"
  PROVE  LocalHanded(s, Reply(t, o), w)
<1> DEFINE r == Reply(t, o)
           z == Received(w, o)
<1>1. r.state = t /\ r.out = o /\ ~Stops(r) /\ Accepts(r)
  BY DEF Reply, Stops, Accepts
<1>2. t.order["response"] = m.step /\ m.step \in {Headers, Body, Trailers} /\ m.step # Unseen
  BY DEF LocalReady, Beside, MessageType, Steps, Unseen, Headers, Body, Trailers
<1>3. z.stage = After(o, w.stage) /\ z.disordered = w.disordered
  BY DEF Received
<1> HIDE DEF r, z
<1>4. ASSUME s.mode["response"] # "fds" PROVE LocalWired(t, z)
  <2>1. /\ ~z.disordered
        /\ m.step = Headers => z.stage = "headers"
        /\ m.step = Body => z.stage = "body"
        /\ m.step = Trailers => z.stage = "trailers"
    BY <1>3, <1>4
  <2>2. Reached(t, z, "response") /\ z.stage # "none"
    BY <1>2, <2>1 DEF Reached, Unseen, Headers, Body, Trailers
  <2> QED
    BY <1>2, <2>2 DEF LocalWired, LocalReady
<1>5. LocalHanded(s, r, w)
  BY <1>1, <1>4 DEF LocalHanded, z
<1> QED
  BY <1>5 DEF r

\* local_reply_passthrough.
LEMMA LocalReplyHanded ==
  ASSUME NEW s \in LiveState, NEW m \in MessageType, m.side = "response",
         NEW w \in WireType, LocalReady(s, m, w),
         m.step = Body => s.mode["response"] # "none"
  PROVE  LocalHanded(s, LocalReplyPassthrough(s, m), w)
<1> DEFINE side == "response"
           mode == s.mode["response"]
           r == LocalReplyPassthrough(s, m)
           Ok(x) == LocalHanded(s, x, w)
<1>1. /\ side \in Sides /\ s \in StateType /\ mode \in BodyModes /\ m.eos \in BOOLEAN
      /\ m.len \in Nat /\ {} \in Mutations /\ m.step \in {Headers, Body, Trailers}
      /\ Beside(s, s, side)
  BY DEF Sides, LiveState, StateType, MessageType, Mutations, Steps, Beside
<1> SUFFICES Ok(r)
  OBVIOUS
<1>2. ~HasImmediate(<<>>) /\ (\A i \in DOMAIN <<>> : <<>>[i].side = side)
  BY DEF HasImmediate
<1>3. ASSUME NEW t, t.order = s.order
      PROVE  /\ m.step = Headers => Asking(t, side) = "headers"
             /\ m.step = Body => Asking(t, side) \in {"body", "final"}
             /\ m.step = Trailers => Asking(t, side) = "trailers"
  BY <1>3 DEF Asking, LocalReady, Unseen, Headers, Body, Trailers
<1>4. CASE m.step = Headers
  <2> DEFINE marked == MarkHeaders(s, m)
             sent == [marked EXCEPT !.headers_sent["response"] = TRUE]
             o == <<HeadersResponse("response", {})>>
  <2>1. marked \in LiveState /\ Started(s, marked, side, m.eos)
    BY <1>4, HeadersStarted
  <2> HIDE DEF marked
  <2>2. Started(s, sent, side, m.eos)
    BY <1>1, <2>1 DEF Started, LiveState, StateType
  <2>3. ~HeadersRedelivered(s, m)
    BY <1>4 DEF HeadersRedelivered, LocalReady, Unended
  <2>4. \/ r = Reply(marked, <<>>) /\ mode = "fds"
        \/ r = Reply(sent, o)
    BY <1>4, <2>3 DEF LocalReplyPassthrough, LocalReplyHeaders, marked
  <2> HIDE DEF sent
  <2>5. /\ Beside(s, marked, side) /\ marked.mode = s.mode /\ marked.hooks = s.hooks
        /\ Beside(s, sent, side) /\ sent.mode = s.mode /\ sent.hooks = s.hooks
        /\ sent.order = s.order
    BY <1>1, <2>1, <2>2, StartedBeside DEF Started
  <2>6. mode = "fds" => Ok(Reply(marked, <<>>))
    BY <1>1, <1>2, <2>5, LocalAnswered
  <2>7. Ok(Reply(sent, o))
    <3>1. Orderly(o, side, "none", "headers") /\ After(o, "none") = "headers"
      BY <1>1, OrderlyHeaders DEF WireStages
    <3> HIDE DEF o
    <3>2. ~HasImmediate(o) /\ \A i \in DOMAIN o : o[i].side = side
      BY <3>1, OrderlyGoesOn DEF Orderly
    <3>3. /\ w.stage = "none" /\ ~w.disordered /\ Asking(sent, side) = "headers"
          /\ m.step # Body /\ m.step # Trailers
      BY <1>3, <1>4, <2>5 DEF LocalReady, Headers, Body, Trailers
    <3> QED
      BY <1>1, <2>5, <3>1, <3>2, <3>3, LocalAnswered
  <2> QED
    BY <2>4, <2>6, <2>7
<1>5. CASE m.step = Body
  <2> DEFINE marked == MarkBody(s, m)
             passed == PassthroughChunk(marked, m)
             o == BodyResponses("response", FALSE, 0, m.len, {}, mode, m.eos)
  <2>1. m.step # Headers /\ m.step # Trailers
    BY <1>5 DEF Headers, Body, Trailers
  <2>2. \/ BodyRedelivered(s, m) /\ mode = "fds" /\ r = Reply(s, <<>>)
        \/ BodyRedelivered(s, m) /\ mode # "fds" /\ r = Fail(s, "invalid_argument")
        \/ BodyAfterHeadersEos(s, m) /\ r = Fail(s, "invalid_argument")
        \/ ~BodyRedelivered(s, m) /\ mode = "fds" /\ r = passed
        \/ ~BodyRedelivered(s, m) /\ mode # "fds" /\ r = Reply(marked, o)
    BY <1>5, <2>1 DEF LocalReplyPassthrough, LocalReplyBody, RedeliveredBody
  <2>3. marked \in LiveState /\ marked \in StateType /\ Noted(s, marked, side)
    <3>1. marked \in LiveState
      BY <1>1, LiveUpdates
    <3>2. Noted(s, marked, m.side)
      BY <1>1, MarksNoted
    <3> QED
      BY <3>1, <3>2 DEF LiveState
  <2> HIDE DEF marked
  <2>4. Beside(s, marked, side) /\ marked.mode = s.mode /\ marked.hooks = s.hooks
        /\ marked.order = s.order
    BY <1>1, <2>3, NotedBeside DEF Noted
  <2>5. mode = "fds" => Ok(Reply(s, <<>>))
    BY <1>1, <1>2, LocalAnswered
  <2>6. ASSUME BodyAfterHeadersEos(s, m) \/ (BodyRedelivered(s, m) /\ mode # "fds")
        PROVE  Ok(Fail(s, "invalid_argument"))
    <3>1. ~Expected(s, side)
      BY <2>6 DEF Expected, Unended, BodyAfterHeadersEos, BodyRedelivered
    <3>2. /\ Stops(Fail(s, "invalid_argument")) /\ Fail(s, "invalid_argument").state = s
          /\ Silent(Fail(s, "invalid_argument"))
      BY <1>1, WaysToStop DEF Silent, Fail
    <3> QED
      BY <1>1, <3>1, <3>2 DEF LocalHanded
  <2>7. ASSUME mode = "fds" PROVE Ok(passed)
    <3> DEFINE from == IF marked.headers_sent["response"] THEN "headers" ELSE "none"
               z == BodyStage(mode, m.eos)
    <3>1. z \in {"body", "final"} /\ "body" \in WireStages /\ "trailers" \in WireStages
      BY DEF BodyStage, WireStages
    <3> HIDE DEF z
    <3>2. z \in Peer!UpTo("body", "trailers")
      BY <3>1, RankOf DEF Peer!UpTo, WireStages
    <3>3. PassedOn(marked, passed, m, from, "trailers")
      BY <1>1, <2>3, <2>4, <3>1, <3>2, PassthroughOrderly DEF z
    <3> DEFINE t == SendDeferredHeaders(marked, "response")
               p == passed.out
    <3>4. passed = Reply(t, p) /\ passed.state = t
      BY DEF PassthroughChunk, Reply
    <3> HIDE DEF passed, from, t
    <3>5. Outer(marked, t, side) /\ t.hooks = marked.hooks /\ Orderly(p, side, from, "trailers")
      BY <3>3, <3>4 DEF PassedOn
    <3> HIDE DEF p
    <3>6. ~HasImmediate(p) /\ \A i \in DOMAIN p : p[i].side = side
      BY <3>5, OrderlyGoesOn DEF Orderly
    <3>7. Beside(s, t, side) /\ t.mode = s.mode /\ t.hooks = s.hooks
      BY <1>1, <2>3, <2>4, <3>5, NotedBeside DEF Outer
    <3>8. Ok(Reply(t, p))
      BY <1>1, <2>7, <3>6, <3>7, LocalAnswered
    <3> QED
      BY <3>4, <3>8
  <2>8. ASSUME ~BodyRedelivered(s, m), mode # "fds" PROVE Ok(Reply(marked, o))
    <3> DEFINE some == FALSE
               b == BodyResponses("response", some, 0, m.len, {}, mode, m.eos)
               z == Asking(marked, side)
    <3>1. some \in BOOLEAN /\ o = b
      OBVIOUS
    <3> HIDE DEF some, o
    <3>2. w.stage \in {"headers", "body"} /\ ~w.disordered /\ z \in {"body", "final"}
      BY <1>3, <1>5, <2>1, <2>4, <2>8 DEF LocalReady, BodyRedelivered
    <3> HIDE DEF z
    <3>3. z \in WireStages /\ BodyStage(mode, m.eos) = "body" /\ "body" \in Peer!UpTo(w.stage, z)
      BY <2>8, <3>2, RankOf DEF WireStages, BodyStage, Peer!UpTo
    <3>4. Orderly(b, side, w.stage, z) /\ After(b, w.stage) = "body"
      <4>1. 0 \in Nat
        OBVIOUS
      <4> QED
        BY <1>1, <3>1, <3>2, <3>3, <4>1, OrderlyBody
    <3> HIDE DEF b
    <3>5. ~HasImmediate(o) /\ \A i \in DOMAIN o : o[i].side = side
      BY <3>1, <3>4, OrderlyGoesOn DEF Orderly
    <3> QED
      BY <1>1, <2>1, <2>4, <3>1, <3>2, <3>4, <3>5, LocalAnswered DEF z
  <2> HIDE DEF Ok, passed, o
  <2> QED
    BY <2>2, <2>5, <2>6, <2>7, <2>8
<1>6. CASE m.step = Trailers
  <2> DEFINE o == <<TrailersResponse("response")>>
  <2>1. m.step # Headers /\ m.step # Body /\ Asking(s, side) = "trailers"
    BY <1>3, <1>6 DEF Headers, Body, Trailers
  <2>2. r = Reply(s, o)
    BY <1>6, <2>1 DEF LocalReplyPassthrough
  <2>3. Orderly(o, side, "headers", "trailers")
    BY <1>1, OrderlyTrailers
  <2>4. ASSUME mode # "fds"
        PROVE  /\ ~w.disordered /\ Orderly(o, side, w.stage, "trailers")
               /\ After(o, w.stage) = "trailers"
    <3>1. ~w.disordered /\ w.stage \in {"headers", "body", "final"}
      BY <2>1, <2>4 DEF LocalReady
    <3> QED
      BY <1>1, <3>1, OrderlyTrailers
  <2> HIDE DEF o
  <2>5. ~HasImmediate(o) /\ \A i \in DOMAIN o : o[i].side = side
    BY <2>3, OrderlyGoesOn DEF Orderly
  <2>6. Ok(Reply(s, o))
    BY <1>1, <2>1, <2>4, <2>5, LocalAnswered
  <2> QED
    BY <2>2, <2>6
<1> QED
  BY <1>1, <1>4, <1>5, <1>6

\* Responses of one direction, in whatever order, leave the other one alone.
LEMMA SeeOwn ==
  ASSUME NEW w \in WireType, NEW o \in Seq(ResponseType), NEW side \in Sides,
         \A i \in DOMAIN o : o[i].side = side /\ ~IsImmediate(o[i]), NEW d \in Sides
  PROVE  See(w, o, d) \in WireType /\ (d # side => See(w, o, d) = w)
<1> DEFINE mine == {i \in DOMAIN o : ~IsImmediate(o[i]) /\ o[i].side = d}
           stage(seen) == IF seen = {} THEN w.stage ELSE StageOf(o[Max(seen)])
           late == \E i \in mine : ~Follows(stage({j \in mine : j < i}), StageOf(o[i]))
           bears == \E i \in mine : "filter" \in o[i].mutation
<1>1. See(w, o, d) = [stage |-> stage(mine), disordered |-> w.disordered \/ late,
                      mutated |-> w.mutated \/ bears]
  BY DEF See
<1>2. w.disordered \in BOOLEAN /\ w.mutated \in BOOLEAN /\ w.stage \in WireStages
      /\ w = [stage |-> w.stage, disordered |-> w.disordered, mutated |-> w.mutated]
  BY DEF WireType
<1>3. CASE d # side
  <2>1. mine = {}
    BY <1>3
  <2>2. ~late /\ ~bears /\ stage(mine) = w.stage
    BY <2>1
  <2> HIDE DEF late, bears, stage, mine
  <2>3. (w.disordered \/ late) = w.disordered /\ (w.mutated \/ bears) = w.mutated
    BY <1>2, <2>2
  <2> QED
    BY <1>1, <1>2, <1>3, <2>2, <2>3
<1>4. CASE d = side
  <2> DEFINE n == Len(o)
  <2>1. mine = 1..n /\ n \in Nat /\ DOMAIN o = 1..n
    BY <1>4
  <2>2. stage(mine) \in WireStages
    <3>1. CASE n = 0
      BY <1>2, <2>1, <3>1
    <3>2. CASE n # 0
      <4> DEFINE k == n + 1
                 S == {j \in 1..k : j < k}
      <4>1. k \in Nat /\ k \in 1..k /\ k # 1 /\ k - 1 = n
        BY <2>1, <3>2
      <4>2. S = mine
        BY <2>1
      <4> HIDE DEF k
      <4>3. (S = {} <=> k = 1) /\ (S # {} => Max(S) = k - 1)
        BY <4>1, LastBefore
      <4> HIDE DEF S, mine
      <4>4. mine # {} /\ Max(mine) = n
        BY <4>1, <4>2, <4>3
      <4>5. o[n] \in ResponseType /\ ~IsImmediate(o[n])
        BY <2>1, <3>2
      <4>6. StageOf(o[n]) \in WireStages
        BY <4>5, StageType
      <4> QED
        BY <4>4, <4>6
    <3> QED
      BY <3>1, <3>2
  <2>3. (w.disordered \/ late) \in BOOLEAN /\ (w.mutated \/ bears) \in BOOLEAN
    OBVIOUS
  <2> HIDE DEF late, bears, stage, mine
  <2> QED
    BY <1>1, <1>4, <2>2, <2>3 DEF WireType
<1> QED
  BY <1>3, <1>4

\* A direction that no message moved is wired as before.
LEMMA OtherWired ==
  ASSUME NEW c, NEW s, NEW t, NEW w, NEW side \in Sides, NEW d \in Sides \ {side},
         Wired(c, s, w, d), t.order[d] = s.order[d], t.eos[d] = s.eos[d],
         t.headers[d] = s.headers[d], t.headers_sent[d] = s.headers_sent[d],
         t.deferred[d] = s.deferred[d], t.hooks[d] = s.hooks[d],
         t.filters_executed[d] = s.filters_executed[d],
         s.order[d] # Unseen => t.mode[d] = s.mode[d],
         d = "request" =>
           t.buffered_request_body_processed = s.buffered_request_body_processed
  PROVE  Wired(c, t, w, d)
<1>1. CASE s.order[d] = Unseen
  BY <1>1 DEF Wired, Reached, Pending, Owing, Unended, Unseen, Headers, Body, Trailers
<1>2. CASE s.order[d] # Unseen
  BY <1>2 DEF Wired, Reached, Pending, Current, Owing, Parked, Unended
<1> QED
  BY <1>1, <1>2

\* The stages that are asked for go forward.
LEMMA AskingForward ==
  ASSUME NEW s \in StateType, NEW t \in StateType, NEW side \in Sides,
         s.order[side] = t.order[side] \/ t.order[side] # Unseen,
         s.order[side] # t.order[side] => s.order[side] < t.order[side],
         s.eos[side].body => t.eos[side].body
  PROVE  Asking(t, side) \in Peer!UpTo(Asking(s, side), "trailers")
<1>1. /\ s.order[side] \in {Unseen, Headers, Body, Trailers}
      /\ t.order[side] \in {Unseen, Headers, Body, Trailers}
  BY DEF StateType, Steps
<1> DEFINE a == Asking(s, side)
           b == Asking(t, side)
<1>2. a \in WireStages /\ b \in WireStages /\ "trailers" \in WireStages
  BY AskingType DEF WireStages
<1>3. Peer!Rank[a] <= Peer!Rank[b] /\ Peer!Rank[b] <= Peer!Rank["trailers"]
  <2>1. CASE s.order[side] = Unseen
    <3>1. a = "none"
      BY <2>1, AskingType
    <3> HIDE DEF a, b
    <3> QED
      BY <1>2, <3>1, RankOf DEF WireStages
  <2>2. CASE s.order[side] = Headers
    <3>1. a = "headers" /\ b \in {"headers", "body", "final", "trailers"}
      BY <1>1, <2>2, AskingType DEF Unseen, Headers, Body, Trailers
    <3> HIDE DEF a, b
    <3> QED
      BY <3>1, RankOf
  <2>3. CASE s.order[side] = Body
    <3>1. \/ a = "body" /\ b \in {"body", "final", "trailers"}
          \/ a = "final" /\ b \in {"final", "trailers"}
      BY <1>1, <2>3, AskingType DEF Unseen, Headers, Body, Trailers
    <3> HIDE DEF a, b
    <3> QED
      BY <3>1, RankOf
  <2>4. CASE s.order[side] = Trailers
    <3>1. a = "trailers" /\ b = "trailers"
      BY <1>1, <2>4, AskingType DEF Unseen, Headers, Body, Trailers
    <3> HIDE DEF a, b
    <3> QED
      BY <3>1, RankOf
  <2> QED
    BY <1>1, <2>1, <2>2, <2>3, <2>4
<1> HIDE DEF a, b
<1>4. b \in Peer!UpTo(a, "trailers")
  BY <1>2, <1>3, UpToOrder
<1> QED
  BY <1>4 DEF a, b

\* What a message of one direction does to the conversation: it moves that direction
\* forward and answers it in order, unless it parks a local reply.
Spoken(c, s, r, side, ws) ==
  LET t == r.state
      parked == side = "response" /\ t.local_reply /\ t.mode["response"] = "fds"
  IN /\ \A d \in Sides \ {side} : t.order[d] = s.order[d] /\ t.eos[d] = s.eos[d]
     /\ Asking(t, side) \in Peer!UpTo(Asking(s, side), "trailers")
     /\ s.local_reply => t.local_reply
     /\ t.local_reply => s.local_reply \/ (side = "response" /\ s.order["response"] = Unseen)
     /\ Stops(r) => Silent(r)
     /\ ~Stops(r) =>
          /\ \A i \in DOMAIN r.out : r.out[i].side = side /\ ~IsImmediate(r.out[i])
          /\ ~parked => Orderly(r.out, side, ws[side].stage, Asking(t, side))
          /\ Wiring(c, t, [d \in Sides |-> See(ws[d], r.out, d)])

\* What a handler makes of a message that is in order moves only its direction,
LEMMA MessageMoves ==
  ASSUME NEW s \in StateType, NEW t \in StateType, NEW m \in MessageType, ~OutOfOrder(s, m),
         Beside(Advance(s, m), t, m.side)
  PROVE  /\ \A d \in Sides \ {m.side} : t.order[d] = s.order[d] /\ t.eos[d] = s.eos[d]
         /\ Asking(t, m.side) \in Peer!UpTo(Asking(s, m.side), "trailers")
<1> DEFINE a == Advance(s, m)
           side == m.side
<1>1. /\ a.eos = s.eos /\ a.order[side] = m.step
      /\ \A o \in Sides \ {side} : a.order[o] = s.order[o]
  BY Advanced
<1>2. side \in Sides /\ m.step \in Steps /\ s.order[side] \in {Unseen} \cup Steps
  BY DEF MessageType, StateType
<1>3. s.order[side] = m.step \/ s.order[side] < m.step
  BY <1>2 DEF OutOfOrder, InvalidTransition, Steps, Unseen, Headers, Body, Trailers
<1> HIDE DEF a
<1>4. t.order = a.order /\ (a.eos[side].body => t.eos[side].body)
      /\ \A o \in Sides \ {side} : t.eos[o] = a.eos[o]
  BY DEF Beside, a
<1>5. /\ s.order[side] = t.order[side] \/ t.order[side] # Unseen
      /\ s.order[side] # t.order[side] => s.order[side] < t.order[side]
      /\ s.eos[side].body => t.eos[side].body
  BY <1>1, <1>2, <1>3, <1>4 DEF Steps, Unseen, Headers, Body, Trailers
<1>6. Asking(t, side) \in Peer!UpTo(Asking(s, side), "trailers")
  BY <1>2, <1>5, AskingForward
<1> QED
  BY <1>1, <1>4, <1>6

\* and leaves the other one as it was.
LEMMA OtherKept ==
  ASSUME NEW c, NEW s \in StateType, NEW t \in StateType, NEW m \in MessageType,
         Beside(Advance(s, m), t, m.side), ModesKept(s, t), NEW w,
         NEW d \in Sides \ {m.side}, Wired(c, s, w, d)
  PROVE  Wired(c, t, w, d)
<1> DEFINE a == Advance(s, m)
           side == m.side
<1>1. /\ a.eos = s.eos /\ a.headers = s.headers /\ a.headers_sent = s.headers_sent
      /\ a.deferred = s.deferred /\ a.hooks = s.hooks
      /\ a.filters_executed = s.filters_executed
      /\ a.buffered_request_body_processed = s.buffered_request_body_processed
      /\ \A o \in Sides \ {side} : a.order[o] = s.order[o]
  BY Advanced
<1> HIDE DEF a
<1>2. side \in Sides /\ (d = "request" => side = "response")
  BY DEF MessageType, Sides
<1>3. /\ t.order[d] = s.order[d] /\ t.eos[d] = s.eos[d]
      /\ t.headers[d] = s.headers[d] /\ t.headers_sent[d] = s.headers_sent[d]
      /\ t.deferred[d] = s.deferred[d] /\ t.hooks[d] = s.hooks[d]
      /\ t.filters_executed[d] = s.filters_executed[d]
      /\ d = "request" =>
           t.buffered_request_body_processed = s.buffered_request_body_processed
  BY <1>1, <1>2 DEF Beside, a
<1>4. s.order[d] # Unseen => t.mode[d] = s.mode[d]
  BY DEF ModesKept
<1> QED
  BY <1>2, <1>3, <1>4, OtherWired

\* A message that a handler takes.
LEMMA HandedSpoken ==
  ASSUME NEW c, NEW s \in StateType, NEW m \in MessageType, NEW ws \in [Sides -> WireType],
         Wiring(c, s, ws), ~OutOfOrder(s, m), ~Advance(s, m).local_reply,
         NEW r \in ResultType, ModesKept(s, r.state), NEW ends, NEW selects,
         Handed(c, Advance(s, m), r, m.side, ws[m.side], ends, selects)
  PROVE  Spoken(c, s, r, m.side, ws)
<1> DEFINE a == Advance(s, m)
           side == m.side
           t == r.state
           w == ws[side]
           vs == [d \in Sides |-> See(ws[d], r.out, d)]
<1>1. /\ side \in Sides /\ t \in StateType /\ r.out \in Seq(ResponseType) /\ w \in WireType
      /\ m.step # Unseen
  BY DEF MessageType, ResultType, Steps, Unseen, Headers, Body, Trailers
<1>2. /\ Beside(a, t, side)
      /\ Stops(r) => Silent(r)
      /\ ~Stops(r) => /\ Orderly(r.out, side, w.stage, Asking(t, side))
                      /\ Wired(c, t, Received(w, r.out), side)
  BY DEF Handed
<1>3. ~s.local_reply /\ (side = "response" => s.order["request"] # Unseen)
      /\ a.order[side] = m.step /\ (\A o \in Sides \ {side} : a.order[o] = s.order[o])
      /\ a.mode = s.mode
  BY <1>1, AdvanceKeeps
<1>4. a.buffered_request_body_processed = s.buffered_request_body_processed
  BY Advanced
<1>5. /\ \A d \in Sides \ {side} : t.order[d] = s.order[d] /\ t.eos[d] = s.eos[d]
      /\ Asking(t, side) \in Peer!UpTo(Asking(s, side), "trailers")
  BY <1>1, <1>2, MessageMoves
<1>6. ~a.local_reply
  OBVIOUS
<1>7. \A d \in Sides \ {side} : Wired(c, t, ws[d], d)
  <2>1. \A d \in Sides : Wired(c, s, ws[d], d)
    BY <1>3 DEF Wiring
  <2> QED
    BY <1>1, <1>2, <2>1, OtherKept
<1> HIDE DEF a, t
<1>8. ~t.local_reply /\ t.order = a.order /\ t.mode["request"] = a.mode["request"]
  BY <1>2, <1>6 DEF Beside
<1>9. t.buffered_request_body_processed =>
        t.mode["request"] = "buffered" /\ t.order["request"] # Unseen
  <2>1. t.buffered_request_body_processed => t.mode["request"] = "buffered"
    BY <1>2, <1>3, <1>4, <1>8 DEF Beside, Wiring
  <2>2. t.order["request"] # Unseen
    BY <1>1, <1>3, <1>8 DEF Sides
  <2> QED
    BY <2>1, <2>2
<1>10. ASSUME ~Stops(r) PROVE Wiring(c, t, vs)
  <2>1. Orderly(r.out, side, w.stage, Asking(t, side))
    BY <1>2, <1>10
  <2>2. \A d \in Sides : ws[d] \in WireType
    OBVIOUS
  <2>3. vs[side] = Received(w, r.out)
    <3> DEFINE to == Asking(t, side)
    <3>1. Orderly(r.out, side, w.stage, to)
      BY <2>1
    <3> HIDE DEF to, w, side
    <3>2. See(w, r.out, side) = Received(w, r.out)
      BY <1>1, <3>1, SeeOrderly
    <3> QED
      BY <1>1, <3>2 DEF w
  <2>4. ASSUME NEW d \in Sides \ {side} PROVE vs[d] = ws[d]
    <3>1. d \in Sides /\ ws[d] \in WireType /\ d # side
      BY <2>2
    <3>2. \A i \in DOMAIN r.out : r.out[i].side = side /\ ~IsImmediate(r.out[i])
      BY <2>1 DEF Orderly
    <3> QED
      BY <1>1, <3>1, <3>2, SeeOwn
  <2> HIDE DEF vs
  <2>5. \A d \in Sides : Wired(c, t, vs[d], d)
    BY <1>1, <1>2, <1>7, <1>10, <2>3, <2>4
  <2> QED
    BY <1>8, <1>9, <2>5 DEF Wiring
<1>11. ~Stops(r) => /\ \A i \in DOMAIN r.out : r.out[i].side = side /\ ~IsImmediate(r.out[i])
                    /\ Orderly(r.out, side, w.stage, Asking(t, side))
  BY <1>2 DEF Orderly
<1> HIDE DEF vs
<1> QED
  BY <1>2, <1>3, <1>5, <1>8, <1>10, <1>11 DEF Spoken, t, vs

\* A message of a local reply finds what the earlier ones left.
LEMMA LocalComesIn ==
  ASSUME NEW c, NEW s \in StateType, NEW m \in MessageType, Waiting(s),
         NEW ws \in [Sides -> WireType], Wiring(c, s, ws), ~OutOfOrder(s, m),
         Advance(s, m).local_reply
  PROVE  m.side = "response" /\ LocalReady(Advance(s, m), m, ws["response"])
<1> DEFINE a == Advance(s, m)
           w == ws["response"]
<1>1. /\ a.eos = s.eos /\ a.hooks = s.hooks /\ a.mode = s.mode /\ a.order[m.side] = m.step
      /\ m.side \in Sides /\ m.step \in Steps /\ "response" \in Sides
      /\ s.order["response"] \in {Unseen, Headers, Body, Trailers}
  BY Advanced DEF MessageType, StateType, Steps, Sides
<1>2. a.local_reply <=> s.local_reply \/ (m.side = "response" /\ s.order["request"] = Unseen)
  BY AdvanceKeeps
<1>3. m.side = "response"
  BY <1>1, <1>2 DEF OutOfOrder, Sides
<1>4. m.step = Headers <=> s.order["response"] = Unseen
  BY <1>3, PhaseOrder
<1> HIDE DEF a, w
<1>5. CASE s.local_reply
  <2>1. LocalWired(s, w)
    BY <1>5 DEF Wiring, w
  <2>2. s.order["response"] # Trailers
    BY <1>1, <1>3 DEF OutOfOrder, InvalidTransition, Steps, Unseen, Headers, Body, Trailers
  <2>3. s.order["response"] \in {Headers, Body} /\ m.step # Headers
    BY <1>1, <1>4, <2>1, <2>2 DEF LocalWired
  <2>4. s.mode["response"] # "fds" =>
          /\ ~w.disordered
          /\ w.stage \in {"headers", "body", "final"}
          /\ w.stage = "final" => s.eos["response"].body
    BY <2>1, <2>3 DEF LocalWired, Reached, Unseen, Headers, Body, Trailers
  <2>5. LocalReady(a, m, w)
    BY <1>1, <1>3, <2>1, <2>3, <2>4 DEF LocalReady, LocalWired
  <2> QED
    BY <1>3, <2>5 DEF a, w
<1>6. CASE ~s.local_reply
  <2>1. s.order["request"] = Unseen
    BY <1>2, <1>6 DEF a
  <2>2. s.order["response"] = Unseen
    BY <1>6, <2>1 DEF Waiting, Opened
  <2>3. Wired(c, s, w, "response")
    BY <1>1, <1>6 DEF Wiring, w
  <2>4. /\ ~s.hooks["response"].mutated /\ Unended(s, "response")
        /\ w.stage = "none" /\ ~w.disordered
    BY <2>2, <2>3 DEF Wired, Reached
  <2>5. LocalReady(a, m, w)
    BY <1>1, <1>3, <1>4, <2>2, <2>4 DEF LocalReady, Unended
  <2> QED
    BY <1>3, <2>5 DEF a, w
<1> QED
  BY <1>5, <1>6

\* A message of a local reply.
LEMMA LocalSpoken ==
  ASSUME NEW c, NEW s \in StateType, NEW m \in MessageType, Waiting(s),
         NEW ws \in [Sides -> WireType], Wiring(c, s, ws), ~OutOfOrder(s, m),
         m.side = "response", Advance(s, m).local_reply,
         NEW r \in ResultType, ModesKept(s, r.state),
         LocalHanded(Advance(s, m), r, ws["response"])
  PROVE  Spoken(c, s, r, "response", ws)
<1> DEFINE a == Advance(s, m)
           t == r.state
           w == ws["response"]
           side == "response"
           vs == [d \in Sides |-> See(ws[d], r.out, d)]
<1>1. /\ side \in Sides /\ t \in StateType /\ r.out \in Seq(ResponseType) /\ w \in WireType
      /\ m.step # Unseen /\ "request" \in Sides \ {side}
      /\ \A d \in Sides : d = side \/ d = "request"
  BY DEF MessageType, ResultType, Steps, Unseen, Headers, Body, Trailers, Sides
<1>2. /\ Beside(a, t, side) /\ t.mode = a.mode /\ t.hooks = a.hooks
      /\ Stops(r) => Silent(r)
      /\ ~Stops(r) => \A i \in DOMAIN r.out : r.out[i].side = "response"
      /\ ~Stops(r) /\ a.mode[side] # "fds" =>
          /\ Orderly(r.out, side, w.stage, Asking(t, side))
          /\ LocalWired(t, Received(w, r.out))
  BY DEF LocalHanded
<1>3. /\ a.local_reply <=> s.local_reply \/ s.order["request"] = Unseen
      /\ a.order[side] = m.step /\ a.order["request"] = s.order["request"] /\ a.mode = s.mode
  BY <1>1, AdvanceKeeps
<1>4. a.hooks = s.hooks
      /\ a.buffered_request_body_processed = s.buffered_request_body_processed
  BY Advanced
<1>5. /\ \A d \in Sides \ {side} : t.order[d] = s.order[d] /\ t.eos[d] = s.eos[d]
      /\ Asking(t, side) \in Peer!UpTo(Asking(s, side), "trailers")
  BY <1>1, <1>2, MessageMoves
<1>6. a.local_reply /\ LocalReady(a, m, w)
  BY LocalComesIn
<1>7. Wired(c, t, ws["request"], "request")
  <2>1. Wired(c, s, ws["request"], "request")
    BY <1>1 DEF Wiring
  <2> QED
    BY <1>1, <1>2, <2>1, OtherKept
<1> HIDE DEF a, t
<1>8. t.local_reply /\ t.order = a.order
  BY <1>2, <1>6 DEF Beside
<1>9. s.local_reply \/ s.order[side] = Unseen
  BY <1>3, <1>6 DEF Waiting, Opened
<1>10. t.buffered_request_body_processed =>
         t.mode["request"] = "buffered" /\ t.order["request"] # Unseen
  BY <1>2, <1>3, <1>4, <1>8, ZenonT(40) DEF Beside, Wiring
<1>11. ~Stops(r) => \A i \in DOMAIN r.out : r.out[i].side = side /\ ~IsImmediate(r.out[i])
  BY <1>2 DEF Stops, HasImmediate
<1>12. ASSUME ~Stops(r) PROVE Wiring(c, t, vs)
  <2>1. \A d \in Sides : ws[d] \in WireType
    OBVIOUS
  <2>2. See(ws["request"], r.out, "request") = ws["request"]
    <3>1. "request" \in Sides /\ ws["request"] \in WireType /\ "request" # side
      BY <1>1, <2>1
    <3> QED
      BY <1>1, <1>11, <1>12, <3>1, SeeOwn
  <2>3. LocalWired(t, See(w, r.out, side))
    <3>1. CASE a.mode[side] = "fds"
      BY <1>1, <1>2, <1>3, <1>6, <1>8, <3>1 DEF LocalWired, LocalReady
    <3>2. CASE a.mode[side] # "fds"
      <4> DEFINE to == Asking(t, side)
                 o == r.out
      <4>1. Orderly(o, side, w.stage, to) /\ LocalWired(t, Received(w, o))
        BY <1>2, <1>12, <3>2
      <4>2. w \in WireType /\ o \in Seq(ResponseType) /\ side \in Sides
        BY <1>1
      <4> HIDE DEF to, w, side, o
      <4>3. See(w, o, side) = Received(w, o)
        BY <4>1, <4>2, SeeOrderly, Zenon
      <4>4. LocalWired(t, See(w, o, side))
        BY <4>1, <4>3
      <4> QED
        BY <4>4 DEF o
    <3> QED
      BY <3>1, <3>2
  <2>4. vs["request"] = See(ws["request"], r.out, "request") /\ vs[side] = See(w, r.out, side)
    BY <1>1
  <2> HIDE DEF vs
  <2>5. \A d \in Sides : ~(t.local_reply /\ d = side) => Wired(c, t, vs[d], d)
    BY <1>1, <1>7, <1>8, <2>2, <2>4
  <2> QED
    BY <1>10, <2>3, <2>4, <2>5 DEF Wiring
<1>13. ~Stops(r) /\ t.mode[side] # "fds" => Orderly(r.out, side, w.stage, Asking(t, side))
  BY <1>2
<1> HIDE DEF vs
<1> QED
  BY <1>2, <1>5, <1>8, <1>9, <1>11, <1>12, <1>13 DEF Spoken, t, vs

\* Every message.
LEMMA DispatchSpoken ==
  ASSUME NEW c \in ChainType, NEW s \in LiveState, NEW f \in Outcomes, NEW m \in MessageType,
         Waiting(s), NEW ws \in [Sides -> WireType], Wiring(c, s, ws),
         ModesKept(s, DispatchRequest(c, s, f, m).state)
  PROVE  Spoken(c, s, DispatchRequest(c, s, f, m), m.side, ws)
<1> DEFINE a == Advance(s, m)
           r == DispatchRequest(c, s, f, m)
           Ok(x) == Spoken(c, s, x, m.side, ws)
<1> SUFFICES Ok(r)
  OBVIOUS
<1>1. /\ s \in StateType /\ m.side \in Sides /\ a \in LiveState /\ r \in ResultType
      /\ ws["response"] \in WireType
  BY DispatchGood, LiveUpdates DEF LiveState, MessageType, Good, Sides
<1>2. CASE BodyNotExpected(s, m) \/ OutOfOrder(s, m)
  <2> DEFINE e == Fail(s, "invalid_argument")
  <2>1. r = e /\ Stops(e) /\ e.state = s /\ Silent(e)
    BY <1>1, <1>2, WaysToStop, StopsSilent DEF DispatchRequest
  <2>2. Asking(s, m.side) \in Peer!UpTo(Asking(s, m.side), "trailers")
    BY <1>1, AskingForward
  <2> HIDE DEF e
  <2>3. Ok(e)
    BY <2>1, <2>2 DEF Spoken
  <2> QED
    BY <2>1, <2>3
<1>3. CASE ~(BodyNotExpected(s, m) \/ OutOfOrder(s, m)) /\ ~a.local_reply
  <2> DEFINE ends == Ends(c, a, m)
             selects == Selects(c, a, m)
  <2>1. Handed(c, a, r, m.side, ws[m.side], ends, selects)
    BY <1>3, DispatchHanded
  <2> HIDE DEF ends, selects, r
  <2> QED
    BY <1>1, <1>3, <2>1, HandedSpoken DEF r
<1>4. CASE ~(BodyNotExpected(s, m) \/ OutOfOrder(s, m)) /\ a.local_reply
  <2>1. m.side = "response" /\ LocalReady(a, m, ws["response"])
    BY <1>1, <1>4, LocalComesIn
  <2>2. r = LocalReplyPassthrough(a, m)
    BY <1>4 DEF DispatchRequest
  <2>3. m.step = Body => a.mode["response"] # "none"
    BY <1>1, <1>4, <2>1, AdvanceKeeps DEF BodyNotExpected
  <2>4. LocalHanded(a, r, ws["response"])
    BY <1>1, <2>1, <2>2, <2>3, LocalReplyHanded
  <2> HIDE DEF r
  <2>5. Spoken(c, s, r, "response", ws)
    BY <1>1, <1>4, <2>1, <2>4, LocalSpoken DEF r
  <2> QED
    BY <2>1, <2>5
<1> QED
  BY <1>2, <1>3, <1>4

-----------------------------------------------------------------------------
(* The exchange.                                                            *)

\* What the message loop sends of an answer: an error or an immediate response alone,
\* or what the peer received before it stopped.
LEMMA FinishSays ==
  ASSUME NEW r \in ResultType, Finish(r), Stops(r) => Silent(r)
  PROVE  \/ out' = <<>> \/ out' = <<Immediate>>
         \/ ~Stops(r) /\ \E n \in 0..Len(r.out) : out' = SubSeq(r.out, 1, n)
<1>1. r.out \in Seq(ResponseType) /\ Len(r.out) \in Nat
  BY DEF ResultType
<1>2. CASE r.err # "none" /\ out' = <<>>
  BY <1>2
<1>3. CASE r.err = "none" /\ ~HasImmediate(r.out) /\ out' = r.out
  <2>1. ~Stops(r)
    BY <1>3 DEF Stops
  <2>2. out' = SubSeq(r.out, 1, Len(r.out)) /\ Len(r.out) \in 0..Len(r.out)
    BY <1>1, <1>3
  <2> QED
    BY <2>1, <2>2
<1>4. CASE HasImmediate(r.out) /\ out' = r.out
  BY <1>4 DEF Stops, Silent
<1>5. ASSUME NEW n \in 0..(Len(r.out) - 1), out' = SubSeq(r.out, 1, n)
      PROVE  out' = <<>> \/ (~Stops(r) /\ \E k \in 0..Len(r.out) : out' = SubSeq(r.out, 1, k))
  <2>1. CASE Stops(r)
    <3>1. r.out = <<>> \/ r.out = <<Immediate>>
      BY <2>1 DEF Silent
    <3>2. Len(<<>>) = 0 /\ Len(<<Immediate>>) = 1
      OBVIOUS
    <3>3. Len(r.out) = 0 \/ Len(r.out) = 1
      BY <3>1, <3>2, Zenon
    <3>4. n = 0
      BY <1>1, <1>5, <3>3
    <3>5. SubSeq(r.out, 1, 0) = <<>>
      BY <1>1
    <3> QED
      BY <1>5, <3>4, <3>5
  <2>2. CASE ~Stops(r)
    <3>1. n \in 0..Len(r.out)
      BY <1>1, <1>5
    <3> QED
      BY <1>5, <2>2, <3>1
  <2> QED
    BY <2>1, <2>2
<1> QED
  BY <1>2, <1>3, <1>4, <1>5 DEF Finish

\* No answer got further than what was asked.
LEMMA ReachedAsking ==
  ASSUME NEW s \in StateType, NEW w \in WireType, NEW side \in Sides, Reached(s, w, side)
  PROVE  Peer!Rank[w.stage] <= Peer!Rank[Asking(s, side)]
<1> DEFINE a == Asking(s, side)
           x == w.stage
<1>1. s.order[side] \in {Unseen, Headers, Body, Trailers} /\ x \in WireStages
  BY DEF StateType, Steps, WireType
<1>2. \/ x = "none" /\ a = "none"
      \/ x \in {"none", "headers"} /\ a = "headers"
      \/ x \in {"none", "headers", "body"} /\ a = "body"
      \/ x \in {"none", "headers", "body", "final"} /\ a = "final"
      \/ x = "trailers" /\ a = "trailers"
  BY <1>1, AskingType DEF Reached
<1> HIDE DEF a, x
<1>3. Peer!Rank[x] <= Peer!Rank[a]
  BY <1>2, RankOf
<1> QED
  BY <1>3 DEF a, x

\* What a direction has received when a message of side has been answered, as far as
\* the peer received it.
LEMMA Heard ==
  ASSUME NEW r \in ResultType, NEW side \in Sides, NEW w \in WireType, NEW d \in Sides,
         NEW o, NEW to \in WireStages,
         ~Stops(r) => \A i \in DOMAIN r.out : r.out[i].side = side /\ ~IsImmediate(r.out[i]),
         \/ o = <<>> \/ o = <<Immediate>>
         \/ ~Stops(r) /\ \E n \in 0..Len(r.out) : o = SubSeq(r.out, 1, n)
  PROVE  LET v == See(w, o, d)
         IN /\ v \in WireType
            /\ d # side => v = w
            /\ /\ d = side
               /\ ~Stops(r) => Orderly(r.out, side, w.stage, to)
               /\ Peer!Rank[w.stage] <= Peer!Rank[to]
               => /\ v.disordered = w.disordered
                  /\ v.stage \in Peer!UpTo(w.stage, to)
<1> DEFINE v == See(w, o, d)
           Ok(x) == /\ x \in WireType
                    /\ d # side => x = w
                    /\ /\ d = side
                       /\ ~Stops(r) => Orderly(r.out, side, w.stage, to)
                       /\ Peer!Rank[w.stage] <= Peer!Rank[to]
                       => /\ x.disordered = w.disordered
                          /\ x.stage \in Peer!UpTo(w.stage, to)
<1> SUFFICES Ok(v)
  OBVIOUS
<1>1. w.stage \in WireStages /\ Peer!Rank[w.stage] \in 0..4
  BY UpToOrder DEF WireType
<1>2. Peer!Rank[w.stage] <= Peer!Rank[to] => w.stage \in Peer!UpTo(w.stage, to)
  BY <1>1, UpToOrder
<1>3. Ok(w)
  BY <1>2
<1>4. CASE o = <<>> \/ o = <<Immediate>>
  <2>1. v = w
    BY <1>4, SeeSilent
  <2> HIDE DEF v, Ok
  <2> QED
    BY <1>3, <2>1
<1>5. ASSUME NEW n \in 0..Len(r.out), ~Stops(r), o = SubSeq(r.out, 1, n)
      PROVE  Ok(v)
  <2>1. r.out \in Seq(ResponseType)
    BY DEF ResultType
  <2>2. o \in Seq(ResponseType) /\ DOMAIN o = 1..n /\ (\A i \in 1..n : o[i] = r.out[i])
        /\ 1..n \subseteq DOMAIN r.out
    BY <1>5, <2>1
  <2>3. \A i \in DOMAIN o : o[i].side = side /\ ~IsImmediate(o[i])
    BY <1>5, <2>2
  <2>4. v \in WireType /\ (d # side => v = w)
    BY <2>2, <2>3, SeeOwn
  <2>5. ASSUME d = side, Orderly(r.out, side, w.stage, to), Peer!Rank[w.stage] <= Peer!Rank[to]
        PROVE  v.disordered = w.disordered /\ v.stage \in Peer!UpTo(w.stage, to)
    <3> DEFINE from == w.stage
    <3>1. from \in WireStages
      BY <1>1
    <3>2. Orderly(r.out, side, from, to)
      BY <2>5
    <3> HIDE DEF from
    <3>3. Orderly(o, side, from, to)
      BY <1>5, <2>1, <3>2, OrderlyPrefix
    <3>4. After(o, from) = from \/ After(o, from) \in Peer!UpTo(from, to)
      BY <2>2, <3>1, <3>3, AfterType
    <3>5. v = Received(w, o)
      BY <2>2, <2>5, <3>3, SeeOrderly DEF from
    <3>6. v.disordered = w.disordered /\ v.stage = After(o, from)
      BY <3>5 DEF Received, from
    <3> QED
      BY <1>2, <2>5, <3>4, <3>6 DEF from
  <2> HIDE DEF v
  <2> QED
    BY <1>5, <2>4, <2>5
<1> QED
  BY <1>4, <1>5

\* What every peer has received. Each clause of Wiring is needed: how a message may be
\* answered depends on what the answers to earlier ones left parked.
WireInv ==
  /\ wire \in [Sides -> WireType]
  /\ Running => Wiring(chain, state, wire)

\* A configuration comes before anything was sent.
LEMMA ConfiguredWiring ==
  ASSUME StreamInv, WireInv, Running, NEW field \in AcceptedFields
  PROVE  LET s == Configured(state, field)
         IN /\ Wiring(chain, s, wire)
            /\ s.order = state.order
            /\ s.eos = state.eos
            /\ s.local_reply = state.local_reply
            /\ s.local_reply => s.mode = state.mode
<1> DEFINE s == Configured(state, field)
<1>1. state \in StateType /\ Wiring(chain, state, wire)
  BY DEF StreamInv, IInv, TypeOK, WireInv
<1>2. CASE field.kind = "absent"
  BY <1>1, <1>2 DEF Configured
<1>3. CASE field.kind # "absent"
  <2>1. ~first_message_processed
    BY <1>3 DEF AcceptedFields, Absent
  <2>2. (\A side \in Sides : state.order[side] = Unseen) /\ "request" \in Sides
        /\ "response" \in Sides
    BY <2>1 DEF StreamInv, Sides
  <2>3. /\ s.order = state.order /\ s.eos = state.eos /\ s.local_reply = state.local_reply
        /\ s.headers_sent = state.headers_sent /\ s.hooks = state.hooks
        /\ s.buffered_request_body_processed = state.buffered_request_body_processed
    BY <1>1, <1>3 DEF Configured, StateType
  <2>4. ~state.local_reply /\ ~state.buffered_request_body_processed
    BY <1>1, <2>2 DEF Wiring, LocalWired
  <2>5. \A side \in Sides : Wired(chain, state, wire[side], side)
    BY <1>1, <2>4 DEF Wiring
  <2> HIDE DEF s
  <2>6. ASSUME NEW side \in Sides PROVE Wired(chain, s, wire[side], side)
    <3>1. Wired(chain, state, wire[side], side) /\ state.order[side] = Unseen
      BY <2>2, <2>5
    <3> QED
      BY <2>3, <3>1
      DEF Wired, Reached, Pending, Owing, Unended, Unseen, Headers, Body, Trailers
  <2>7. Wiring(chain, s, wire)
    BY <2>3, <2>4, <2>6 DEF Wiring
  <2> QED
    BY <2>3, <2>4, <2>7 DEF s
<1> QED
  BY <1>2, <1>3

\* A message of one direction, as the peer sees it.
Conversed(side) ==
  LET parked == side = "response" /\ state'.local_reply /\ state'.mode["response"] = "fds"
  IN /\ Running
     /\ \A d \in Sides \ {side} : /\ Asking(state', d) = Asking(state, d)
                                  /\ wire'[d] = wire[d]
     /\ Asking(state', side) \in Peer!UpTo(Asking(state, side), "trailers")
     /\ state.local_reply =>
          state'.local_reply /\ state'.mode["response"] = state.mode["response"]
     /\ state'.local_reply /\ ~state.local_reply =>
          side = "response" /\ wire[side].stage = "none" /\ ~wire[side].disordered
     /\ ~parked => /\ ~wire[side].disordered
                   /\ ~wire'[side].disordered
                   /\ wire'[side].stage \in Peer!UpTo(wire[side].stage, Asking(state', side))

\* A stream that waits has answered its peer in order, local replies that are parked
\* aside.
LEMMA WiringReached ==
  ASSUME NEW c, NEW s, NEW ws, Wiring(c, s, ws), NEW side \in Sides,
         ~(side = "response" /\ s.local_reply /\ s.mode["response"] = "fds")
  PROVE  Reached(s, ws[side], side)
<1>1. CASE s.local_reply /\ side = "response"
  BY <1>1 DEF Wiring, LocalWired
<1>2. CASE ~(s.local_reply /\ side = "response")
  BY <1>2 DEF Wiring, Wired
<1> QED
  BY <1>1, <1>2

\* What was asked depends on the order and the ends of stream.
LEMMA AskingSame ==
  ASSUME NEW s, NEW t, NEW side, t.order[side] = s.order[side], t.eos[side] = s.eos[side]
  PROVE  Asking(t, side) = Asking(s, side)
BY DEF Asking

\* One pass of the message loop.
LEMMA ReceiveConversed ==
  ASSUME StreamInv, WireInv, NEW m \in MessageType, Observe(ReceiveAny(m))
  PROVE  Conversed(m.side) /\ WireInv'
<1>1. ReceiveAny(m) /\ wire' = [side \in Sides |-> See(wire[side], out', side)]
  BY DEF Observe
<1>2. PICK f \in Outcomes, field \in AcceptedFields :
           LET s == Configured(state, field)
               r == DispatchRequest(chain, s, f, m)
           IN /\ Running
              /\ chain \in ChainType
              /\ s \in LiveState
              /\ Waiting(s)
              /\ Dispatched(chain, s, r)
              /\ Good(r)
              /\ Finish(r)
              /\ chain' = chain
  BY <1>1, ReceiveDispatches
<1> DEFINE s == Configured(state, field)
           r == DispatchRequest(chain, s, f, m)
           side == m.side
           w == wire[side]
           t == r.state
           parked == side = "response" /\ t.local_reply /\ t.mode["response"] = "fds"
<1>3. /\ Running /\ chain \in ChainType /\ s \in LiveState /\ Waiting(s) /\ Good(r) /\ Finish(r)
      /\ chain' = chain /\ ModesKept(s, t) /\ s \in StateType /\ r \in ResultType
      /\ t \in StateType /\ state \in StateType
  BY <1>2 DEF Dispatched, LiveState, Good, ResultType, StreamInv, IInv, TypeOK
<1>4. /\ Wiring(chain, s, wire) /\ s.order = state.order /\ s.eos = state.eos
      /\ s.local_reply = state.local_reply /\ (s.local_reply => s.mode = state.mode)
  BY <1>3, ConfiguredWiring
<1>5. side \in Sides /\ "response" \in Sides /\ wire \in [Sides -> WireType] /\ w \in WireType
  BY DEF MessageType, WireInv, Sides
<1> HIDE DEF s
<1>6. Spoken(chain, s, r, side, wire)
  BY <1>3, <1>4, <1>5, DispatchSpoken
<1> HIDE DEF r, w, side, t
<1>7. /\ \A d \in Sides \ {side} : t.order[d] = s.order[d] /\ t.eos[d] = s.eos[d]
      /\ Asking(t, side) \in Peer!UpTo(Asking(s, side), "trailers")
      /\ s.local_reply => t.local_reply
      /\ t.local_reply => s.local_reply \/ (side = "response" /\ s.order["response"] = Unseen)
      /\ Stops(r) => Silent(r)
      /\ ~Stops(r) =>
           /\ \A i \in DOMAIN r.out : r.out[i].side = side /\ ~IsImmediate(r.out[i])
           /\ ~parked => Orderly(r.out, side, w.stage, Asking(t, side))
           /\ Wiring(chain, t, [d \in Sides |-> See(wire[d], r.out, d)])
  BY <1>6 DEF Spoken, t, w
<1>8. /\ state'.order = t.order /\ state'.eos = t.eos /\ state'.local_reply = t.local_reply
      /\ state'.mode = t.mode
  BY <1>3, FinishState, ReleaseKeeps DEF t
<1>9. \/ out' = <<>> \/ out' = <<Immediate>>
      \/ ~Stops(r) /\ \E n \in 0..Len(r.out) : out' = SubSeq(r.out, 1, n)
  BY <1>3, <1>7, FinishSays
<1> DEFINE to == Asking(t, side)
           from == Asking(s, side)
<1>10. to \in WireStages /\ from \in WireStages /\ "trailers" \in WireStages
  BY <1>3, <1>5, AskingType DEF WireStages
<1>11. to \in Peer!UpTo(from, "trailers")
  BY <1>7
<1>12. ~parked => ~(side = "response" /\ s.local_reply /\ s.mode["response"] = "fds")
  <2>1. ASSUME side = "response", s.local_reply PROVE t.mode["response"] = s.mode["response"]
    <3>1. s.order["response"] # Unseen
      BY <1>4, <2>1 DEF Wiring, LocalWired
    <3> QED
      BY <1>3, <1>5, <3>1 DEF ModesKept
  <2> QED
    BY <1>7, <2>1
<1>13. ~parked => ~w.disordered /\ Peer!Rank[w.stage] <= Peer!Rank[from]
  <2>1. ~parked => Reached(s, w, side)
    BY <1>4, <1>5, <1>12, WiringReached DEF w
  <2> QED
    BY <1>3, <1>5, <2>1, ReachedAsking DEF Reached
<1> HIDE DEF to, from, parked
<1>14. w.stage \in WireStages
  BY <1>5 DEF WireType
<1>15. ~parked => Peer!Rank[w.stage] <= Peer!Rank[to]
  BY <1>10, <1>11, <1>13, <1>14, UpToOrder
<1>16. ~Stops(r) /\ ~parked => Orderly(r.out, side, w.stage, to)
  BY <1>7 DEF to
<1>17. ASSUME NEW d \in Sides
       PROVE  LET v == See(wire[d], out', d)
              IN /\ v \in WireType
                 /\ d # side => v = wire[d]
                 /\ d = side /\ ~parked => /\ v.disordered = w.disordered
                                           /\ v.stage \in Peer!UpTo(w.stage, to)
  <2> DEFINE o == out'
             x == wire[d]
  <2>1. x \in WireType /\ (d = side => x = w)
    BY <1>5 DEF w
  <2>2. ~Stops(r) => \A i \in DOMAIN r.out : r.out[i].side = side /\ ~IsImmediate(r.out[i])
    BY <1>7
  <2>3. \/ o = <<>> \/ o = <<Immediate>>
        \/ ~Stops(r) /\ \E n \in 0..Len(r.out) : o = SubSeq(r.out, 1, n)
    BY <1>9
  <2> HIDE DEF o, x
  <2>4. LET v == See(x, o, d)
        IN /\ v \in WireType
           /\ d # side => v = x
           /\ /\ d = side
              /\ ~Stops(r) => Orderly(r.out, side, x.stage, to)
              /\ Peer!Rank[x.stage] <= Peer!Rank[to]
              => /\ v.disordered = x.disordered
                 /\ v.stage \in Peer!UpTo(x.stage, to)
    BY <1>3, <1>5, <1>10, <2>1, <2>2, <2>3, Heard
  <2> QED
    BY <1>15, <1>16, <2>1, <2>4 DEF o, x
<1>18. Conversed(side)
  <2>1. \A d \in Sides \ {side} : Asking(state', d) = Asking(state, d)
    <3>1. \A d \in Sides \ {side} : state'.order[d] = state.order[d] /\ state'.eos[d] = state.eos[d]
      BY <1>4, <1>7, <1>8
    <3> QED
      BY <3>1, AskingSame
  <2>2. Asking(state', side) = to /\ Asking(state, side) = from
    BY <1>4, <1>8, AskingSame DEF to, from
  <2>3. \A d \in Sides : wire'[d] = See(wire[d], out', d)
    BY <1>1
  <2>4. \A d \in Sides \ {side} : wire'[d] = wire[d]
    BY <1>17, <2>3
  <2>5. ~parked => /\ ~w.disordered /\ ~wire'[side].disordered
                   /\ wire'[side].stage \in Peer!UpTo(w.stage, to)
    BY <1>5, <1>13, <1>17, <2>3
  <2>6. state.local_reply =>
          state'.local_reply /\ state'.mode["response"] = state.mode["response"]
    <3>1. state.local_reply => s.order["response"] # Unseen
      BY <1>4 DEF Wiring, LocalWired
    <3>2. state.local_reply => t.mode["response"] = s.mode["response"]
      BY <1>3, <1>5, <3>1 DEF ModesKept
    <3> QED
      BY <1>4, <1>7, <1>8, <3>2
  <2>7. state'.local_reply /\ ~state.local_reply =>
          side = "response" /\ w.stage = "none" /\ ~w.disordered
    <3>1. ASSUME state'.local_reply, ~state.local_reply
          PROVE  side = "response" /\ w.stage = "none" /\ ~w.disordered
      <4>1. side = "response" /\ s.order["response"] = Unseen /\ ~s.local_reply
        BY <1>4, <1>7, <1>8, <3>1
      <4>2. Reached(s, w, side)
        BY <1>4, <1>5, <4>1, WiringReached DEF w
      <4> QED
        BY <4>1, <4>2 DEF Reached
    <3> QED
      BY <3>1
  <2>8. parked <=> side = "response" /\ state'.local_reply /\ state'.mode["response"] = "fds"
    BY <1>8 DEF parked
  <2> QED
    BY <1>3, <1>11, <2>1, <2>2, <2>4, <2>5, <2>6, <2>7, <2>8 DEF Conversed, w
<1>19. (wire \in [Sides -> WireType])'
  BY <1>1, <1>17
<1>20. ASSUME Running' PROVE Wiring(chain', state', wire')
  <2>1. ~Stops(r) /\ state' = t /\ out' = r.out
    BY <1>3, <1>20, FinishRunning DEF t
  <2>2. wire' = [d \in Sides |-> See(wire[d], r.out, d)]
    BY <1>1, <2>1
  <2>3. Wiring(chain, t, [d \in Sides |-> See(wire[d], r.out, d)])
    BY <1>7, <2>1
  <2> QED
    BY <1>3, <2>1, <2>2, <2>3
<1>21. Running' => Wiring(chain, state, wire)'
  BY <1>20
  DEF Wiring, Wired, LocalWired, Reached, Pending, Current, Owing, Parked, Unended
<1> QED
  BY <1>18, <1>19, <1>21 DEF WireInv, side

\* What the exchange is told is what was asked.
LEMMA AskedStage ==
  ASSUME NEW side
  PROVE  Asked(side) = Asking(state, side) /\ Asked(side)' = Asking(state', side)
BY DEF Asked, Asking

\* Such a message is one of the exchange.
LEMMA ConversedExchange ==
  ASSUME NEW side \in Sides, Conversed(side), state \in StateType, state' \in StateType
  PROVE  Peer!Message(side)
<1> DEFINE q == [d \in Sides |-> Asked(d)]
           p == [d \in Sides |-> AnsweredStage(d)]
           a == Asking(state', side)
           to == Asking(state, side)
           parked == side = "response" /\ state'.local_reply /\ state'.mode["response"] = "fds"
<1>1. /\ Running
      /\ \A d \in Sides \ {side} : Asking(state', d) = Asking(state, d) /\ wire'[d] = wire[d]
      /\ a \in Peer!UpTo(to, "trailers")
      /\ state.local_reply =>
           state'.local_reply /\ state'.mode["response"] = state.mode["response"]
      /\ state'.local_reply /\ ~state.local_reply =>
           side = "response" /\ wire[side].stage = "none" /\ ~wire[side].disordered
      /\ ~parked => /\ ~wire[side].disordered
                    /\ ~wire'[side].disordered
                    /\ wire'[side].stage \in Peer!UpTo(wire[side].stage, a)
  BY DEF Conversed
<1>2. a \in WireStages /\ to \in WireStages /\ "none" \in WireStages /\ "trailers" \in WireStages
  BY AskingType DEF WireStages
<1>3. q[side] = to /\ q'[side] = a /\ (\A d \in Sides \ {side} : q'[d] = q[d])
  BY <1>1, AskedStage
<1>4. /\ \A d \in Sides : AnsweredStage(d) =
           IF d = "response" /\ state.local_reply /\ state.mode["response"] = "fds"
             THEN Asking(state, d)
           ELSE IF wire[d].disordered THEN "disordered" ELSE wire[d].stage
      /\ \A d \in Sides : AnsweredStage(d)' =
           IF d = "response" /\ state'.local_reply /\ state'.mode["response"] = "fds"
             THEN Asking(state', d)
           ELSE IF wire'[d].disordered THEN "disordered" ELSE wire'[d].stage
  BY AskedStage DEF AnsweredStage, ParkedLocalReply
<1>5. \A d \in Sides \ {side} : p'[d] = p[d]
  BY <1>1, <1>4
<1>6. p'[side] \in Peer!UpTo(p[side], a)
  <2>1. CASE ~parked
    BY <1>1, <1>4, <2>1
  <2>2. CASE parked
    <3>1. p'[side] = a
      BY <1>4, <2>2
    <3>2. p[side] = to \/ p[side] = "none"
      BY <1>1, <1>4, <2>2
    <3>3. Peer!Rank[to] <= Peer!Rank[a] /\ Peer!Rank["none"] <= Peer!Rank[a]
          /\ Peer!Rank[a] \in 0..4
      <4> HIDE DEF a, to
      <4>1. Peer!Rank[to] <= Peer!Rank[a] /\ Peer!Rank[a] \in 0..4
        BY <1>1, <1>2, UpToOrder
      <4> QED
        BY <4>1, RankOf
    <3> DEFINE b == p[side]
    <3>4. b \in WireStages /\ Peer!Rank[b] <= Peer!Rank[a]
      BY <1>2, <3>2, <3>3
    <3> HIDE DEF a, b
    <3>5. a \in Peer!UpTo(b, a)
      BY <1>2, <3>3, <3>4, UpToOrder
    <3> QED
      BY <3>1, <3>5 DEF b
  <2> QED
    BY <2>1, <2>2
<1>7. q' = [q EXCEPT ![side] = a] /\ p' = [p EXCEPT ![side] = p'[side]]
  BY <1>3, <1>5
<1>8. q[side] = to /\ (~Running)' \in BOOLEAN
  BY <1>3
<1> HIDE DEF a, to, parked
<1> QED
  BY <1>1, <1>6, <1>7, <1>8 DEF Peer!Message

\* Nothing has been received on a new stream.
LEMMA InitWireInv == OInit => WireInv
<1> SUFFICES ASSUME OInit PROVE WireInv
  OBVIOUS
<1> DEFINE nothing == [stage |-> "none", disordered |-> FALSE, mutated |-> FALSE]
<1>1. wire = [side \in Sides |-> nothing] /\ nothing \in WireType /\ "response" \in Sides
  BY DEF OInit, WireType, WireStages, Sides
<1>2. /\ ~state.local_reply /\ ~state.buffered_request_body_processed
      /\ \A side \in Sides :
           /\ state.order[side] = Unseen /\ ~state.hooks[side].mutated
           /\ state.hooks[side].selected = 0 /\ Unended(state, side)
           /\ ~state.headers_sent[side]
  BY DEF OInit, Init, NewState, Both, Unended
<1>3. ~nothing.disordered /\ nothing.stage = "none"
  OBVIOUS
<1>4. ASSUME NEW side \in Sides PROVE Wired(chain, state, wire[side], side)
  <2>1. wire[side].stage = "none" /\ ~wire[side].disordered
    BY <1>1, <1>3
  <2>2. /\ state.order[side] = Unseen /\ ~state.hooks[side].mutated
        /\ state.hooks[side].selected = 0 /\ Unended(state, side)
        /\ ~state.headers_sent[side]
    BY <1>2
  <2> QED
    BY <2>1, <2>2 DEF Wired, Reached, Pending, Owing, Unseen, Headers, Body, Trailers
<1> HIDE DEF nothing
<1> QED
  BY <1>1, <1>2, <1>4 DEF WireInv, Wiring

\* What a step of the observed stream is to its peer: a message, an end or nothing.
LEMMA NextExchange ==
  ASSUME StreamInv, WireInv, [ONext]_ovars, state' \in StateType
  PROVE  /\ WireInv'
         /\ [Peer!Next]_<<[side \in Sides |-> Asked(side)],
                          [side \in Sides |-> AnsweredStage(side)], ~Running>>
<1> DEFINE q == [side \in Sides |-> Asked(side)]
           p == [side \in Sides |-> AnsweredStage(side)]
           Ok == WireInv' /\ [Peer!Next]_<<q, p, ~Running>>
<1> SUFFICES Ok
  OBVIOUS
<1>1. state \in StateType /\ wire \in [Sides -> WireType]
  BY DEF StreamInv, IInv, TypeOK, WireInv
<1>2. ASSUME NEW m \in MessageType, Observe(ReceiveAny(m)) PROVE Ok
  <2>1. m.side \in Sides
    BY DEF MessageType
  <2>2. Conversed(m.side) /\ WireInv'
    BY <1>2, ReceiveConversed
  <2>3. Peer!Message(m.side)
    BY <1>1, <2>1, <2>2, ConversedExchange
  <2> QED
    BY <2>1, <2>2, <2>3 DEF Peer!Next
<1>3. ASSUME NEW side \in Sides, \/ Observe(ReceiveHeaders(side))
                                 \/ Observe(ReceiveBody(side))
                                 \/ Observe(ReceiveTrailers(side))
      PROVE  Ok
  <2>1. PICK m \in MessageType : Observe(ReceiveAny(m))
    BY <1>3, MessagesTyped DEF Observe, ReceiveHeaders, ReceiveBody, ReceiveTrailers
  <2> QED
    BY <1>2, <2>1
<1>4. ASSUME out' = <<>>, wire' = [side \in Sides |-> See(wire[side], out', side)]
      PROVE  wire' = wire
  <2>1. \A side \in Sides : See(wire[side], out', side) = wire[side]
    BY <1>1, <1>4, SeeSilent
  <2> QED
    BY <1>1, <1>4, <2>1
<1>5. ASSUME state'.order = state.order, state'.eos = state.eos,
             state'.local_reply = state.local_reply, wire' = wire,
             state.local_reply => state'.mode = state.mode
      PROVE  q' = q /\ p' = p
  <2>1. \A side \in Sides : Asked(side)' = Asked(side)
    BY <1>5 DEF Asked
  <2>2. \A side \in Sides : AnsweredStage(side)' = AnsweredStage(side)
    BY <1>5, <2>1 DEF AnsweredStage, ParkedLocalReply
  <2> QED
    BY <2>1, <2>2
<1>6. CASE Observe(ReceiveEmpty)
  <2>1. PICK field \in AcceptedFields :
          /\ Running /\ state' = Configured(state, field) /\ out' = <<>>
          /\ status' = status /\ chain' = chain
    BY <1>6 DEF Observe, ReceiveEmpty
  <2>2. wire' = wire
    BY <1>4, <1>6, <2>1 DEF Observe
  <2>3. /\ Wiring(chain, state', wire) /\ state'.order = state.order /\ state'.eos = state.eos
        /\ state'.local_reply = state.local_reply
        /\ state.local_reply => state'.mode = state.mode
    BY <2>1, ConfiguredWiring
  <2>4. q' = q /\ p' = p /\ (~Running)' = ~Running
    BY <1>5, <2>1, <2>2, <2>3 DEF Running
  <2>5. Wiring(chain', state', wire')
    BY <2>1, <2>2, <2>3
  <2>6. Wiring(chain, state, wire)'
    BY <2>5
    DEF Wiring, Wired, LocalWired, Reached, Pending, Current, Owing, Parked, Unended
  <2>7. WireInv'
    BY <1>1, <2>2, <2>6 DEF WireInv
  <2> QED
    BY <2>4, <2>7
<1>7. CASE Observe(RefuseConfig) \/ Observe(InboundEnds("ok")) \/ Observe(InboundEnds("internal"))
  <2>1. Running /\ ~Running' /\ out' = <<>> /\ state' = state
        /\ wire' = [side \in Sides |-> See(wire[side], out', side)]
    BY <1>7 DEF Observe, RefuseConfig, InboundEnds, Running
  <2>2. wire' = wire
    BY <1>4, <2>1
  <2>3. q' = q /\ p' = p
    BY <1>5, <2>1, <2>2
  <2>4. Peer!End
    BY <2>1, <2>3 DEF Peer!End
  <2>5. WireInv'
    BY <1>1, <2>1, <2>2 DEF WireInv
  <2> QED
    BY <2>4, <2>5 DEF Peer!Next
<1>8. CASE UNCHANGED ovars
  <2>1. UNCHANGED <<chain, state, status, wire>>
    BY <1>8 DEF ovars, vars
  <2>2. q' = q /\ p' = p /\ (~Running)' = ~Running
    BY <1>5, <2>1 DEF Running
  <2>3. WireInv'
    BY <2>1 DEF WireInv, Running,
      Wiring, Wired, LocalWired, Reached, Pending, Current, Owing, Parked, Unended
  <2> QED
    BY <2>2, <2>3
<1> HIDE DEF Ok
<1> QED
  BY <1>3, <1>6, <1>7, <1>8 DEF ONext

\* Every state of an observed stream is one of the invariants' states.
LEMMA ObservedInvariant == OSpec => [](StreamInv /\ WireInv)
<1>1. StreamInv => state \in StateType
  BY DEF StreamInv, IInv, TypeOK
<1>2. StreamInv /\ [ONext]_ovars => StreamInv'
  BY ObservedSteps, NextStreamInv
<1>3. StreamInv' => state' \in StateType
  BY DEF StreamInv, IInv, TypeOK
<1>4. (StreamInv /\ WireInv) /\ [ONext]_ovars => (StreamInv /\ WireInv)'
  BY <1>2, <1>3, NextExchange
<1>5. OInit => StreamInv /\ WireInv
  BY InitStreamInv, InitWireInv DEF OInit
<1> QED
  BY <1>4, <1>5, PTL DEF OSpec

\* What has reached the peer of a waiting stream fits its modes, its phases and what
\* it still holds back, whichever messages came before.
THEOREM PeersWired == OSpec => []WireInv
BY ObservedInvariant, PTL

\* What header filters ask for reaches Envoy before the direction is closed, on each
\* of the ways on which run_request_header_filters_early, take_first_chunk,
\* deferred_header_response and the pipelines may send it.
THEOREM MutationsDelivered == OSpec => []MutationDelivered
<1>1. StreamInv /\ WireInv => MutationDelivered
  <2> SUFFICES ASSUME WireInv, Running, NEW side \in Sides, Closed(side),
                      state.hooks[side].mutated, ~wire[side].mutated
               PROVE  DroppedAtTrailers(side)
    BY DEF MutationDelivered
  <2>1. Wiring(chain, state, wire)
    BY DEF WireInv
  <2>2. Wired(chain, state, wire[side], side)
    BY <2>1 DEF Wiring, LocalWired
  <2>3. ~Pending(state, side)
    BY DEF Closed, Pending, Unended, Headers, Body, Trailers
  <2> QED
    BY <2>2, <2>3 DEF Wired, Owing, DroppedAtTrailers
<1> QED
  BY <1>1, ObservedInvariant, PTL

\* The stream, for every chain, mode, limit and order of messages, implements the
\* exchange: per direction one headers response, then body responses of which none
\* follows the final one, then one trailers response, none of them before it was
\* asked for.
THEOREM StreamImplementsExchange == OSpec => ImplementsExchange
<1> DEFINE q == [side \in Sides |-> Asked(side)]
           p == [side \in Sides |-> AnsweredStage(side)]
<1>1. OInit => Peer!Init
  <2> SUFFICES ASSUME OInit PROVE Peer!Init
    OBVIOUS
  <2>1. /\ \A side \in Sides : state.order[side] = Unseen
        /\ ~state.local_reply /\ Running
        /\ \A side \in Sides : wire[side].stage = "none" /\ ~wire[side].disordered
    BY DEF OInit, Init, NewState, Both, Running
  <2>2. ASSUME NEW side \in Sides PROVE Asked(side) = "none" /\ AnsweredStage(side) = "none"
    <3>1. state.order[side] = Unseen /\ wire[side].stage = "none" /\ ~wire[side].disordered
      BY <2>1
    <3>2. Asking(state, side) = "none"
      BY <3>1 DEF Asking, Unseen, Headers, Body, Trailers
    <3>3. AnsweredStage(side) = "none"
      BY <2>1, <3>1 DEF AnsweredStage, ParkedLocalReply
    <3> QED
      BY <3>2, <3>3, AskedStage
  <2> QED
    BY <2>1, <2>2 DEF Peer!Init
<1>2. StreamInv' => state' \in StateType
  BY DEF StreamInv, IInv, TypeOK
<1>3. (StreamInv /\ WireInv) /\ (StreamInv /\ WireInv)' /\ [ONext]_ovars =>
        [Peer!Next]_<<q, p, ~Running>>
  BY <1>2, NextExchange
<1> QED
  BY <1>1, <1>3, ObservedInvariant, PTL DEF OSpec, ImplementsExchange, Peer!Spec
=============================================================================
