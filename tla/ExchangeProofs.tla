---------------------------- MODULE ExchangeProofs ----------------------------
(***************************************************************************)
(* Theorems about an exchange: its body, for any maximum and any way to    *)
(* cut the body into frames; the parameters of the query, for any fields a *)
(* client writes; the headers of the request and those of the response,    *)
(* for any headers, any value of a handler and any order of a dict.        *)
(***************************************************************************)
EXTENDS QueryProofs, FiniteSetTheorems

\* The inductive invariant of the frame loop: what is left of the maximum and
\* what was collected make up the maximum, and nothing that came is missing
\* before a frame was refused.
LoopInv ==
    /\ remaining + Len(collected) = MaxBody
    /\ body # "refused" => collected = sent
    /\ body = "refused" => Len(sent) > MaxBody

\* A request is made from a whole body, and the body stays as it is.
RequestInv ==
    /\ stage = "handler" => body = "whole"
    /\ request # None => /\ stage # "body"
                         /\ body = "whole"
                         /\ request.body = collected

ExchangeInv == BodyTypeOK /\ LoopInv /\ RequestInv

-----------------------------------------------------------------------------

LEMMA BodyStep ==
    ASSUME BodyTypeOK, LoopInv, [BodyNext]_bvars
    PROVE  BodyTypeOK' /\ LoopInv'
<1>1. CASE UNCHANGED bvars
  BY <1>1 DEF bvars, BodyTypeOK, LoopInv
<1>2. ASSUME NEW data \in Chunks, DataFrame(data) PROVE BodyTypeOK' /\ LoopInv'
  <2>1. data \in Seq(Nat) /\ Len(data) \in Nat
    BY BodyAssumption
  <2>2. Len(sent \o data) = Len(sent) + Len(data) /\ sent \o data \in Seq(Nat)
    BY <2>1 DEF BodyTypeOK
  <2>3. /\ Len(collected \o data) = Len(collected) + Len(data)
        /\ collected \o data \in Seq(Nat)
    BY <2>1 DEF BodyTypeOK
  <2>4. MaxBody \in Nat /\ Len(collected) \in Nat /\ Len(sent) \in Nat
    BY BodyAssumption DEF BodyTypeOK
  <2>5. CASE Room(data)
    <3>1. /\ body = "reading" /\ body' = body
          /\ remaining' = remaining - Len(data) /\ Len(data) <= remaining
          /\ collected' = collected \o data /\ sent' = sent \o data
      BY <1>2, <2>5 DEF DataFrame, Room
    <3>2. collected = sent /\ remaining + Len(collected) = MaxBody /\ remaining \in Nat
      BY <2>4, <3>1 DEF BodyTypeOK, LoopInv
    <3>3. remaining' \in 0..MaxBody /\ remaining' + Len(collected') = MaxBody
      <4>1. Len(collected') = Len(collected) + Len(data)
        BY <2>3, <3>1
      <4>2. QED
        BY <2>1, <2>4, <3>1, <3>2, <4>1
    <3>4. collected' = sent' /\ collected' \in Seq(Nat) /\ sent' \in Seq(Nat)
      BY <2>2, <2>3, <3>1, <3>2
    <3>5. QED
      BY <3>1, <3>3, <3>4 DEF BodyTypeOK, LoopInv
  <2>6. CASE ~Room(data)
    <3>1. /\ body = "reading" /\ body' = "refused" /\ ~(Len(data) <= remaining)
          /\ remaining' = remaining /\ collected' = collected /\ sent' = sent \o data
      BY <1>2, <2>6 DEF DataFrame, Room
    <3>2. Len(sent) = MaxBody - remaining
      BY <2>4, <3>1 DEF BodyTypeOK, LoopInv
    <3>3. QED
      BY <2>1, <2>2, <2>4, <3>1, <3>2 DEF BodyTypeOK, LoopInv
  <2>7. QED
    BY <2>5, <2>6
<1>3. CASE TrailersFrame \/ BodyEnds
  BY <1>3 DEF TrailersFrame, BodyEnds, bvars, BodyTypeOK, LoopInv
<1>4. QED
  BY <1>1, <1>2, <1>3 DEF BodyNext

LEMMA ExchangeStep == ExchangeInv /\ [ExchangeNext]_xvars => ExchangeInv'
<1> SUFFICES ASSUME ExchangeInv, [ExchangeNext]_xvars PROVE ExchangeInv'
  OBVIOUS
<1>1. [BodyNext]_bvars
  BY DEF ExchangeNext, Receive, RefuseBody, Unrouted, CallHandler, HandlerRaises,
         HandlerReturns, Over, xvars
<1>2. BodyTypeOK' /\ LoopInv'
  BY <1>1, BodyStep DEF ExchangeInv
<1>3. RequestInv'
  <2>1. CASE Receive
    BY <2>1 DEF ExchangeInv, RequestInv, Receive
  <2>2. CASE RefuseBody \/ Unrouted
    <3>1. stage' \in {"answered", "aborted"} /\ UNCHANGED <<bvars, request>>
      BY <2>2 DEF RefuseBody, Unrouted, Respond
    <3>2. QED
      BY <3>1 DEF ExchangeInv, RequestInv, bvars
  <2>3. CASE CallHandler
    BY <2>3 DEF ExchangeInv, RequestInv, CallHandler, bvars
  <2>4. CASE HandlerRaises \/ \E v \in Values : HandlerReturns(v)
    <3>1. stage' \in {"answered", "aborted"} /\ UNCHANGED <<bvars, request>>
      BY <2>4 DEF HandlerRaises, HandlerReturns, Respond
    <3>2. QED
      BY <3>1 DEF ExchangeInv, RequestInv, bvars
  <2>5. CASE UNCHANGED xvars
    BY <2>5 DEF ExchangeInv, RequestInv, xvars, bvars
  <2>6. QED
    BY <2>1, <2>2, <2>3, <2>4, <2>5 DEF ExchangeNext, Over
<1>4. QED
  BY <1>2, <1>3 DEF ExchangeInv

LEMMA ExchangeStart == ExchangeInit => ExchangeInv
  BY BodyAssumption DEF ExchangeInit, BodyInit, ExchangeInv, BodyTypeOK, LoopInv,
                        RequestInv

-----------------------------------------------------------------------------
(* The body *)

\* collect_body takes a body over whole or refuses it, refuses it exactly when
\* it is longer than max_body_size, and the handler gets what was sent.
THEOREM BodyAlwaysWhole == ExchangeSpec => []BodyIsWhole
<1>1. ExchangeInv => BodyIsWhole
  <2> SUFFICES ASSUME ExchangeInv PROVE BodyIsWhole
    OBVIOUS
  <2>1. MaxBody \in Nat /\ Len(collected) \in Nat /\ remaining \in Nat
    BY BodyAssumption DEF ExchangeInv, BodyTypeOK
  <2>2. Len(collected) <= MaxBody
    BY <2>1 DEF ExchangeInv, LoopInv
  <2>3. CollectedWhole
    BY <2>2 DEF ExchangeInv, LoopInv, CollectedWhole
  <2>4. BodyAsSent
    BY <2>2 DEF ExchangeInv, LoopInv, RequestInv, BodyAsSent
  <2>5. QED
    BY <2>3, <2>4 DEF BodyIsWhole
<1>2. QED
  BY <1>1, ExchangeStart, ExchangeStep, PTL DEF ExchangeSpec

-----------------------------------------------------------------------------
(* The loops over headers *)

\* The body of the loop in HeadersSeen.
See(map, h) == IF h.value \in OpaqueTexts THEN map ELSE Insert(map, h.name, h.value)

\* The indices of the legible ones among the first k headers.
LegibleUpTo(hs, k) == {i \in 1..k : hs[i].value \notin OpaqueTexts}

\* What a map of the first k headers should be.
SeenUpTo(hs, k, map) ==
    /\ DOMAIN map = {hs[i].name : i \in LegibleUpTo(hs, k)}
    /\ \A i \in LegibleUpTo(hs, k) :
          \/ map[hs[i].name] = hs[i].value
          \/ \E j \in LegibleUpTo(hs, k) : j > i /\ hs[j].name = hs[i].name

LEMMA SeeKeeps ==
    ASSUME NEW hs, NEW k \in Nat, NEW map, SeenUpTo(hs, k, map)
    PROVE  SeenUpTo(hs, k + 1, See(map, hs[k + 1]))
<1> DEFINE h == hs[k + 1]
           new == See(map, h)
<1>1. CASE h.value \in OpaqueTexts
  <2>1. LegibleUpTo(hs, k + 1) = LegibleUpTo(hs, k)
    BY <1>1 DEF LegibleUpTo
  <2>2. QED
    BY <1>1, <2>1 DEF SeenUpTo, See
<1>2. CASE h.value \notin OpaqueTexts
  <2>1. LegibleUpTo(hs, k + 1) = LegibleUpTo(hs, k) \cup {k + 1}
    BY <1>2 DEF LegibleUpTo
  <2>2. new = [x \in {h.name} \cup DOMAIN map |-> IF x = h.name THEN h.value ELSE map[x]]
    BY <1>2 DEF See, Insert
  <2>3. DOMAIN new = {hs[i].name : i \in LegibleUpTo(hs, k + 1)}
    BY <2>1, <2>2 DEF SeenUpTo
  <2>4. ASSUME NEW i \in LegibleUpTo(hs, k + 1)
        PROVE  \/ new[hs[i].name] = hs[i].value
               \/ \E j \in LegibleUpTo(hs, k + 1) : j > i /\ hs[j].name = hs[i].name
    <3>1. CASE i = k + 1
      BY <2>2, <3>1
    <3>2. CASE i \in LegibleUpTo(hs, k) /\ hs[i].name = h.name
      <4>1. k + 1 \in LegibleUpTo(hs, k + 1) /\ k + 1 > i
        BY <2>1, <3>2 DEF LegibleUpTo
      <4>2. QED
        BY <3>2, <4>1
    <3>3. CASE i \in LegibleUpTo(hs, k) /\ hs[i].name # h.name
      <4>1. hs[i].name \in DOMAIN map
        BY <3>3 DEF SeenUpTo
      <4>2. new[hs[i].name] = map[hs[i].name]
        BY <2>2, <3>3, <4>1
      <4>3. QED
        BY <2>1, <3>3, <4>2 DEF SeenUpTo
    <3>4. QED
      BY <2>1, <3>1, <3>2, <3>3
  <2> HIDE DEF new
  <2>5. SeenUpTo(hs, k + 1, new)
    BY <2>3, <2>4 DEF SeenUpTo
  <2>6. QED
    BY <2>5 DEF new
<1>3. QED
  BY <1>1, <1>2

LEMMA HeadersSeenRight ==
    ASSUME NEW hs, hs \in Seq(ToSet(hs))
    PROVE  SeenUpTo(hs, Len(hs), HeadersSeen(hs))
<1> DEFINE n == Len(hs)
           Eq(g) == g = [s \in SUBSET (1..n) |->
                            IF s = {} THEN <<>>
                            ELSE See(g[s \ {Max(s)}], hs[Max(s)])]
           Names == {hs[i].name : i \in 1..n}
           Texts == {hs[i].value : i \in 1..n}
           Maps == UNION {[D -> Texts] : D \in SUBSET Names}
           insert == [p \in (1..n) \X Maps |-> See(p[2], hs[p[1]])]
<1>1. n \in Nat /\ DOMAIN hs = 1..n
  OBVIOUS
<1>2. HeadersSeen(hs) = (CHOOSE g : Eq(g))[1..n]
  BY <1>1 DEF HeadersSeen, FoldLeft, MapThenFoldSet, See
<1>3. <<>> \in Maps
  <2>1. <<>> \in [{} -> Texts] /\ {} \in SUBSET Names
    OBVIOUS
  <2>2. QED
    BY <2>1
<1>4. insert \in [(1..n) \X Maps -> Maps]
  <2>1. ASSUME NEW i \in 1..n, NEW map \in Maps PROVE See(map, hs[i]) \in Maps
    <3>1. CASE hs[i].value \in OpaqueTexts
      BY <3>1 DEF See, Insert
    <3>2. CASE hs[i].value \notin OpaqueTexts
      <4>1. PICK D \in SUBSET Names : map \in [D -> Texts]
        OBVIOUS
      <4>2. See(map, hs[i]) =
                [x \in {hs[i].name} \cup D |-> IF x = hs[i].name THEN hs[i].value ELSE map[x]]
        BY <3>2, <4>1 DEF See, Insert
      <4>3. See(map, hs[i]) \in [{hs[i].name} \cup D -> Texts]
        BY <4>1, <4>2
      <4>4. {hs[i].name} \cup D \in SUBSET Names
        OBVIOUS
      <4>5. QED
        BY <4>3, <4>4
    <3>3. QED
      BY <3>1, <3>2
  <2> HIDE DEF Maps
  <2>2. QED
    BY <2>1
<1>5. \E g : Eq(g)
  <2> HIDE DEF Maps, insert
  <2>1. PICK f \in [SUBSET (1..n) -> Maps] : IsFold(f, n, <<>>, insert)
    BY <1>1, <1>3, <1>4, FoldExists
  <2>2. ASSUME NEW s \in SUBSET (1..n), s # {}
        PROVE  insert[<<Max(s), f[s \ {Max(s)}]>>] = See(f[s \ {Max(s)}], hs[Max(s)])
    <3>1. Max(s) \in 1..n
      BY <1>1, <2>2, LastIndex
    <3>2. f[s \ {Max(s)}] \in Maps
      <4>1. s \ {Max(s)} \in SUBSET (1..n)
        OBVIOUS
      <4>2. QED
        BY <2>1, <4>1
    <3>3. QED
      BY <3>1, <3>2 DEF insert
  <2>3. Eq(f)
    BY <2>1, <2>2 DEF IsFold
  <2>4. QED
    BY <2>3
<1> DEFINE g == CHOOSE g : Eq(g)
<1>6. Eq(g)
  BY <1>5
<1> HIDE DEF g, Maps, insert
<1> DEFINE Parts == {g[s] : s \in SUBSET (1..n)}
           step == [p \in (1..n) \X Parts |-> See(p[2], hs[p[1]])]
<1>7. IsFold(g, n, <<>>, step)
  <2>1. ASSUME NEW s \in SUBSET (1..n), s # {}
        PROVE  step[<<Max(s), g[s \ {Max(s)}]>>] = See(g[s \ {Max(s)}], hs[Max(s)])
    <3>1. Max(s) \in 1..n
      BY <1>1, <2>1, LastIndex
    <3>2. g[s \ {Max(s)}] \in Parts
      <4>1. s \ {Max(s)} \in SUBSET (1..n)
        OBVIOUS
      <4>2. QED
        BY <4>1
    <3> HIDE DEF Parts
    <3>3. QED
      BY <3>1, <3>2
  <2> HIDE DEF step
  <2>2. QED
    BY <1>6, <2>1 DEF IsFold
<1>8. \A k \in 0..(n - 1) : g[1..(k + 1)] = See(g[1..k], hs[k + 1])
  <2>1. \A k \in 0..(n - 1) : g[1..(k + 1)] = step[<<k + 1, g[1..k]>>]
    <3> HIDE DEF step
    <3>1. QED
      BY <1>1, <1>7, FoldUnrolled
  <2>2. ASSUME NEW k \in 0..(n - 1) PROVE k + 1 \in 1..n /\ g[1..k] \in Parts
    <3>1. k + 1 \in 1..n /\ \A i \in 1..k : i \in 1..n
      BY <1>1
    <3>2. QED
      BY <3>1
  <2> HIDE DEF Parts
  <2>3. QED
    BY <2>1, <2>2
<1>9. g[1..0] = <<>>
  <2> HIDE DEF step
  <2>1. QED
    BY <1>1, <1>7, FoldUnrolled
<1> HIDE DEF step, Parts
<1> DEFINE All == {g[1..k] : k \in 0..n}
           Right == [k \in 0..n |-> {m \in All : SeenUpTo(hs, k, m)}]
<1>10. SeenUpTo(hs, 0, <<>>)
  <2>1. LegibleUpTo(hs, 0) = {} /\ DOMAIN <<>> = {}
    BY DEF LegibleUpTo
  <2>2. QED
    BY <2>1 DEF SeenUpTo
<1>11. g[1..n] \in Right[n]
  <2>1. g[1..0] \in Right[0]
    BY <1>1, <1>9, <1>10
  <2>2. ASSUME NEW k \in 0..(n - 1), g[1..k] \in Right[k]
        PROVE  g[1..(k + 1)] \in Right[k + 1]
    <3>1. k \in Nat /\ k \in 0..n /\ k + 1 \in 0..n
      BY <1>1
    <3>2. SeenUpTo(hs, k, g[1..k])
      BY <2>2, <3>1
    <3>3. SeenUpTo(hs, k + 1, g[1..(k + 1)])
      BY <1>8, <3>1, <3>2, SeeKeeps
    <3>4. QED
      BY <3>1, <3>3
  <2> HIDE DEF Right
  <2>3. QED
    BY <1>1, <2>1, <2>2, LoopKeeps
<1>12. SeenUpTo(hs, n, g[1..n])
  BY <1>1, <1>11
<1>13. QED
  BY <1>2, <1>12 DEF g

-----------------------------------------------------------------------------

\* The indices of the headers of v that are well formed, among the first k of
\* an order of its dict.
LegalUpTo(v, order, k) ==
    {i \in 1..k : order[i] \in DOMAIN NameOf /\ v.headers[order[i]] \notin IllegalTexts}

\* What the response to v should be after the first k headers.
SetUpTo(v, order, k, resp) ==
    LET legal == LegalUpTo(v, order, k)
    IN  /\ resp = [status |-> Status(v.status), headers |-> resp.headers, body |-> v.body]
        /\ DOMAIN resp.headers = {"content-type"} \cup {NameOf[order[i]] : i \in legal}
        /\ \A n \in DOMAIN resp.headers :
              \/ \E i \in legal : NameOf[order[i]] = n /\ resp.headers[n] = v.headers[order[i]]
              \/ /\ n = "content-type" /\ resp.headers[n] = v.content_type
                 /\ \A i \in legal : NameOf[order[i]] # n

LEMMA WithHeaderKeeps ==
    ASSUME NEW v, NEW order, NEW k \in Nat, NEW resp, SetUpTo(v, order, k, resp)
    PROVE  SetUpTo(v, order, k + 1,
                   WithHeader(resp, order[k + 1], v.headers[order[k + 1]]))
<1> DEFINE key == order[k + 1]
           value == v.headers[order[k + 1]]
           new == WithHeader(resp, key, value)
<1>1. CASE ~(key \in DOMAIN NameOf /\ value \notin IllegalTexts)
  <2>1. LegalUpTo(v, order, k + 1) = LegalUpTo(v, order, k)
    BY <1>1 DEF LegalUpTo
  <2>2. new = resp
    BY <1>1 DEF WithHeader
  <2>3. QED
    BY <2>1, <2>2 DEF SetUpTo
<1>2. CASE key \in DOMAIN NameOf /\ value \notin IllegalTexts
  <2>1. LegalUpTo(v, order, k + 1) = LegalUpTo(v, order, k) \cup {k + 1}
    BY <1>2 DEF LegalUpTo
  <2>2. new = [resp EXCEPT !.headers = Insert(resp.headers, NameOf[key], value)]
    BY <1>2 DEF WithHeader
  <2>3. resp = [status |-> Status(v.status), headers |-> resp.headers, body |-> v.body]
    BY DEF SetUpTo
  <2> HIDE DEF new
  <2>4. /\ new.headers = Insert(resp.headers, NameOf[key], value)
        /\ new = [status |-> Status(v.status), headers |-> new.headers, body |-> v.body]
    BY <2>2, <2>3
  <2>5. DOMAIN new.headers = {NameOf[key]} \cup DOMAIN resp.headers
    BY <2>4 DEF Insert
  <2>6. DOMAIN new.headers =
            {"content-type"} \cup {NameOf[order[i]] : i \in LegalUpTo(v, order, k + 1)}
    BY <2>1, <2>5 DEF SetUpTo
  <2>7. ASSUME NEW n \in DOMAIN new.headers
        PROVE  \/ \E i \in LegalUpTo(v, order, k + 1) :
                     NameOf[order[i]] = n /\ new.headers[n] = v.headers[order[i]]
               \/ /\ n = "content-type" /\ new.headers[n] = v.content_type
                  /\ \A i \in LegalUpTo(v, order, k + 1) : NameOf[order[i]] # n
    <3>1. CASE n = NameOf[key]
      <4>1. new.headers[n] = value
        BY <2>4, <2>5, <3>1 DEF Insert
      <4>2. k + 1 \in LegalUpTo(v, order, k + 1)
        BY <2>1
      <4>3. QED
        BY <3>1, <4>1, <4>2
    <3>2. CASE n # NameOf[key]
      <4>1. n \in DOMAIN resp.headers /\ new.headers[n] = resp.headers[n]
        BY <2>4, <2>5, <3>2 DEF Insert
      <4>2. QED
        BY <2>1, <3>2, <4>1 DEF SetUpTo
    <3>3. QED
      BY <3>1, <3>2
  <2>8. SetUpTo(v, order, k + 1, new)
    BY <2>4, <2>6, <2>7 DEF SetUpTo
  <2>9. QED
    BY <2>8 DEF new
<1>3. QED
  BY <1>1, <1>2

\* An order of a finite set has all its members.
LEMMA OrderIsWhole ==
    ASSUME NEW S, IsFiniteSet(S), NEW order \in SetToSeqs(S)
    PROVE  \E n \in Nat : order \in [1..n -> S] /\ S = {order[i] : i \in 1..n}
<1> DEFINE n == Cardinality(S)
<1>1. n \in Nat
  BY FS_CardinalityType
<1>2. order \in [1..n -> S] /\ \A i, j \in 1..n : i # j => order[i] # order[j]
  BY DEF SetToSeqs
<1>3. order \in Injection(1..n, S)
  BY <1>2 DEF Injection, IsInjective
<1>4. Cardinality(1..n) = n
  <2> HIDE DEF n
  <2>1. QED
    BY <1>1, FS_Interval
<1>5. order \in Surjection(1..n, S)
  BY <1>3, <1>4, FS_Injection
<1>6. S = {order[i] : i \in 1..n}
  BY <1>2, <1>5 DEF Surjection
<1>7. QED
  BY <1>1, <1>2, <1>6

LEMMA SetRight ==
    ASSUME NEW v, IsFiniteSet(DOMAIN v.headers), NEW resp \in FromResponse(v)
    PROVE  \E n \in Nat : \E order \in [1..n -> DOMAIN v.headers] :
              /\ DOMAIN v.headers = {order[i] : i \in 1..n}
              /\ SetUpTo(v, order, n, resp)
<1> DEFINE D == DOMAIN v.headers
           first == New(Status(v.status), v.body, v.content_type)
           Put(r, k) == WithHeader(r, k, v.headers[k])
<1>1. PICK order \in SetToSeqs(D) :
          resp = (CHOOSE g : g = [s \in SUBSET (DOMAIN order) |->
                                    IF s = {} THEN first
                                    ELSE Put(g[s \ {Max(s)}], order[Max(s)])])[DOMAIN order]
  BY DEF FromResponse, FoldLeft, MapThenFoldSet
<1>2. PICK n \in Nat : order \in [1..n -> D] /\ D = {order[i] : i \in 1..n}
  BY OrderIsWhole
<1> DEFINE Eq(g) == g = [s \in SUBSET (1..n) |->
                            IF s = {} THEN first
                            ELSE Put(g[s \ {Max(s)}], order[Max(s)])]
           Names == {"content-type"} \cup {NameOf[k] : k \in DOMAIN NameOf}
           Texts == {v.content_type} \cup {v.headers[k] : k \in D}
           Maps == UNION {[N -> Texts] : N \in SUBSET Names}
           Resps == [status : {Status(v.status)}, headers : Maps, body : {v.body}]
           put == [p \in (1..n) \X Resps |-> Put(p[2], order[p[1]])]
<1>3. resp = (CHOOSE g : Eq(g))[1..n]
  <2>1. DOMAIN order = 1..n
    BY <1>2
  <2>2. QED
    BY <1>1, <2>1
<1>4. first \in Resps
  <2>1. [m \in {"content-type"} |-> v.content_type] \in [{"content-type"} -> Texts]
    OBVIOUS
  <2>2. {"content-type"} \in SUBSET Names
    OBVIOUS
  <2>3. [m \in {"content-type"} |-> v.content_type] \in Maps
    BY <2>1, <2>2
  <2> HIDE DEF Maps
  <2>4. QED
    BY <2>3 DEF New
<1>5. ASSUME NEW i \in 1..n, NEW r \in Resps PROVE Put(r, order[i]) \in Resps
  <2> DEFINE k == order[i]
  <2>1. k \in D
    BY <1>2
  <2>2. CASE ~(k \in DOMAIN NameOf /\ v.headers[k] \notin IllegalTexts)
    BY <2>2 DEF WithHeader
  <2>3. CASE k \in DOMAIN NameOf /\ v.headers[k] \notin IllegalTexts
    <3>1. PICK N \in SUBSET Names : r.headers \in [N -> Texts]
      OBVIOUS
    <3>2. Insert(r.headers, NameOf[k], v.headers[k]) \in [{NameOf[k]} \cup N -> Texts]
      BY <2>1, <3>1 DEF Insert
    <3>3. {NameOf[k]} \cup N \in SUBSET Names
      BY <2>3
    <3>4. Insert(r.headers, NameOf[k], v.headers[k]) \in Maps
      BY <3>2, <3>3
    <3> HIDE DEF Maps
    <3>5. QED
      BY <2>3, <3>4 DEF WithHeader
  <2>4. QED
    BY <2>2, <2>3
<1> HIDE DEF Resps
<1>6. put \in [(1..n) \X Resps -> Resps]
  <2> HIDE DEF Put
  <2>1. QED
    BY <1>5
<1>7. \E g : Eq(g)
  <2> HIDE DEF put, first, Put
  <2>1. PICK f \in [SUBSET (1..n) -> Resps] : IsFold(f, n, first, put)
    BY <1>2, <1>4, <1>6, FoldExists
  <2>2. ASSUME NEW s \in SUBSET (1..n), s # {}
        PROVE  put[<<Max(s), f[s \ {Max(s)}]>>] = Put(f[s \ {Max(s)}], order[Max(s)])
    <3>1. Max(s) \in 1..n
      BY <1>2, <2>2, LastIndex
    <3>2. f[s \ {Max(s)}] \in Resps
      <4>1. s \ {Max(s)} \in SUBSET (1..n)
        OBVIOUS
      <4>2. QED
        BY <2>1, <4>1
    <3>3. QED
      BY <3>1, <3>2 DEF put
  <2>3. Eq(f)
    BY <2>1, <2>2 DEF IsFold
  <2>4. QED
    BY <2>3
<1> DEFINE g == CHOOSE g : Eq(g)
<1>8. Eq(g)
  BY <1>7
<1> HIDE DEF g, put, first, Put
<1> DEFINE Parts == {g[s] : s \in SUBSET (1..n)}
           step == [p \in (1..n) \X Parts |-> Put(p[2], order[p[1]])]
<1>9. IsFold(g, n, first, step)
  <2>1. ASSUME NEW s \in SUBSET (1..n), s # {}
        PROVE  step[<<Max(s), g[s \ {Max(s)}]>>] = Put(g[s \ {Max(s)}], order[Max(s)])
    <3>1. Max(s) \in 1..n
      BY <1>2, <2>1, LastIndex
    <3>2. g[s \ {Max(s)}] \in Parts
      <4>1. s \ {Max(s)} \in SUBSET (1..n)
        OBVIOUS
      <4>2. QED
        BY <4>1
    <3> HIDE DEF Parts
    <3>3. QED
      BY <3>1, <3>2
  <2> HIDE DEF step
  <2>2. QED
    BY <1>8, <2>1 DEF IsFold
<1>10. \A k \in 0..(n - 1) : g[1..(k + 1)] = Put(g[1..k], order[k + 1])
  <2>1. \A k \in 0..(n - 1) : g[1..(k + 1)] = step[<<k + 1, g[1..k]>>]
    <3> HIDE DEF step
    <3>1. QED
      BY <1>2, <1>9, FoldUnrolled
  <2>2. ASSUME NEW k \in 0..(n - 1) PROVE k + 1 \in 1..n /\ g[1..k] \in Parts
    <3>1. k + 1 \in 1..n /\ \A i \in 1..k : i \in 1..n
      BY <1>2
    <3>2. QED
      BY <3>1
  <2> HIDE DEF Parts
  <2>3. QED
    BY <2>1, <2>2
<1>11. g[1..0] = first
  <2> HIDE DEF step
  <2>1. QED
    BY <1>2, <1>9, FoldUnrolled
<1> HIDE DEF step, Parts
<1> DEFINE All == {g[1..k] : k \in 0..n}
           Right == [k \in 0..n |-> {r \in All : SetUpTo(v, order, k, r)}]
<1>12. SetUpTo(v, order, 0, first)
  <2>1. LegalUpTo(v, order, 0) = {}
    BY DEF LegalUpTo
  <2>2. /\ first = [status |-> Status(v.status), headers |-> first.headers, body |-> v.body]
        /\ first.headers = [m \in {"content-type"} |-> v.content_type]
    BY DEF first, New
  <2>3. QED
    BY <2>1, <2>2 DEF SetUpTo
<1>13. g[1..n] \in Right[n]
  <2>1. g[1..0] \in Right[0]
    BY <1>2, <1>11, <1>12
  <2>2. ASSUME NEW k \in 0..(n - 1), g[1..k] \in Right[k]
        PROVE  g[1..(k + 1)] \in Right[k + 1]
    <3>1. k \in Nat /\ k \in 0..n /\ k + 1 \in 0..n
      BY <1>2
    <3>2. SetUpTo(v, order, k, g[1..k])
      BY <2>2, <3>1
    <3>3. SetUpTo(v, order, k + 1, Put(g[1..k], order[k + 1]))
      BY <3>1, <3>2, WithHeaderKeeps DEF Put
    <3>4. SetUpTo(v, order, k + 1, g[1..(k + 1)])
      BY <1>10, <3>3
    <3>5. QED
      BY <3>1, <3>4
  <2> HIDE DEF Right
  <2>3. QED
    BY <1>2, <2>1, <2>2, LoopKeeps
<1>14. SetUpTo(v, order, n, g[1..n])
  BY <1>2, <1>13
<1>15. QED
  BY <1>2, <1>3, <1>14 DEF g

-----------------------------------------------------------------------------
(* From the answer to the wire *)

\* The responses of the engine itself.
Errors ==
    {NotFound, MethodNotAllowed, InternalError("body too large or unreadable"),
     InternalError("the exception")}

\* Those there can be, for what the handler returned.
Responses ==
    IF returned = None \/ Raises(returned) THEN Errors ELSE Converted(returned)

\* The inductive invariant of the data: what the handler sees is made from the
\* head of its own request, and what is on the wire from the handler's value or
\* from an error.
ReplyInv ==
    /\ head \in Heads
    /\ stage \in {"body", "handler", "answered", "aborted"}
    /\ stage \in {"body", "handler"} => returned = None /\ wire = None
    /\ returned \in Values \cup {None}
    /\ request # None => /\ DOMAIN request = {"query_params", "headers", "body"}
                         /\ request.query_params = QueryParams
                         /\ request.headers = HeadersSeen(head.headers)
    /\ wire # None => \E resp \in Responses : wire = Rendered(resp, server)

\* What the header properties say of a response before it is rendered.
ResponseRight(resp) ==
    /\ resp.status \in 100..999
    /\ "content-type" \in DOMAIN resp.headers
    /\ \A n : IF SetFor(n) # {}
              THEN n \in DOMAIN resp.headers /\ resp.headers[n] \in SetFor(n)
              ELSE n \in DOMAIN resp.headers => n = "content-type"
    /\ SetFor("content-type") = {} =>
          resp.headers["content-type"] =
              IF returned # None /\ returned.type = "Response" /\ ~Raises(returned)
              THEN returned.content_type
              ELSE CASE resp.body.form = "json" -> JsonType
                     [] resp.body.form = "text" -> TextType
                     [] resp.body.form = "octets" -> OctetType

LEMMA ReplyStep == ReplyInv /\ [ExchangeNext]_xvars => ReplyInv'
<1> SUFFICES ASSUME ReplyInv, [ExchangeNext]_xvars PROVE ReplyInv'
  OBVIOUS
<1>1. CASE Receive
  BY <1>1 DEF ReplyInv, Receive, Responses, QueryParams
<1>2. CASE RefuseBody \/ Unrouted
  <2>1. PICK resp \in Errors : Respond(resp)
    BY <1>2 DEF RefuseBody, Unrouted, Errors
  <2>2. UNCHANGED <<head, server, request, returned>> /\ returned = None /\ wire = None
    BY <1>2 DEF RefuseBody, Unrouted, ReplyInv
  <2>3. Responses' = Errors
    BY <2>2 DEF Responses
  <2>4. QED
    BY <2>1, <2>2, <2>3 DEF ReplyInv, Respond, QueryParams
<1>3. CASE CallHandler
  BY <1>3 DEF ReplyInv, CallHandler, Responses, QueryParams
<1>4. CASE HandlerRaises
  <2>1. Respond(InternalError("the exception")) /\ UNCHANGED <<head, server, request>>
    BY <1>4 DEF HandlerRaises
  <2>2. wire = None /\ returned' \in Values \cup {None}
    BY <1>4 DEF HandlerRaises, ReplyInv
  <2>3. Responses' = Errors
    BY <1>4 DEF HandlerRaises, Responses
  <2>4. QED
    BY <2>1, <2>2, <2>3 DEF ReplyInv, Respond, Errors, QueryParams
<1>5. ASSUME NEW v \in Values, HandlerReturns(v) PROVE ReplyInv'
  <2>1. returned' = v /\ v # None /\ wire = None /\ UNCHANGED <<head, server, request>>
    BY <1>5, ExchangeAssumption DEF HandlerReturns, ReplyInv
  <2>2. CASE stage' = "aborted" /\ UNCHANGED wire
    BY <2>1, <2>2 DEF ReplyInv, QueryParams
  <2>3. CASE ~Raises(v) /\ \E resp \in Converted(v) : Respond(resp)
    <3>1. PICK resp \in Converted(v) : Respond(resp)
      BY <2>3
    <3>2. Responses' = Converted(v)
      BY <2>1, <2>3 DEF Responses
    <3>3. QED
      BY <2>1, <3>1, <3>2 DEF ReplyInv, Respond, QueryParams
  <2>4. QED
    BY <1>5, <2>2, <2>3 DEF HandlerReturns
<1>6. CASE UNCHANGED xvars
  BY <1>6 DEF ReplyInv, xvars, Responses, QueryParams
<1>7. QED
  BY <1>1, <1>2, <1>3, <1>4, <1>5, <1>6 DEF ExchangeNext, Over

LEMMA ReplyStart == ExchangeInit => ReplyInv
  BY DEF ExchangeInit, ReplyInv

LEMMA ErrorsRight ==
    ASSUME ReplyInv, returned = None \/ Raises(returned), NEW resp \in Errors
    PROVE  ResponseRight(resp)
<1>1. /\ resp.status \in {404, 405, 500} /\ resp.body.form = "json"
      /\ resp.headers = [n \in {"content-type"} |-> JsonType]
  <2>1. CASE resp = NotFound
    BY <2>1 DEF NotFound, New, Written
  <2>2. CASE resp = MethodNotAllowed
    BY <2>2 DEF MethodNotAllowed, New, Written
  <2>3. CASE \E why : resp = InternalError(why)
    BY <2>3 DEF InternalError, New, Written
  <2>4. QED
    BY <2>1, <2>2, <2>3 DEF Errors
<1>2. \A n : SetFor(n) = {}
  BY DEF SetFor, Raises
<1>3. ~(returned # None /\ returned.type = "Response" /\ ~Raises(returned))
  BY DEF Raises
<1>4. QED
  BY <1>1, <1>2, <1>3 DEF ResponseRight

LEMMA ConvertedRight ==
    ASSUME ReplyInv, returned # None, ~Raises(returned), NEW resp \in Converted(returned)
    PROVE  ResponseRight(resp)
<1>1. CASE returned.type = "Response"
  <2> DEFINE v == returned
  <2>1. v \in Values /\ IsFiniteSet(DOMAIN v.headers)
    BY <1>1, ExchangeAssumption DEF ReplyInv
  <2>2. resp \in FromResponse(v)
    BY <1>1 DEF Converted, IsText, IsOctets
  <2>3. PICK n \in Nat : \E order \in [1..n -> DOMAIN v.headers] :
            /\ DOMAIN v.headers = {order[i] : i \in 1..n}
            /\ SetUpTo(v, order, n, resp)
    BY <2>1, <2>2, SetRight
  <2>4. PICK order \in [1..n -> DOMAIN v.headers] :
            /\ DOMAIN v.headers = {order[i] : i \in 1..n}
            /\ SetUpTo(v, order, n, resp)
    BY <2>3
  <2> DEFINE legal == LegalUpTo(v, order, n)
  <2>5. \A name : SetFor(name) = {v.headers[order[i]] : i \in {i \in legal : NameOf[order[i]] = name}}
    <3> SUFFICES ASSUME NEW name
                 PROVE  SetFor(name) = {v.headers[order[i]] : i \in {i \in legal : NameOf[order[i]] = name}}
      OBVIOUS
    <3>1. SetFor(name) = {v.headers[k] : k \in {k \in DOMAIN v.headers \cap DOMAIN NameOf :
                                          NameOf[k] = name}} \ IllegalTexts
      BY <1>1 DEF SetFor
    <3>2. ASSUME NEW x \in SetFor(name)
          PROVE  \E i \in legal : NameOf[order[i]] = name /\ x = v.headers[order[i]]
      BY <2>4, <3>1, <3>2 DEF LegalUpTo
    <3>3. ASSUME NEW i \in legal, NameOf[order[i]] = name
          PROVE  v.headers[order[i]] \in SetFor(name)
      BY <2>4, <3>1, <3>3 DEF LegalUpTo
    <3>4. QED
      BY <3>2, <3>3
  <2>6. resp.status \in 100..999
    <3>1. resp.status = Status(v.status)
      BY <2>4 DEF SetUpTo
    <3>2. Status(v.status) \in 100..999
      BY DEF Status
    <3>3. QED
      BY <3>1, <3>2
  <2>7. "content-type" \in DOMAIN resp.headers
    BY <2>4 DEF SetUpTo
  <2>8. ASSUME NEW name
        PROVE  IF SetFor(name) # {}
               THEN name \in DOMAIN resp.headers /\ resp.headers[name] \in SetFor(name)
               ELSE name \in DOMAIN resp.headers => name = "content-type"
    <3>1. name \in DOMAIN resp.headers <=>
              name = "content-type" \/ \E i \in legal : NameOf[order[i]] = name
      BY <2>4 DEF SetUpTo
    <3>2. CASE SetFor(name) # {}
      <4>1. PICK i \in legal : NameOf[order[i]] = name
        BY <2>5, <3>2
      <4>2. PICK j \in legal : NameOf[order[j]] = name /\ resp.headers[name] = v.headers[order[j]]
        BY <2>4, <3>1, <4>1 DEF SetUpTo
      <4>3. QED
        BY <2>5, <3>1, <3>2, <4>2
    <3>3. CASE SetFor(name) = {}
      BY <2>5, <3>1, <3>3
    <3>4. QED
      BY <3>2, <3>3
  <2>9. ASSUME SetFor("content-type") = {} PROVE resp.headers["content-type"] = v.content_type
    <3>1. \A i \in legal : NameOf[order[i]] # "content-type"
      BY <2>5, <2>9
    <3>2. QED
      BY <2>4, <2>7, <3>1 DEF SetUpTo
  <2>10. QED
    BY <1>1, <2>6, <2>7, <2>8, <2>9 DEF ResponseRight
<1>2. CASE returned.type # "Response"
  <2>1. PICK form \in {"text", "octets", "json"} :
            resp = New(200, Written(form, returned),
                       CASE form = "json" -> JsonType [] form = "text" -> TextType
                         [] form = "octets" -> OctetType)
    BY <1>2 DEF Converted, IsText, IsOctets, Text
  <2>2. /\ resp.status = 200 /\ resp.body.form = form
        /\ resp.headers = [n \in {"content-type"} |->
                              CASE form = "json" -> JsonType [] form = "text" -> TextType
                                [] form = "octets" -> OctetType]
    BY <2>1 DEF New, Written
  <2>3. \A n : SetFor(n) = {}
    BY <1>2 DEF SetFor
  <2>4. QED
    BY <1>2, <2>2, <2>3 DEF ResponseRight
<1>3. QED
  BY <1>1, <1>2

\* render: every header of the response, and the server's name behind them.
LEMMA RenderedRight ==
    ASSUME NEW resp, NEW name
    PROVE  LET onWire == Rendered(resp, name)
               own(n) == IF n \in DOMAIN resp.headers THEN <<resp.headers[n]>> ELSE <<>>
           IN  /\ onWire.status = resp.status /\ onWire.body = resp.body
               /\ DOMAIN onWire.headers = DOMAIN resp.headers \cup
                                          (IF name = "" THEN {} ELSE {"server"})
               /\ \A n \in DOMAIN onWire.headers :
                     onWire.headers[n] =
                         IF n = "server" /\ name # "" THEN Append(own(n), name) ELSE own(n)
  BY DEF Rendered, Insert

LEMMA WireIsRight ==
    ASSUME ReplyInv, wire # None
    PROVE  \E resp : ResponseRight(resp) /\ wire = Rendered(resp, server)
<1>1. PICK resp \in Responses : wire = Rendered(resp, server)
  BY DEF ReplyInv
<1>2. CASE returned = None \/ Raises(returned)
  BY <1>1, <1>2, ErrorsRight DEF Responses
<1>3. CASE ~(returned = None \/ Raises(returned))
  BY <1>1, <1>3, ConvertedRight DEF Responses
<1>4. QED
  BY <1>2, <1>3

LEMMA ReplyInvariant == ExchangeSpec => []ReplyInv
  BY ReplyStart, ReplyStep, PTL DEF ExchangeSpec

-----------------------------------------------------------------------------
(* Theorems about the data *)

\* Every state has the shape the properties rely on: above all, the status on
\* the wire is a number of three digits, whatever number a handler gave.
THEOREM ExchangeTypeCorrect == ExchangeSpec => []ExchangeTypeOK
<1>1. ExchangeInv /\ ReplyInv => ExchangeTypeOK
  <2> SUFFICES ASSUME ExchangeInv, ReplyInv PROVE ExchangeTypeOK
    OBVIOUS
  <2>1. ASSUME wire # None PROVE wire.status \in 100..999
    <3>1. PICK resp : ResponseRight(resp) /\ wire = Rendered(resp, server)
      BY <2>1, WireIsRight
    <3>2. resp.status \in 100..999
      BY <3>1 DEF ResponseRight
    <3>3. wire.status = resp.status
      BY <3>1 DEF Rendered
    <3>4. QED
      BY <3>2, <3>3
  <2>2. QED
    BY <2>1 DEF ExchangeTypeOK, ExchangeInv, ReplyInv
<1>2. ExchangeSpec => []ExchangeInv
  BY ExchangeStart, ExchangeStep, PTL DEF ExchangeSpec
<1>3. QED
  BY <1>1, <1>2, ReplyInvariant, PTL

\* The handler gets every key of the query with the values the client meant, in
\* order: parse_query takes no escaped "&", "=" or "+" for syntax, joins the
\* values of a repeated key, and an escape at the very end counts.
THEOREM QueryAlwaysAsMeant == ExchangeSpec => []QueryAsMeant
<1>1. ReplyInv => QueryAsMeant
  <2> SUFFICES ASSUME ReplyInv, request # None
               PROVE  request.query_params = MeantBy(head.fields)
    BY DEF QueryAsMeant
  <2>1. /\ \A i \in DOMAIN head.fields : IsField(head.fields[i])
        /\ head.fields \in Seq(ToSet(head.fields))
    BY ExchangeAssumption DEF ReplyInv
  <2>2. ParseQuery(QueryOnWire(head.fields)) = MeantBy(head.fields)
    BY <2>1, QueryParsed
  <2>3. QED
    BY <2>2 DEF ReplyInv, QueryParams
<1>2. QED
  BY <1>1, ReplyInvariant, PTL

\* from_engine: the handler sees every name that has a legible value, with the
\* last one of them, for any headers of the request.
THEOREM HeadersSeenAsSent == ExchangeSpec => []HeadersAsSent
<1>1. ReplyInv => HeadersAsSent
  <2> SUFFICES ASSUME ReplyInv, request # None
               PROVE  LET legible == {i \in DOMAIN head.headers :
                                          head.headers[i].value \notin OpaqueTexts}
                      IN  /\ DOMAIN request.headers = {head.headers[i].name : i \in legible}
                          /\ \A i \in legible :
                                \/ request.headers[head.headers[i].name] = head.headers[i].value
                                \/ \E j \in legible : j > i /\ head.headers[j].name = head.headers[i].name
    BY DEF HeadersAsSent
  <2>1. head.headers \in Seq(ToSet(head.headers))
    BY ExchangeAssumption DEF ReplyInv
  <2>2. SeenUpTo(head.headers, Len(head.headers), HeadersSeen(head.headers))
    BY <2>1, HeadersSeenRight
  <2>3. DOMAIN head.headers = 1..Len(head.headers)
    BY <2>1
  <2>4. request.headers = HeadersSeen(head.headers)
    BY DEF ReplyInv
  <2>5. QED
    BY <2>2, <2>3, <2>4 DEF SeenUpTo, LegibleUpTo
<1>2. QED
  BY <1>1, ReplyInvariant, PTL

\* pyobj_to_response and render: in whatever order a dict of headers is walked
\* and however its names are spelled, a name ends with one value that was set
\* for it, and only the configured server name comes behind one.
THEOREM HeadersOnWireAsSet == ExchangeSpec => []HeadersAsSet
<1>1. ReplyInv => HeadersAsSet
  <2> SUFFICES ASSUME ReplyInv, wire # None,
                      NEW n \in DOMAIN wire.headers \cup Range(NameOf)
               PROVE  LET all  == IF n \in DOMAIN wire.headers THEN wire.headers[n] ELSE <<>>
                          last == IF n = "server" /\ server # "" THEN <<server>> ELSE <<>>
                      IN  IF SetFor(n) # {}
                          THEN \E value \in SetFor(n) : all = <<value>> \o last
                          ELSE all = last \/ (n = "content-type" /\ Len(all) = 1)
    BY DEF HeadersAsSet
  <2>1. PICK resp : ResponseRight(resp) /\ wire = Rendered(resp, server)
    BY WireIsRight
  <2>2. /\ DOMAIN wire.headers = DOMAIN resp.headers \cup
                                 (IF server = "" THEN {} ELSE {"server"})
        /\ n \in DOMAIN wire.headers =>
              wire.headers[n] =
                  LET own == IF n \in DOMAIN resp.headers THEN <<resp.headers[n]>> ELSE <<>>
                  IN  IF n = "server" /\ server # "" THEN Append(own, server) ELSE own
    BY <2>1, RenderedRight
  <2>3. IF SetFor(n) # {}
        THEN n \in DOMAIN resp.headers /\ resp.headers[n] \in SetFor(n)
        ELSE n \in DOMAIN resp.headers => n = "content-type"
    BY <2>1 DEF ResponseRight
  <2> DEFINE all == IF n \in DOMAIN wire.headers THEN wire.headers[n] ELSE <<>>
             last == IF n = "server" /\ server # "" THEN <<server>> ELSE <<>>
             h == resp.headers[n]
  <2>4. CASE n \in DOMAIN resp.headers
    <3>1. all = <<h>> \o last
      <4>1. CASE n = "server" /\ server # ""
        <5>1. all = Append(<<h>>, server) /\ last = <<server>>
          BY <2>2, <2>4, <4>1
        <5> HIDE DEF all, last, h
        <5>2. QED
          BY <5>1
      <4>2. CASE ~(n = "server" /\ server # "")
        <5>1. all = <<h>> /\ last = <<>>
          BY <2>2, <2>4, <4>2
        <5> HIDE DEF all, last, h
        <5>2. QED
          BY <5>1
      <4>3. QED
        BY <4>1, <4>2
    <3>2. CASE SetFor(n) # {}
      <4>1. h \in SetFor(n)
        BY <2>3, <3>2
      <4> HIDE DEF all, last, h
      <4>2. \E value \in SetFor(n) : all = <<value>> \o last
        BY <3>1, <4>1
      <4>3. QED
        BY <3>2, <4>2 DEF all, last
    <3>3. CASE SetFor(n) = {}
      <4>1. n = "content-type" /\ last = <<>>
        BY <2>3, <2>4, <3>3
      <4> HIDE DEF all, last, h
      <4>2. Len(all) = 1
        BY <3>1, <4>1
      <4>3. QED
        BY <3>3, <4>1, <4>2 DEF all, last
    <3>4. QED
      BY <3>2, <3>3
  <2>5. CASE n \notin DOMAIN resp.headers
    <3>1. SetFor(n) = {}
      BY <2>3, <2>5
    <3>2. all = last
      <4>1. CASE n = "server" /\ server # ""
        <5>1. all = Append(<<>>, server) /\ last = <<server>>
          BY <2>2, <2>5, <4>1
        <5> HIDE DEF all, last
        <5>2. QED
          BY <5>1
      <4>2. CASE ~(n = "server" /\ server # "")
        BY <2>2, <2>5, <4>2
      <4>3. QED
        BY <4>1, <4>2
    <3>3. QED
      BY <3>1, <3>2
  <2>6. QED
    BY <2>4, <2>5
<1>2. QED
  BY <1>1, ReplyInvariant, PTL

\* The content type on the wire tells how the body is written, unless the
\* handler set another: an exception after a partial answer is labelled JSON.
THEOREM ContentTypeIsTold == ExchangeSpec => []ContentTypeTells
<1>1. ReplyInv => ContentTypeTells
  <2> SUFFICES ASSUME ReplyInv, wire # None, SetFor("content-type") = {}
               PROVE  wire.headers["content-type"] =
                          <<IF returned # None /\ returned.type = "Response" /\ ~Raises(returned)
                            THEN returned.content_type
                            ELSE CASE wire.body.form = "json" -> JsonType
                                   [] wire.body.form = "text" -> TextType
                                   [] wire.body.form = "octets" -> OctetType>>
    BY DEF ContentTypeTells
  <2>1. PICK resp : ResponseRight(resp) /\ wire = Rendered(resp, server)
    BY WireIsRight
  <2>2. "content-type" \in DOMAIN resp.headers
    BY <2>1 DEF ResponseRight
  <2>3. wire.body = resp.body /\ wire.headers["content-type"] = <<resp.headers["content-type"]>>
    BY <2>1, <2>2, RenderedRight
  <2> DEFINE told(b) == IF returned # None /\ returned.type = "Response" /\ ~Raises(returned)
                        THEN returned.content_type
                        ELSE CASE b.form = "json" -> JsonType
                               [] b.form = "text" -> TextType
                               [] b.form = "octets" -> OctetType
  <2>4. resp.headers["content-type"] = told(resp.body)
    BY <2>1 DEF ResponseRight
  <2>5. wire.headers["content-type"] = <<told(wire.body)>>
    <3> HIDE DEF told
    <3>1. QED
      BY <2>3, <2>4
  <2>6. QED
    BY <2>5
<1>2. QED
  BY <1>1, ReplyInvariant, PTL
=============================================================================
