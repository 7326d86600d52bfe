------------------------------- MODULE Exchange -------------------------------
(***************************************************************************)
(* What one request carries through dispatch (server.rs): query, headers   *)
(* and body to the handler, and the handler's value back to the client.    *)
(* Dispatch has the threads and what may fail between the steps; here are  *)
(* the data.                                                               *)
(***************************************************************************)
EXTENDS Body, Query, Reply

CONSTANTS Heads,         \* the heads of requests: fields of a query, and headers
          OpaqueTexts,   \* values of request headers with bytes beyond ASCII
          Values,        \* what a handler may return
          ServerNames,   \* server_name of the configuration
          None

VARIABLES head,      \* the head the client sent
          server,    \* the server name configured
          stage,     \* "body", "handler", "answered" or "aborted"
          request,   \* the Request of Python, None before there is one
          returned,  \* history: what the handler returned, None if nothing
          wire       \* the response on the wire, None before there is one

xvars == <<bvars, head, server, stage, request, returned, wire>>

-----------------------------------------------------------------------------
(* The query of a client *)

\* A client writes a key or a value piece by piece: a piece is some bytes on the
\* wire and the characters they mean.
Piece(w, m) == [wire |-> w, means |-> m]

Plain == (0..127) \ {Percent, Ampersand, Plus, Equals}
Escapes == {<<Percent, h, l>> : h, l \in DOMAIN Hex}
Code(e) == Hex[e[2]] * 16 + Hex[e[3]]

\* What begins no character of UTF-8.
NoStart == (128..193) \cup (245..255)

\* A plain byte and an escape mean themselves, "+" a space, an escape that is no
\* character a replacement; and a broken escape means what it is.
IsPiece(p) ==
    \/ \E b \in Plain : p = Piece(<<b>>, <<b>>)
    \/ p = Piece(<<Plus>>, <<Space>>)
    \/ \E b \in Plain \ DOMAIN Hex : p = Piece(<<Percent, b>>, <<Percent, b>>)
    \/ \E b \in Plain \ DOMAIN Hex, h \in DOMAIN Hex :
          p = Piece(<<Percent, h, b>>, <<Percent, h, b>>)
    \/ \E e \in Escapes : Code(e) < 128 /\ p = Piece(e, <<Code(e)>>)
    \/ \E e \in Escapes : Code(e) \in NoStart /\ p = Piece(e, <<Replacement>>)
    \/ \E d, e \in Escapes :
          /\ Code(d) \in 194..223 /\ Code(e) \in 128..191
          /\ p = Piece(d \o e, <<(Code(d) - 192) * 64 + Code(e) - 128>>)

\* An escape that the end of the text cuts off.
IsCut(p) ==
    \/ p = Piece(<<Percent>>, <<Percent>>)
    \/ \E h \in DOMAIN Hex : p = Piece(<<Percent, h>>, <<Percent, h>>)

WellWritten(text) ==
    /\ text \in Seq(ToSet(text))
    /\ \A i \in DOMAIN text : (i = Len(text) /\ IsCut(text[i])) \/ IsPiece(text[i])

IsField(f) == WellWritten(f.key) /\ WellWritten(f.value) /\ f.bare \in BOOLEAN

WireOf(text) == FlattenSeq([i \in DOMAIN text |-> text[i].wire])
MeaningOf(text) == FlattenSeq([i \in DOMAIN text |-> text[i].means])

FieldOnWire(f) == WireOf(f.key) \o (IF f.bare THEN <<>> ELSE <<Equals>> \o WireOf(f.value))

QueryOnWire(fields) ==
    FlattenSeq([i \in DOMAIN fields |->
        (IF i = 1 THEN <<>> ELSE <<Ampersand>>) \o FieldOnWire(fields[i])])

\* What the client means: each key with its values in order, a comma between.
MeantBy(fields) ==
    LET real == {i \in DOMAIN fields : FieldOnWire(fields[i]) # <<>>}
        under(k) == {i \in real : MeaningOf(fields[i].key) = k}
        value(i) == IF fields[i].bare THEN <<>> ELSE MeaningOf(fields[i].value)
        part(k, i) == IF i \notin under(k) THEN <<>>
                      ELSE (IF \E j \in under(k) : j < i THEN <<Comma>> ELSE <<>>) \o value(i)
    IN  [k \in {MeaningOf(fields[i].key) : i \in real} |->
            FlattenSeq([i \in DOMAIN fields |-> part(k, i)])]

\* A query is a sequence of fields a client can write, the headers of a request
\* are a sequence; those of a Response are a dict: finite.
ASSUME ExchangeAssumption ==
    /\ \A h \in Heads :
          /\ h.fields \in Seq(ToSet(h.fields))
          /\ \A i \in DOMAIN h.fields : IsField(h.fields[i])
          /\ h.headers \in Seq(ToSet(h.headers))
    /\ \A v \in Values : v.type = "Response" => IsFiniteSet(DOMAIN v.headers)
    /\ None \notin Values

-----------------------------------------------------------------------------
(* The steps *)

\* Seeded fault: of a repeated header the first legible value is kept.
FirstOfEach(hs) ==
    LET insert(map, h) == IF h.value \in OpaqueTexts \/ h.name \in DOMAIN map THEN map
                          ELSE Insert(map, h.name, h.value)
    IN  FoldLeft(insert, <<>>, hs)

\* from_engine: an illegible value is left out, a repeated header overwritten.
HeadersSeen(hs) ==
    LET insert(map, h) == IF h.value \in OpaqueTexts THEN map
                          ELSE Insert(map, h.name, h.value)
    IN  FoldLeft(insert, <<>>, hs)

ExchangeInit ==
    /\ BodyInit
    /\ head \in Heads
    /\ server \in ServerNames
    /\ stage = "body"
    /\ request = None /\ returned = None /\ wire = None

\* A frame of the body, or its end.
Receive ==
    /\ stage = "body"
    /\ BodyNext
    /\ UNCHANGED <<head, server, stage, request, returned, wire>>

\* render, whose expect aborts the process when the server name is illegal.
Respond(resp) ==
    IF server \in IllegalTexts
    THEN stage' = "aborted" /\ UNCHANGED wire
    ELSE stage' = "answered" /\ wire' = Rendered(resp, server)

RefuseBody ==
    /\ stage = "body"
    /\ body \in {"refused", "broken"}
    /\ Respond(InternalError("body too large or unreadable"))
    /\ UNCHANGED <<bvars, head, server, request, returned>>

\* The query is parsed before the route is looked up.
Unrouted ==
    /\ stage = "body"
    /\ body = "whole"
    /\ \E resp \in {NotFound, MethodNotAllowed} : Respond(resp)
    /\ UNCHANGED <<bvars, head, server, request, returned>>

\* Seeded fault: the text of the query is decoded before it is taken apart.
DecodedFirst == ParseQuery(UrlDecode(QueryOnWire(head.fields)))

QueryParams == ParseQuery(QueryOnWire(head.fields))

\* A Python handler is found and called.
CallHandler ==
    /\ stage = "body"
    /\ body = "whole"
    /\ stage' = "handler"
    /\ request' = [query_params |-> QueryParams, body |-> collected,
                   headers |-> HeadersSeen(head.headers)]
    /\ UNCHANGED <<bvars, head, server, returned, wire>>

\* The handler, or the conversion of its value, raises.
HandlerRaises ==
    /\ stage = "handler"
    /\ returned' \in {None} \cup {v \in Values : Raises(v)}
    /\ Respond(InternalError("the exception"))
    /\ UNCHANGED <<bvars, head, server, request>>

HandlerReturns(v) ==
    /\ stage = "handler"
    /\ returned' = v
    /\ \/ /\ Panics(v)
          /\ stage' = "aborted"
          /\ UNCHANGED wire
       \/ /\ ~Panics(v) /\ ~Raises(v)
          /\ \E resp \in Converted(v) : Respond(resp)
    /\ UNCHANGED <<bvars, head, server, request>>

Over == stage \in {"answered", "aborted"} /\ UNCHANGED xvars

ExchangeNext ==
    \/ Receive \/ RefuseBody \/ Unrouted \/ CallHandler \/ HandlerRaises
    \/ \E v \in Values : HandlerReturns(v)
    \/ Over

ExchangeSpec == ExchangeInit /\ [][ExchangeNext]_xvars

-----------------------------------------------------------------------------
(* Properties *)

ExchangeTypeOK ==
    /\ BodyTypeOK
    /\ stage \in {"body", "handler", "answered", "aborted"}
    /\ request # None => DOMAIN request = {"query_params", "headers", "body"}
    /\ wire # None => wire.status \in 100..999

\* The handler gets the body of its request as it was sent, and no handler gets
\* one above the maximum.
BodyAsSent == request # None => request.body = sent /\ Len(sent) <= MaxBody

\* However a body is cut into frames, it is taken over whole or refused, and
\* refused exactly when it is longer than the maximum.
BodyIsWhole == CollectedWhole /\ BodyAsSent

\* The handler gets every key of the query with the values the client meant, in
\* order, however keys and values were escaped, empty or malformed: no escaped
\* "&", "=" or "+" is taken for syntax, and an escape at the very end counts.
QueryAsMeant ==
    request # None => request.query_params = MeantBy(head.fields)

\* A header the handler sees is the last legible one of its name, and a name is
\* missing only if all its values are illegible.
HeadersAsSent ==
    request # None =>
        LET legible == {i \in DOMAIN head.headers : head.headers[i].value \notin OpaqueTexts}
        IN  /\ DOMAIN request.headers = {head.headers[i].name : i \in legible}
            /\ \A i \in legible :
                  \/ request.headers[head.headers[i].name] = head.headers[i].value
                  \/ \E j \in legible : j > i /\ head.headers[j].name = head.headers[i].name

\* The legal values the handler's Response has for a name, in any spelling.
SetFor(n) ==
    IF returned = None \/ returned.type # "Response" THEN {}
    ELSE {returned.headers[k] : k \in {k \in DOMAIN returned.headers \cap DOMAIN NameOf :
                                          NameOf[k] = n}} \ IllegalTexts

\* On the wire a name has one value, one that the handler set for it; only the
\* server's name comes after it, and only the content type has a default.  Where
\* the handler set two, in two spellings or beside the content type, the other
\* is lost: with_header inserts, though its doc says "Append a header"
\* (response.rs:74; see the README).
HeadersAsSet ==
    wire # None =>
        \A n \in DOMAIN wire.headers \cup Range(NameOf) :
            LET all  == IF n \in DOMAIN wire.headers THEN wire.headers[n] ELSE <<>>
                last == IF n = "server" /\ server # "" THEN <<server>> ELSE <<>>
            IN  IF SetFor(n) # {}
                THEN \E value \in SetFor(n) : all = <<value>> \o last
                ELSE all = last \/ (n = "content-type" /\ Len(all) = 1)

\* The content type tells how the body is written, unless the handler chose
\* another: errors are JSON whatever the handler was about to return.
ContentTypeTells ==
    wire # None /\ SetFor("content-type") = {} =>
        wire.headers["content-type"] =
            <<IF returned # None /\ returned.type = "Response" /\ ~Raises(returned)
              THEN returned.content_type
              ELSE CASE wire.body.form = "json" -> JsonType
                     [] wire.body.form = "text" -> TextType
                     [] wire.body.form = "octets" -> OctetType>>

\* crates/rustapi-py/src/lib.rs:303: "`bytes` -> application/octet-stream", with
\* "Anything else -> `json.dumps` is attempted", of values that are no Response.
OctetsAreBytes ==
    wire # None /\ wire.body.form = "octets" =>
        returned.type \in {"bytes", "Response"}
=============================================================================
