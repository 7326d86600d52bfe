-------------------------------- MODULE Reply --------------------------------
(***************************************************************************)
(* From what a handler returns to the response on the wire: Response of    *)
(* the engine (response.rs), Response of the Python package and            *)
(* pyobj_to_response (rustapi-py/src/lib.rs), and render (server.rs).      *)
(*                                                                         *)
(* A body is the form it is written in and what is written.  The headers   *)
(* of the engine's Response are a map, those on the wire a sequence of     *)
(* values for each name.                                                   *)
(***************************************************************************)
EXTENDS SequencesExt

CONSTANTS NameOf,       \* NameOf[k]: the header name that the text k spells, in
                        \* lower case; a text outside its domain spells none
          IllegalTexts  \* texts that are not allowed as a header's value

Octet == 0..255

JsonType == "application/json; charset=utf-8"
TextType == "text/plain; charset=utf-8"
OctetType == "application/octet-stream"

Written(form, of) == [form |-> form, of |-> of]

\* Into a map of headers; a name that is there gets the new value.
Insert(map, n, value) == [x \in {n} \cup DOMAIN map |-> IF x = n THEN value ELSE map[x]]

-----------------------------------------------------------------------------
(* Response of the engine *)

New(status, body, type) ==
    [status |-> status, headers |-> [n \in {"content-type"} |-> type], body |-> body]

\* Seeded fault: the text is labelled as JSON.
JsonText(s) == New(200, Written("text", s), JsonType)

Text(s) == New(200, Written("text", s), TextType)

NotFound == New(404, Written("json", "not found"), JsonType)
MethodNotAllowed == New(405, Written("json", "method not allowed"), JsonType)
InternalError(why) == New(500, Written("json", why), JsonType)

\* Seeded fault: a header is filed under the name as it was written.
AsSpelled(resp, k, value) ==
    IF k \in DOMAIN NameOf /\ value \notin IllegalTexts
    THEN [resp EXCEPT !.headers = Insert(@, k, value)]
    ELSE resp

\* A name that is set already gets the new value; a malformed one is dropped.
WithHeader(resp, k, value) ==
    IF k \in DOMAIN NameOf /\ value \notin IllegalTexts
    THEN [resp EXCEPT !.headers = Insert(@, NameOf[k], value)]
    ELSE resp

-----------------------------------------------------------------------------
(* Response of the Python package; headers is a dict, a function of texts *)

PyResponse(body, status, type, headers) ==
    [type |-> "Response", body |-> body, status |-> status,
     content_type |-> type, headers |-> headers]

PyJson(data, status, headers) ==
    PyResponse(Written("json", data), status, JsonType, headers)

PyText(text, status, headers) ==
    PyResponse(Written("text", text), status, TextType, headers)

-----------------------------------------------------------------------------
(* pyobj_to_response *)

\* Seeded fault: a status that is no number of three digits is kept.
AnyStatus(n) == n

Status(n) == IF n \in 100..999 THEN n ELSE 500

\* Response::new unwraps the content type, and the release profile aborts.
Panics(v) == v.type = "Response" /\ v.content_type \in IllegalTexts

IsText(v) == v.type = "str" /\ v.utf8

\* extract::<Vec<u8>>: bytes, or any other sequence of small integers.
IsOctets(v) == v.type = "bytes" \/ (v.type = "sequence" /\ Range(v.items) \subseteq Octet)

\* What is left goes to json.dumps, which takes it or raises.
Raises(v) == v.type = "object" /\ ~v.serializable

\* The responses a Response may become: its headers are set in the order of a
\* HashMap, which is any.
FromResponse(v) ==
    LET set(resp, k) == WithHeader(resp, k, v.headers[k])
    IN  {FoldLeft(set, New(Status(v.status), v.body, v.content_type), order) :
            order \in SetToSeqs(DOMAIN v.headers)}

\* Those a value may become.
Converted(v) ==
    CASE v.type = "Response" -> FromResponse(v)
      [] IsText(v) -> {Text(v)}
      [] IsOctets(v) -> {New(200, Written("octets", v), OctetType)}
      [] OTHER -> {New(200, Written("json", v), JsonType)}

-----------------------------------------------------------------------------
(* render *)

\* The header server is added to those of the response, it replaces none.
Rendered(resp, server) ==
    LET own == [n \in DOMAIN resp.headers |-> <<resp.headers[n]>>]
        earlier == IF "server" \in DOMAIN own THEN own["server"] ELSE <<>>
    IN  [status |-> resp.status, body |-> resp.body,
         headers |-> IF server = "" THEN own
                     ELSE Insert(own, "server", Append(earlier, server))]
=============================================================================
