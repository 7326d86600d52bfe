------------------------------ MODULE MCExchange ------------------------------
(* Model values for checking Exchange. *)
EXTENDS Exchange

\* "a", "+", "%26" (an ampersand), "%3D" (an equals sign), "%c3%A9" (a character
\* of two bytes), "%fF" (no character), "%z" and "%4z" (no escapes).
PieceA == Piece(<<97>>, <<97>>)
Escaped == Piece(<<37, 50, 54>>, <<38>>)
Pieces == {PieceA, Escaped, Piece(<<43>>, <<32>>), Piece(<<37, 51, 68>>, <<61>>),
           Piece(<<37, 99, 51, 37, 65, 57>>, <<233>>), Piece(<<37, 102, 70>>, <<65533>>),
           Piece(<<37, 122>>, <<37, 122>>), Piece(<<37, 52, 122>>, <<37, 52, 122>>)}
\* "%" and "%4" mean themselves at the end of a text.
Ends == {<<>>, <<Piece(<<37>>, <<37>>)>>, <<Piece(<<37, 52>>, <<37, 52>>)>>}

Texts == {t \o e : t \in SeqOf(Pieces, 1), e \in Ends}
            \cup {<<PieceA, p>> : p \in Pieces} \cup {<<p, PieceA>> : p \in Pieces}

Field(k, v) == [key |-> k, value |-> v, bare |-> FALSE]
Bare(k) == [key |-> k, value |-> <<>>, bare |-> TRUE]

\* One field with every text as key or value; several, with keys that mean the
\* same in different spellings, without a value, or empty ("&&").
MCQueries ==
    {<<Field(<<PieceA>>, t)>> : t \in Texts}
        \cup {<<Bare(t)>> : t \in Texts}
        \cup SeqOf({Bare(<<>>), Bare(<<PieceA>>), Field(<<PieceA>>, <<Escaped>>),
                    Field(<<Piece(<<37, 54, 49>>, <<97>>)>>, <<PieceA>>)}, 2)
        \cup {<<Bare(<<PieceA>>), Bare(<<>>), Field(<<PieceA>>, <<Escaped>>)>>}

Header(n, v) == [name |-> n, value |-> v]
MCHeaders == SeqOf({Header("x-a", "1"), Header("x-a", "2"), Header("x-a", "opaque"),
                    Header("x-b", "1")}, 2)

MCHeads == [fields : MCQueries, headers : {<<>>}] \cup [fields : {<<>>}, headers : MCHeaders]

MCChunks == {<<>>, <<1>>, <<2, 3>>}

MCNameOf == [k \in {"X-A", "x-a", "Server", "Content-Type", "content-type"} |->
                CASE k \in {"X-A", "x-a"} -> "x-a" [] k = "Server" -> "server"
                  [] OTHER -> "content-type"]

NoHeaders == <<>>
\* A key alone, a name in two spellings; each value the key itself or illegal.
MCKeys == {{k} : k \in DOMAIN MCNameOf \cup {"no name"}}
              \cup {{"X-A", "x-a"}, {"Content-Type", "content-type"}}
Dicts(S) == {d \in [S -> S \cup {"illegal"}] : \A k \in S : d[k] \in {k, "illegal"}}
MCResponses ==
    {PyJson("data", status, NoHeaders) : status \in {0, 99, 100, 404, 999, 1000, 65535}}
        \cup {PyResponse(Written("octets", "b"), 200, type, NoHeaders) : type \in {"image/png", "illegal"}}
        \cup {PyText("t", 200, headers) : headers \in UNION {Dicts(S) : S \in MCKeys}}

\* A str, one that is no UTF-8, bytes, [], [1], [256], a dict and a set.
MCValues == MCResponses
    \cup {[type |-> "str", utf8 |-> TRUE], [type |-> "str", utf8 |-> FALSE], [type |-> "bytes"]}
    \cup {[type |-> "sequence", items |-> s] : s \in {<<>>, <<1>>, <<256>>}}
    \cup {[type |-> "object", serializable |-> b] : b \in BOOLEAN}
=============================================================================
