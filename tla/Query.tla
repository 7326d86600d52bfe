-------------------------------- MODULE Query --------------------------------
(***************************************************************************)
(* Query strings (crates/rustapi-engine/src/request.rs): parse_query and   *)
(* its percent-decoder.  The text of a query is a sequence of bytes, that  *)
(* of a decoded key or value a sequence of characters, both as numbers.    *)
(***************************************************************************)
EXTENDS SequencesExt

Percent == 37
Ampersand == 38
Plus == 43
Comma == 44
Equals == 61
Space == 32
Replacement == 65533

Hex == [b \in (48..57) \cup (65..70) \cup (97..102) |->
           CASE b \in 48..57 -> b - 48 [] b \in 65..70 -> b - 65 + 10
             [] b \in 97..102 -> b - 97 + 10]

\* An escape of two hexadecimal digits begins at position i.
Escape(s, i) ==
    /\ s[i] = Percent
    /\ i + 2 <= Len(s)
    /\ s[i + 1] \in DOMAIN Hex /\ s[i + 2] \in DOMAIN Hex

\* The loop of urldecode: position next of s is looked at next, one behind a
\* whole escape, else one byte further.
Unescaped(s) ==
    LET scan(st, i) ==
            IF i < st.next THEN st
            ELSE IF Escape(s, i)
            THEN [out |-> Append(st.out, Hex[s[i + 1]] * 16 + Hex[s[i + 2]]), next |-> i + 3]
            ELSE [out |-> Append(st.out, IF s[i] = Plus THEN Space ELSE s[i]), next |-> i + 1]
    IN  FoldLeftDomain(scan, [out |-> <<>>, next |-> 1], s).out

\* A character of two bytes begins at position i.
IsPair(bytes, i) ==
    /\ i \in 1..(Len(bytes) - 1)
    /\ bytes[i] \in 194..223 /\ bytes[i + 1] \in 128..191

\* What the byte at position i adds to the characters.
CharAt(bytes, i) ==
    CASE IsPair(bytes, i - 1) -> <<>>
      [] IsPair(bytes, i) -> <<(bytes[i] - 192) * 64 + bytes[i + 1] - 128>>
      [] bytes[i] < 128 -> <<bytes[i]>>
      [] OTHER -> <<Replacement>>

\* String::from_utf8_lossy, for characters of one or two bytes; what belongs to
\* none becomes the replacement character, byte by byte.
Lossy(bytes) == FlattenSeq([i \in DOMAIN bytes |-> CharAt(bytes, i)])

UrlDecode(s) == Lossy(Unescaped(s))

\* str::split.
Split(s, byte) ==
    LET take(parts, b) ==
            IF b = byte THEN Append(parts, <<>>)
            ELSE [parts EXCEPT ![Len(parts)] = Append(@, b)]
    IN  FoldLeft(take, << <<>> >>, s)

\* What is before the first "=" and what is behind it.
KeyAndValue(pair) ==
    LET i == SelectInSeq(pair, LAMBDA b : b = Equals)
    IN  IF i = 0 THEN [key |-> pair, value |-> <<>>]
        ELSE [key |-> SubSeq(pair, 1, i - 1), value |-> SubSeq(pair, i + 1, Len(pair))]

\* A value whose key is in the map is joined to what is there.
Entered(map, k, v) ==
    [x \in DOMAIN map \cup {k} |->
        IF x # k THEN map[x]
        ELSE IF k \in DOMAIN map THEN map[k] \o <<Comma>> \o v ELSE v]

\* Request::parse_query.
ParseQuery(qs) ==
    LET enter(map, pair) ==
            LET kv == KeyAndValue(pair)
            IN  IF pair = <<>> THEN map
                ELSE Entered(map, UrlDecode(kv.key), UrlDecode(kv.value))
    IN  FoldLeft(enter, <<>>, Split(qs, Ampersand))
=============================================================================
