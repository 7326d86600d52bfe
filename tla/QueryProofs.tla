------------------------------ MODULE QueryProofs ------------------------------
(***************************************************************************)
(* What parse_query makes of the query of a client, for any fields: the    *)
(* decoder reads each piece of a text as it is meant, "&" and "=" separate *)
(* only where the client put them, and values are joined in their order.   *)
(***************************************************************************)
EXTENDS Exchange, FoldProofs, SequenceTheorems, TLAPS

-----------------------------------------------------------------------------
(* The decoder, unrolled *)

\* The body of the loop in Unescaped.
Scan(s, st, i) ==
    IF i < st.next THEN st
    ELSE IF Escape(s, i)
    THEN [out |-> Append(st.out, Hex[s[i + 1]] * 16 + Hex[s[i + 2]]), next |-> i + 3]
    ELSE [out |-> Append(st.out, IF s[i] = Plus THEN Space ELSE s[i]), next |-> i + 1]

\* a[k] is what the loop has after k positions of s.
Scans(a, s) ==
    /\ a[0] = [out |-> <<>>, next |-> 1]
    /\ \A k \in 0..(Len(s) - 1) : a[k + 1] = Scan(s, a[k], k + 1)
    /\ Unescaped(s) = a[Len(s)].out

LEMMA HexIsNat == DOMAIN Hex \in SUBSET Nat /\ \A b \in DOMAIN Hex : Hex[b] \in 0..15
<1>1. DOMAIN Hex = (48..57) \cup (65..70) \cup (97..102)
  BY DEF Hex
<1>2. ASSUME NEW b \in DOMAIN Hex PROVE Hex[b] \in 0..15
  <2>1. Hex[b] = CASE b \in 48..57 -> b - 48 [] b \in 65..70 -> b - 65 + 10
                  [] b \in 97..102 -> b - 97 + 10
    BY <1>1 DEF Hex
  <2>2. CASE b \in 48..57
    BY <2>1, <2>2
  <2>3. CASE b \in 65..70
    BY <2>1, <2>3
  <2>4. CASE b \in 97..102
    BY <2>1, <2>4
  <2>5. QED
    BY <1>1, <2>2, <2>3, <2>4
<1>3. QED
  BY <1>1, <1>2

LEMMA ScanTyped ==
    ASSUME NEW s, s \in Seq(Nat), NEW i \in 1..Len(s),
           NEW st \in [out : Seq(Nat), next : Nat]
    PROVE  Scan(s, st, i) \in [out : Seq(Nat), next : Nat]
<1>1. i \in Nat /\ s[i] \in Nat
  OBVIOUS
<1>2. ASSUME NEW x \in Nat, NEW m \in Nat
      PROVE  [out |-> Append(st.out, x), next |-> m] \in [out : Seq(Nat), next : Nat]
  OBVIOUS
<1>3. ASSUME Escape(s, i) PROVE Hex[s[i + 1]] * 16 + Hex[s[i + 2]] \in Nat
  <2>1. Hex[s[i + 1]] \in 0..15 /\ Hex[s[i + 2]] \in 0..15
    BY <1>3, HexIsNat DEF Escape
  <2> DEFINE h == Hex[s[i + 1]]
             l == Hex[s[i + 2]]
  <2> HIDE DEF h, l
  <2>2. h \in 0..15 /\ l \in 0..15
    BY <2>1 DEF h, l
  <2>3. h * 16 + l \in Nat
    BY <2>2
  <2>4. QED
    BY <2>3 DEF h, l
<1>4. (IF s[i] = Plus THEN Space ELSE s[i]) \in Nat
  BY <1>1 DEF Space
<1>5. i + 1 \in Nat /\ i + 3 \in Nat
  BY <1>1
<1>6. QED
  BY <1>2, <1>3, <1>4, <1>5 DEF Scan

LEMMA UnescapedUnrolled ==
    ASSUME NEW s, s \in Seq(Nat)
    PROVE  \E a : Scans(a, s)
<1> DEFINE n == Len(s)
           base == [out |-> <<>>, next |-> 1]
           index == [i \in DOMAIN s |-> i]
           Eq(g) == g = [t \in SUBSET (1..n) |->
                            IF t = {} THEN base
                            ELSE Scan(s, g[t \ {Max(t)}], index[Max(t)])]
           g == CHOOSE g : Eq(g)
           A == [out : Seq(Nat), next : Nat]
           step == [p \in (1..n) \X A |-> Scan(s, p[2], p[1])]
<1>1. n \in Nat /\ DOMAIN s = 1..n /\ DOMAIN index = 1..n
  OBVIOUS
<1>2. Unescaped(s) = g[1..n].out
  <2> HIDE DEF index
  <2>1. QED
    BY <1>1 DEF Unescaped, FoldLeftDomain, FoldLeft, MapThenFoldSet, Scan, index
<1>3. base \in A
  OBVIOUS
<1>4. step \in [(1..n) \X A -> A]
  BY ScanTyped
<1>5. \E f : Eq(f)
  <2> HIDE DEF A, step, base
  <2>1. PICK f \in [SUBSET (1..n) -> A] : IsFold(f, n, base, step)
    BY <1>1, <1>3, <1>4, FoldExists
  <2>2. ASSUME NEW t \in SUBSET (1..n), t # {}
        PROVE  step[<<Max(t), f[t \ {Max(t)}]>>] = Scan(s, f[t \ {Max(t)}], index[Max(t)])
    <3>1. Max(t) \in 1..n
      BY <1>1, <2>2, LastIndex
    <3>2. f[t \ {Max(t)}] \in A
      BY <2>1
    <3>3. index[Max(t)] = Max(t)
      BY <1>1, <3>1
    <3> HIDE DEF n
    <3>4. QED
      BY <3>1, <3>2, <3>3 DEF step
  <2>3. Eq(f)
    <3> HIDE DEF n, index
    <3>1. QED
      BY <2>1, <2>2 DEF IsFold
  <2>4. QED
    BY <2>3
<1>6. Eq(g)
  BY <1>5
<1> HIDE DEF g, base
<1>7. g[1..0] = base
  <2>1. 1..0 = {} /\ 1..0 \in SUBSET (1..n)
    OBVIOUS
  <2>2. QED
    BY <1>6, <2>1
<1>8. ASSUME NEW k \in 0..(n - 1) PROVE g[1..(k + 1)] = Scan(s, g[1..k], k + 1)
  <2>1. k \in Nat /\ k + 1 \in 1..(k + 1) /\ 1..(k + 1) \in SUBSET (1..n) /\ k + 1 \in 1..n
    BY <1>1
  <2>2. Max(1..(k + 1)) = k + 1 /\ (1..(k + 1)) \ {k + 1} = 1..k
    BY <2>1, LastOfAll
  <2>3. index[k + 1] = k + 1
    BY <1>1, <2>1
  <2> HIDE DEF index, n
  <2>4. QED
    BY <1>6, <2>1, <2>2, <2>3
<1> DEFINE a == [k \in 0..n |-> g[1..k]]
<1>9. a[0] = [out |-> <<>>, next |-> 1]
  BY <1>1, <1>7 DEF base
<1>10. Unescaped(s) = a[n].out
  BY <1>1, <1>2 DEF g
<1>11. ASSUME NEW k \in 0..(n - 1) PROVE a[k + 1] = Scan(s, a[k], k + 1)
  <2>1. k \in 0..n /\ k + 1 \in 0..n
    BY <1>1
  <2>2. QED
    BY <1>8, <2>1
<1> HIDE DEF a, n
<1>12. Scans(a, s)
  BY <1>9, <1>10, <1>11 DEF Scans, n
<1>13. QED
  BY <1>12

-----------------------------------------------------------------------------
(* The decoder reads a text piece by piece *)

\* Bytes that are no separators.
Clean == Nat \ {Ampersand, Equals}

\* What the decoder makes of the bytes of a piece, wherever they are.
IsRead(w, r) ==
    \/ \E b \in Clean \ {Percent} : w = <<b>> /\ r = <<IF b = Plus THEN Space ELSE b>>
    \/ \E b \in Plain \ DOMAIN Hex : w = <<Percent, b>> /\ r = w
    \/ \E h \in DOMAIN Hex, b \in Plain \ DOMAIN Hex : w = <<Percent, h, b>> /\ r = w
    \/ \E e \in Escapes : w = e /\ r = <<Code(e)>>
    \/ \E d, e \in Escapes : w = d \o e /\ r = <<Code(d), Code(e)>>

\* ... and of an escape that is cut off.
IsReadAtEnd(w, r) ==
    /\ r = w
    /\ w = <<Percent>> \/ \E h \in DOMAIN Hex : w = <<Percent, h>>

\* The loop has read the first b positions, and o came out.
At(o, b) == [out |-> o, next |-> b + 1]

LEMMA Tuples ==
    ASSUME NEW x \in Nat, NEW y \in Nat, NEW z \in Nat
    PROVE  <<x>> \o <<y>> = <<x, y>> /\ <<x, y>> \o <<z>> = <<x, y, z>>
<1> DEFINE a == <<x>> \o <<y>>
           b == <<x, y>>
           c == <<x, y>> \o <<z>>
           d == <<x, y, z>>
<1>1. a \in Seq(Nat) /\ Len(a) = 2 /\ a[1] = x /\ a[2] = y
  OBVIOUS
<1>2. b \in Seq(Nat) /\ Len(b) = 2 /\ b[1] = x /\ b[2] = y
  OBVIOUS
<1>3. c \in Seq(Nat) /\ Len(c) = 3 /\ c[1] = x /\ c[2] = y /\ c[3] = z
  OBVIOUS
<1>4. d \in Seq(Nat) /\ Len(d) = 3 /\ d[1] = x /\ d[2] = y /\ d[3] = z
  OBVIOUS
<1> HIDE DEF a, b, c, d
<1>5. a = b
  <2>1. \A i \in 1..Len(a) : a[i] = b[i]
    <3>1. \A i \in 1..Len(a) : i = 1 \/ i = 2
      BY <1>1
    <3>2. QED
      BY <1>1, <1>2, <3>1
  <2>2. QED
    BY <1>1, <1>2, <2>1, SeqEqual
<1>6. c = d
  <2>1. \A i \in 1..Len(c) : c[i] = d[i]
    <3>1. \A i \in 1..Len(c) : i = 1 \/ i = 2 \/ i = 3
      BY <1>3
    <3>2. QED
      BY <1>3, <1>4, <3>1
  <2>2. QED
    BY <1>3, <1>4, <2>1, SeqEqual
<1>7. QED
  BY <1>5, <1>6 DEF a, b, c, d

LEMMA Appended ==
    ASSUME NEW o \in Seq(Nat), NEW x \in Nat, NEW y \in Nat, NEW z \in Nat
    PROVE  /\ Append(o, x) \in Seq(Nat)
           /\ Append(o, x) = o \o <<x>>
           /\ Append(Append(o, x), y) = o \o <<x, y>>
           /\ Append(Append(Append(o, x), y), z) = o \o <<x, y, z>>
<1>1. ASSUME NEW u \in Seq(Nat), NEW v \in Nat
      PROVE  Append(u, v) \in Seq(Nat) /\ Append(u, v) = u \o <<v>>
  BY AppendProperties, AppendIsConcat
<1>2. <<x>> \in Seq(Nat) /\ <<y>> \in Seq(Nat) /\ <<z>> \in Seq(Nat) /\ <<x, y>> \in Seq(Nat)
  OBVIOUS
<1>3. <<x>> \o <<y>> = <<x, y>> /\ <<x, y>> \o <<z>> = <<x, y, z>>
  BY Tuples
<1>4. (o \o <<x>>) \o <<y>> = o \o (<<x>> \o <<y>>)
  BY <1>2, ConcatAssociative
<1>5. (o \o <<x, y>>) \o <<z>> = o \o (<<x, y>> \o <<z>>)
  BY <1>2, ConcatAssociative
<1>6. Append(o, x) = o \o <<x>> /\ Append(o, x) \in Seq(Nat)
  BY <1>1
<1>7. Append(Append(o, x), y) = o \o <<x, y>> /\ Append(Append(o, x), y) \in Seq(Nat)
  <2>1. /\ Append(Append(o, x), y) = Append(o, x) \o <<y>>
        /\ Append(Append(o, x), y) \in Seq(Nat)
    BY <1>1, <1>6
  <2>2. QED
    BY <1>3, <1>4, <1>6, <2>1, Zenon
<1>8. Append(Append(Append(o, x), y), z) = o \o <<x, y, z>>
  <2>1. Append(Append(Append(o, x), y), z) = Append(Append(o, x), y) \o <<z>>
    BY <1>1, <1>7
  <2>2. QED
    BY <1>3, <1>5, <1>7, <2>1, Zenon
<1>9. QED
  BY <1>6, <1>7, <1>8

LEMMA ScansByte ==
    ASSUME NEW s, NEW a, Scans(a, s), NEW o, NEW b \in Nat, b + 1 <= Len(s), Len(s) \in Nat,
           a[b] = At(o, b), ~Escape(s, b + 1)
    PROVE  a[b + 1] = At(Append(o, IF s[b + 1] = Plus THEN Space ELSE s[b + 1]), b + 1)
<1>1. b \in 0..(Len(s) - 1)
  OBVIOUS
<1>2. a[b + 1] = Scan(s, a[b], b + 1)
  BY <1>1 DEF Scans
<1>3. a[b].next = b + 1 /\ a[b].out = o
  BY DEF At
<1>4. ~(b + 1 < a[b].next)
  BY <1>3
<1>5. QED
  BY <1>2, <1>3, <1>4 DEF Scan, At

LEMMA ScansEscape ==
    ASSUME NEW s, NEW a, Scans(a, s), NEW o, NEW b \in Nat, b + 3 <= Len(s), Len(s) \in Nat,
           a[b] = At(o, b), Escape(s, b + 1)
    PROVE  a[b + 3] = At(Append(o, Hex[s[b + 2]] * 16 + Hex[s[b + 3]]), b + 3)
<1> DEFINE x == Hex[s[b + 2]] * 16 + Hex[s[b + 3]]
<1>1. b \in 0..(Len(s) - 1) /\ b + 1 \in 0..(Len(s) - 1) /\ b + 2 \in 0..(Len(s) - 1)
  OBVIOUS
<1>2. (b + 1) + 1 = b + 2 /\ (b + 1) + 2 = b + 3 /\ (b + 2) + 1 = b + 3 /\ (b + 1) + 3 = (b + 3) + 1
  OBVIOUS
<1>3. a[b].next = b + 1 /\ a[b].out = o /\ ~(b + 1 < b + 1)
  BY DEF At
<1>4. a[b + 1] = At(Append(o, x), b + 3)
  <2>1. a[b + 1] = Scan(s, a[b], b + 1)
    BY <1>1 DEF Scans
  <2>2. Scan(s, a[b], b + 1) =
          [out |-> Append(o, Hex[s[(b + 1) + 1]] * 16 + Hex[s[(b + 1) + 2]]), next |-> (b + 1) + 3]
    BY <1>3 DEF Scan
  <2>3. QED
    BY <1>2, <2>1, <2>2 DEF At
<1>5. a[b + 2] = a[b + 1]
  <2>1. a[(b + 1) + 1] = Scan(s, a[b + 1], (b + 1) + 1)
    BY <1>1 DEF Scans
  <2>2. a[b + 1].next = b + 4 /\ (b + 1) + 1 < b + 4
    BY <1>4 DEF At
  <2>3. Scan(s, a[b + 1], (b + 1) + 1) = a[b + 1]
    BY <2>2 DEF Scan
  <2>4. QED
    BY <1>2, <2>1, <2>3
<1>6. a[b + 3] = a[b + 1]
  <2>1. a[(b + 2) + 1] = Scan(s, a[b + 2], (b + 2) + 1)
    BY <1>1 DEF Scans
  <2>2. a[b + 2].next = b + 4 /\ (b + 2) + 1 < b + 4
    BY <1>4, <1>5 DEF At
  <2>3. Scan(s, a[b + 2], (b + 2) + 1) = a[b + 2]
    BY <2>2 DEF Scan
  <2>4. QED
    BY <1>2, <1>5, <2>1, <2>3
<1>7. QED
  BY <1>4, <1>6

\* Where the bytes of a piece are, the loop does with them what IsRead says.
Holds(s, b, w) ==
    /\ b + Len(w) <= Len(s)
    /\ \A m \in 1..Len(w) : s[b + m] = w[m]

LEMMA CleanBytes ==
    /\ Percent \in Clean /\ Plus \in Clean
    /\ Plain \in SUBSET Clean /\ DOMAIN Hex \in SUBSET Clean
  BY DEF Percent, Plus, Plain, Hex, Clean, Ampersand, Equals

LEMMA NoHexDigits ==
    /\ Percent \in Nat \ DOMAIN Hex /\ Plus \in Nat \ DOMAIN Hex /\ Space \in Nat
    /\ Percent # Plus /\ Plain \in SUBSET Nat /\ Percent \notin Plain /\ Plus \notin Plain
<1>1. DOMAIN Hex = (48..57) \cup (65..70) \cup (97..102)
  BY DEF Hex
<1>2. QED
  BY <1>1 DEF Percent, Plus, Space, Plain

LEMMA ScansPlain ==
    ASSUME NEW s, NEW a, Scans(a, s), NEW o, NEW b \in Nat, b + 1 <= Len(s), Len(s) \in Nat,
           a[b] = At(o, b), s[b + 1] # Plus, ~Escape(s, b + 1)
    PROVE  a[b + 1] = At(Append(o, s[b + 1]), b + 1)
<1>1. a[b + 1] = At(Append(o, IF s[b + 1] = Plus THEN Space ELSE s[b + 1]), b + 1)
  BY ScansByte
<1>2. QED
  BY <1>1

LEMMA EscapeIs ==
    ASSUME NEW e \in Escapes
    PROVE  /\ Len(e) = 3 /\ e[1] = Percent /\ e[2] \in DOMAIN Hex /\ e[3] \in DOMAIN Hex
           /\ e \in Seq(Nat) /\ e \in Seq(Clean)
           /\ Code(e) \in Nat /\ Code(e) = Hex[e[2]] * 16 + Hex[e[3]]
<1>1. PICK h \in DOMAIN Hex, l \in DOMAIN Hex : e = <<Percent, h, l>>
  BY DEF Escapes
<1>2. h \in Nat /\ l \in Nat /\ Percent \in Nat
  BY HexIsNat, NoHexDigits
<1>3. /\ Len(e) = 3 /\ e[1] = Percent /\ e[2] = h /\ e[3] = l
      /\ e \in Seq(Nat) /\ e \in Seq(Clean)
  BY <1>1, <1>2, CleanBytes
<1>4. Code(e) = Hex[h] * 16 + Hex[l]
  BY <1>3 DEF Code
<1>5. Hex[h] \in 0..15 /\ Hex[l] \in 0..15
  BY HexIsNat
<1> DEFINE x == Hex[h]
           y == Hex[l]
<1> HIDE DEF x, y
<1>6. x \in Nat /\ y \in Nat
  BY <1>5 DEF x, y
<1>7. x * 16 + y \in Nat
  BY <1>6
<1>8. QED
  BY <1>3, <1>4, <1>7 DEF x, y

LEMMA TwoEscapes ==
    ASSUME NEW d \in Escapes, NEW e \in Escapes
    PROVE  /\ Len(d \o e) = 6 /\ d \o e \in Seq(Nat)
           /\ \A m \in 1..3 : (d \o e)[m] = d[m] /\ (d \o e)[3 + m] = e[m]
<1>1. Len(d) = 3 /\ d \in Seq(Nat) /\ Len(e) = 3 /\ e \in Seq(Nat)
  BY EscapeIs
<1>2. /\ d \o e \in Seq(Nat)
      /\ Len(d \o e) = Len(d) + Len(e)
      /\ \A i \in 1..(Len(d) + Len(e)) :
            (d \o e)[i] = IF i <= Len(d) THEN d[i] ELSE e[i - Len(d)]
  BY <1>1, ConcatProperties, Zenon
<1>3. ASSUME NEW m \in 1..3 PROVE (d \o e)[m] = d[m] /\ (d \o e)[3 + m] = e[m]
  <2> DEFINE f == d \o e
  <2> HIDE DEF f
  <2>1. \A i \in 1..6 : f[i] = IF i <= 3 THEN d[i] ELSE e[i - 3]
    BY <1>1, <1>2 DEF f
  <2>2. m \in 1..6 /\ m <= 3 /\ 3 + m \in 1..6 /\ ~(3 + m <= 3) /\ (3 + m) - 3 = m
    OBVIOUS
  <2>3. f[m] = d[m] /\ f[3 + m] = e[m]
    BY <2>1, <2>2
  <2>4. QED
    BY <2>3 DEF f
<1>4. QED
  BY <1>1, <1>2, <1>3

LEMMA ScansOne ==
    ASSUME NEW s, NEW a, Scans(a, s), Len(s) \in Nat, NEW o, NEW b \in Nat,
           a[b] = At(o, b), NEW e \in Escapes, Holds(s, b, e)
    PROVE  a[b + 3] = At(Append(o, Code(e)), b + 3)
<1>1. /\ Len(e) = 3 /\ e[1] = Percent /\ e[2] \in DOMAIN Hex /\ e[3] \in DOMAIN Hex
      /\ Code(e) = Hex[e[2]] * 16 + Hex[e[3]]
  BY EscapeIs
<1>2. b + 3 <= Len(s) /\ s[b + 1] = e[1] /\ s[b + 2] = e[2] /\ s[b + 3] = e[3]
  BY <1>1 DEF Holds
<1>3. (b + 1) + 1 = b + 2 /\ (b + 1) + 2 = b + 3
  OBVIOUS
<1>4. Escape(s, b + 1)
  BY <1>1, <1>2, <1>3 DEF Escape
<1>5. QED
  BY <1>1, <1>2, <1>4, ScansEscape

LEMMA ScansPiece ==
    ASSUME NEW s, NEW a, Scans(a, s), Len(s) \in Nat, NEW o \in Seq(Nat), NEW b \in Nat,
           a[b] = At(o, b), NEW w, NEW r, IsRead(w, r), Holds(s, b, w)
    PROVE  a[b + Len(w)] = At(o \o r, b + Len(w))
<1>1. CASE \E c \in Clean \ {Percent} : w = <<c>> /\ r = <<IF c = Plus THEN Space ELSE c>>
  <2>1. PICK c \in Clean \ {Percent} : w = <<c>> /\ r = <<IF c = Plus THEN Space ELSE c>>
    BY <1>1
  <2>2. Len(w) = 1 /\ w[1] = c
    BY <2>1
  <2>3. s[b + 1] = c /\ b + 1 <= Len(s)
    BY <2>2 DEF Holds
  <2> DEFINE x == IF c = Plus THEN Space ELSE c
  <2>4. x \in Nat
    BY NoHexDigits DEF Clean
  <2>5. ~Escape(s, b + 1)
    BY <2>3 DEF Escape
  <2>6. a[b + 1] = At(Append(o, x), b + 1)
    BY <2>3, <2>5, ScansByte
  <2> HIDE DEF x
  <2>7. Append(o, x) = o \o <<x>>
    BY <2>4, Appended
  <2>8. QED
    BY <2>1, <2>2, <2>6, <2>7 DEF x
<1>2. CASE \E c \in Plain \ DOMAIN Hex : w = <<Percent, c>> /\ r = w
  <2>1. PICK c \in Plain \ DOMAIN Hex : w = <<Percent, c>> /\ r = w
    BY <1>2
  <2>2. Len(w) = 2 /\ w[1] = Percent /\ w[2] = c
    BY <2>1
  <2>3. s[b + 1] = Percent /\ s[b + 2] = c /\ b + 2 <= Len(s)
    BY <2>2 DEF Holds
  <2>4. (b + 1) + 1 = b + 2 /\ b + 1 \in Nat /\ b + 1 <= Len(s)
    BY <2>3
  <2>5. c \in Nat /\ c # Percent /\ c # Plus /\ Percent # Plus /\ Percent \in Nat
    BY NoHexDigits
  <2>6. ~Escape(s, b + 1) /\ ~Escape(s, b + 2)
    BY <2>3, <2>4, <2>5 DEF Escape
  <2>7. a[b + 1] = At(Append(o, Percent), b + 1)
    BY <2>3, <2>4, <2>5, <2>6, ScansPlain
  <2> DEFINE o1 == Append(o, Percent)
             b1 == b + 1
  <2> HIDE DEF o1, b1
  <2>8. a[b1 + 1] = At(Append(o1, s[b1 + 1]), b1 + 1)
    <3>1. /\ a[b1] = At(o1, b1) /\ b1 \in Nat /\ b1 + 1 <= Len(s)
          /\ s[b1 + 1] # Plus /\ ~Escape(s, b1 + 1)
      BY <2>3, <2>4, <2>5, <2>6, <2>7 DEF o1, b1
    <3>2. QED
      BY <3>1, ScansPlain
  <2>9. a[b + 2] = At(Append(Append(o, Percent), c), b + 2)
    BY <2>3, <2>4, <2>8 DEF o1, b1
  <2>10. Append(Append(o, Percent), c) = o \o <<Percent, c>>
    BY <2>5, Appended
  <2>11. QED
    BY <2>1, <2>2, <2>9, <2>10
<1>3. CASE \E h \in DOMAIN Hex, c \in Plain \ DOMAIN Hex : w = <<Percent, h, c>> /\ r = w
  <2>1. PICK h \in DOMAIN Hex, c \in Plain \ DOMAIN Hex : w = <<Percent, h, c>> /\ r = w
    BY <1>3
  <2>2. Len(w) = 3 /\ w[1] = Percent /\ w[2] = h /\ w[3] = c
    BY <2>1
  <2>3. s[b + 1] = Percent /\ s[b + 2] = h /\ s[b + 3] = c /\ b + 3 <= Len(s)
    BY <2>2 DEF Holds
  <2>4. /\ (b + 1) + 1 = b + 2 /\ (b + 1) + 2 = b + 3 /\ (b + 2) + 1 = b + 3
        /\ b + 1 \in Nat /\ b + 2 \in Nat /\ b + 1 <= Len(s) /\ b + 2 <= Len(s)
    BY <2>3
  <2>5. /\ c \in Nat /\ c # Percent /\ c # Plus /\ Percent # Plus /\ Percent \in Nat
        /\ h \in Nat /\ h # Percent /\ h # Plus
    BY NoHexDigits, HexIsNat
  <2>6. ~Escape(s, b + 1) /\ ~Escape(s, b + 2) /\ ~Escape(s, b + 3)
    BY <2>3, <2>4, <2>5 DEF Escape
  <2> DEFINE b1 == b + 1
             b2 == b + 2
             o1 == Append(o, Percent)
             o2 == Append(o1, h)
  <2>7. a[b1] = At(o1, b1)
    BY <2>3, <2>4, <2>5, <2>6, ScansPlain
  <2>8. a[b2] = At(o2, b2)
    <3> HIDE DEF b1, o1
    <3>1. /\ b1 \in Nat /\ b1 + 1 <= Len(s)
          /\ s[b1 + 1] # Plus /\ ~Escape(s, b1 + 1)
      BY <2>3, <2>4, <2>5, <2>6 DEF b1
    <3>2. a[b1 + 1] = At(Append(o1, s[b1 + 1]), b1 + 1)
      BY <2>7, <3>1, ScansPlain
    <3>3. b1 + 1 = b2 /\ s[b1 + 1] = h
      BY <2>3, <2>4 DEF b1
    <3>4. QED
      BY <3>2, <3>3
  <2>9. a[b + 3] = At(Append(o2, c), b + 3)
    <3> HIDE DEF b2, o2
    <3>1. /\ b2 \in Nat /\ b2 + 1 <= Len(s)
          /\ s[b2 + 1] # Plus /\ ~Escape(s, b2 + 1)
      BY <2>3, <2>4, <2>5, <2>6 DEF b2
    <3>2. a[b2 + 1] = At(Append(o2, s[b2 + 1]), b2 + 1)
      BY <2>8, <3>1, ScansPlain
    <3>3. b2 + 1 = b + 3 /\ s[b2 + 1] = c
      BY <2>3, <2>4 DEF b2
    <3>4. QED
      BY <3>2, <3>3
  <2>10. Append(o2, c) = o \o <<Percent, h, c>>
    BY <2>5, Appended
  <2> HIDE DEF o2
  <2>11. QED
    BY <2>1, <2>2, <2>9, <2>10
<1>4. CASE \E e \in Escapes : w = e /\ r = <<Code(e)>>
  <2>1. PICK e \in Escapes : w = e /\ r = <<Code(e)>>
    BY <1>4
  <2>2. Len(e) = 3 /\ Code(e) \in Nat
    BY EscapeIs
  <2>3. a[b + 3] = At(Append(o, Code(e)), b + 3)
    BY <2>1, ScansOne
  <2> DEFINE x == Code(e)
  <2> HIDE DEF x
  <2>4. Append(o, x) = o \o <<x>>
    BY <2>2, Appended DEF x
  <2>5. QED
    BY <2>1, <2>2, <2>3, <2>4 DEF x
<1>5. CASE \E d, e \in Escapes : w = d \o e /\ r = <<Code(d), Code(e)>>
  <2>1. PICK d \in Escapes, e \in Escapes : w = d \o e /\ r = <<Code(d), Code(e)>>
    BY <1>5
  <2>2. /\ Len(d) = 3 /\ Code(d) \in Nat /\ d \in Seq(Nat)
        /\ Len(e) = 3 /\ Code(e) \in Nat /\ e \in Seq(Nat)
    BY EscapeIs
  <2>3. /\ Len(w) = 6 /\ \A m \in 1..3 : w[m] = d[m]
        /\ \A m \in 1..3 : w[3 + m] = e[m]
    BY <2>1, TwoEscapes
  <2>4. Holds(s, b, d) /\ Holds(s, b + 3, e)
    <3>1. b + 6 <= Len(s) /\ \A m \in 1..6 : s[b + m] = w[m]
      BY <2>3 DEF Holds
    <3>2. ASSUME NEW m \in 1..3 PROVE s[b + m] = d[m] /\ s[(b + 3) + m] = e[m]
      <4>1. 3 + m \in 1..6 /\ m \in 1..6 /\ b + (3 + m) = (b + 3) + m
        OBVIOUS
      <4>2. QED
        BY <2>3, <3>1, <4>1
    <3>3. b + 3 <= Len(s) /\ (b + 3) + 3 <= Len(s)
      BY <3>1
    <3>4. QED
      BY <2>2, <3>2, <3>3 DEF Holds
  <2> DEFINE x == Code(d)
             y == Code(e)
             b3 == b + 3
             o1 == Append(o, x)
  <2>5. a[b3] = At(o1, b3)
    BY <2>4, ScansOne
  <2>6. a[b3 + 3] = At(Append(o1, y), b3 + 3)
    <3>1. b3 \in Nat
      OBVIOUS
    <3> HIDE DEF o1
    <3>2. QED
      BY <2>4, <2>5, <3>1, ScansOne
  <2> HIDE DEF x, y
  <2>7. Append(o1, y) = o \o <<x, y>>
    BY <2>2, Appended DEF x, y
  <2>8. b3 + 3 = b + Len(w) /\ r = <<x, y>>
    BY <2>1, <2>3 DEF x, y
  <2> HIDE DEF o1, b3
  <2>9. QED
    BY <2>6, <2>7, <2>8
<1>6. QED
  BY <1>1, <1>2, <1>3, <1>4, <1>5 DEF IsRead

LEMMA ScansCut ==
    ASSUME NEW s, NEW a, Scans(a, s), Len(s) \in Nat, NEW o \in Seq(Nat), NEW b \in Nat,
           a[b] = At(o, b), NEW w, NEW r, IsReadAtEnd(w, r), Holds(s, b, w),
           b + Len(w) = Len(s)
    PROVE  a[b + Len(w)] = At(o \o r, b + Len(w))
<1>1. CASE w = <<Percent>>
  <2>1. Len(w) = 1 /\ w[1] = Percent
    BY <1>1
  <2>2. s[b + 1] = Percent /\ b + 1 = Len(s)
    BY <2>1 DEF Holds
  <2>3. ~Escape(s, b + 1)
    BY <2>2 DEF Escape
  <2>4. a[b + 1] = At(Append(o, Percent), b + 1)
    BY <2>2, <2>3, NoHexDigits, ScansPlain
  <2>5. Append(o, Percent) = o \o <<Percent>>
    BY NoHexDigits, Appended
  <2>6. QED
    BY <1>1, <2>1, <2>4, <2>5 DEF IsReadAtEnd
<1>2. CASE \E h \in DOMAIN Hex : w = <<Percent, h>>
  <2>1. PICK h \in DOMAIN Hex : w = <<Percent, h>>
    BY <1>2
  <2>2. Len(w) = 2 /\ w[1] = Percent /\ w[2] = h
    BY <2>1
  <2>3. s[b + 1] = Percent /\ s[b + 2] = h /\ b + 2 = Len(s)
    BY <2>2 DEF Holds
  <2>4. (b + 1) + 1 = b + 2 /\ b + 1 \in Nat /\ b + 1 <= Len(s)
    BY <2>3
  <2>5. h \in Nat /\ h # Percent /\ h # Plus /\ Percent # Plus /\ Percent \in Nat
    BY NoHexDigits, HexIsNat
  <2>6. ~Escape(s, b + 1) /\ ~Escape(s, b + 2)
    BY <2>3, <2>4, <2>5 DEF Escape
  <2> DEFINE o1 == Append(o, Percent)
             b1 == b + 1
  <2>7. a[b1] = At(o1, b1)
    BY <2>3, <2>4, <2>5, <2>6, ScansPlain
  <2> HIDE DEF o1, b1
  <2>8. a[b1 + 1] = At(Append(o1, s[b1 + 1]), b1 + 1)
    <3>1. b1 \in Nat /\ b1 + 1 <= Len(s) /\ s[b1 + 1] # Plus /\ ~Escape(s, b1 + 1)
      BY <2>3, <2>4, <2>5, <2>6 DEF b1
    <3>2. QED
      BY <2>7, <3>1, ScansPlain
  <2>9. a[b + 2] = At(Append(Append(o, Percent), h), b + 2)
    BY <2>3, <2>4, <2>8 DEF o1, b1
  <2>10. Append(Append(o, Percent), h) = o \o <<Percent, h>>
    BY <2>5, Appended
  <2>11. QED
    BY <2>1, <2>2, <2>9, <2>10 DEF IsReadAtEnd
<1>3. QED
  BY <1>1, <1>2 DEF IsReadAtEnd

-----------------------------------------------------------------------------
(* What comes out of a piece *)

\* The characters that the bytes r of a piece make, wherever they are.
IsMade(r, m) ==
    \/ r \in Seq(0..127) /\ r # <<>> /\ m = r
    \/ \E x \in NoStart : r = <<x>> /\ m = <<Replacement>>
    \/ \E x \in 194..223, y \in 128..191 : r = <<x, y>> /\ m = <<(x - 192) * 64 + y - 128>>

\* A piece becomes the bytes r, and they the characters that it means.
Decoded(p, r, last) ==
    /\ IsRead(p.wire, r) \/ (last /\ IsReadAtEnd(p.wire, r))
    /\ IsMade(r, p.means)

LEMMA SmallBytes ==
    /\ Percent \in 0..127 /\ Plus \in 0..127 /\ Space \in 0..127
    /\ Plain \in SUBSET (0..127) /\ DOMAIN Hex \in SUBSET (0..127)
  BY DEF Percent, Plus, Space, Plain, Hex

LEMMA PieceDecoded ==
    ASSUME NEW p, NEW last, IsPiece(p) \/ (last /\ IsCut(p))
    PROVE  \E r : Decoded(p, r, last)
<1>0. \A w, m : Piece(w, m).wire = w /\ Piece(w, m).means = m
  BY DEF Piece
<1>1. ASSUME NEW b \in Plain, p = Piece(<<b>>, <<b>>) PROVE Decoded(p, <<b>>, last)
  <2>1. b \in Clean \ {Percent} /\ b # Plus /\ <<b>> \in Seq(0..127) /\ <<b>> # <<>>
    BY SmallBytes, NoHexDigits, CleanBytes
  <2>2. IsRead(<<b>>, <<b>>) /\ IsMade(<<b>>, <<b>>)
    BY <2>1 DEF IsRead, IsMade
  <2>3. QED
    BY <1>0, <1>1, <2>2 DEF Decoded
<1>2. ASSUME p = Piece(<<Plus>>, <<Space>>) PROVE Decoded(p, <<Space>>, last)
  <2>1. Plus \in Clean \ {Percent} /\ <<Space>> \in Seq(0..127) /\ <<Space>> # <<>>
    BY SmallBytes, NoHexDigits, CleanBytes
  <2>2. IsRead(<<Plus>>, <<Space>>) /\ IsMade(<<Space>>, <<Space>>)
    BY <2>1 DEF IsRead, IsMade
  <2>3. QED
    BY <1>0, <1>2, <2>2 DEF Decoded
<1>3. ASSUME NEW b \in Plain \ DOMAIN Hex, p = Piece(<<Percent, b>>, <<Percent, b>>)
      PROVE  Decoded(p, <<Percent, b>>, last)
  <2>1. <<Percent, b>> \in Seq(0..127) /\ <<Percent, b>> # <<>>
    BY SmallBytes
  <2>2. IsRead(<<Percent, b>>, <<Percent, b>>) /\ IsMade(<<Percent, b>>, <<Percent, b>>)
    BY <2>1 DEF IsRead, IsMade
  <2>3. QED
    BY <1>0, <1>3, <2>2 DEF Decoded
<1>4. ASSUME NEW b \in Plain \ DOMAIN Hex, NEW h \in DOMAIN Hex,
             p = Piece(<<Percent, h, b>>, <<Percent, h, b>>)
      PROVE  Decoded(p, <<Percent, h, b>>, last)
  <2> DEFINE w == <<Percent, h, b>>
  <2>1. w \in Seq(0..127) /\ w # <<>>
    BY SmallBytes
  <2>2. IsRead(w, w)
    BY DEF IsRead
  <2> HIDE DEF w
  <2>3. IsMade(w, w)
    BY <2>1 DEF IsMade
  <2>4. p.wire = w /\ p.means = w
    BY <1>0, <1>4 DEF w
  <2>5. QED
    BY <2>2, <2>3, <2>4 DEF Decoded, w
<1>5. ASSUME NEW e \in Escapes, Code(e) < 128, p = Piece(e, <<Code(e)>>)
      PROVE  Decoded(p, <<Code(e)>>, last)
  <2> DEFINE x == Code(e)
  <2>1. x \in 0..127
    <3>1. x \in Nat /\ x < 128
      BY <1>5, EscapeIs
    <3> HIDE DEF x
    <3>2. QED
      BY <3>1
  <2>2. IsRead(e, <<x>>)
    BY DEF IsRead
  <2> HIDE DEF x
  <2>3. <<x>> \in Seq(0..127) /\ <<x>> # <<>>
    BY <2>1
  <2>4. IsMade(<<x>>, <<x>>)
    BY <2>3 DEF IsMade
  <2>5. QED
    BY <1>0, <1>5, <2>2, <2>4 DEF Decoded, x
<1>6. ASSUME NEW e \in Escapes, Code(e) \in NoStart, p = Piece(e, <<Replacement>>)
      PROVE  Decoded(p, <<Code(e)>>, last)
  <2>1. IsRead(e, <<Code(e)>>) /\ IsMade(<<Code(e)>>, <<Replacement>>)
    BY <1>6 DEF IsRead, IsMade
  <2>2. QED
    BY <1>0, <1>6, <2>1 DEF Decoded
<1>7. ASSUME NEW d \in Escapes, NEW e \in Escapes,
             Code(d) \in 194..223, Code(e) \in 128..191,
             p = Piece(d \o e, <<(Code(d) - 192) * 64 + Code(e) - 128>>)
      PROVE  Decoded(p, <<Code(d), Code(e)>>, last)
  <2>1. /\ IsRead(d \o e, <<Code(d), Code(e)>>)
        /\ IsMade(<<Code(d), Code(e)>>, <<(Code(d) - 192) * 64 + Code(e) - 128>>)
    BY <1>7 DEF IsRead, IsMade
  <2>2. QED
    BY <1>0, <1>7, <2>1 DEF Decoded
<1>8. ASSUME last, IsCut(p) PROVE Decoded(p, p.wire, last)
  <2>1. PICK w : p = Piece(w, w) /\ (w = <<Percent>> \/ \E h \in DOMAIN Hex : w = <<Percent, h>>)
    BY <1>8 DEF IsCut
  <2>2. w \in Seq(0..127) /\ w # <<>>
    <3>1. CASE w = <<Percent>>
      BY <3>1, SmallBytes
    <3>2. ASSUME NEW h \in DOMAIN Hex, w = <<Percent, h>> PROVE w \in Seq(0..127) /\ w # <<>>
      BY <3>2, SmallBytes
    <3>3. QED
      BY <2>1, <3>1, <3>2
  <2>3. IsReadAtEnd(w, w) /\ IsMade(w, w)
    BY <2>1, <2>2 DEF IsReadAtEnd, IsMade
  <2>4. QED
    BY <1>0, <1>8, <2>1, <2>3 DEF Decoded
<1> DEFINE Some == \E r : Decoded(p, r, last)
<1>9. /\ \A b \in Plain : p = Piece(<<b>>, <<b>>) => Some
      /\ p = Piece(<<Plus>>, <<Space>>) => Some
      /\ \A b \in Plain \ DOMAIN Hex : p = Piece(<<Percent, b>>, <<Percent, b>>) => Some
  BY <1>1, <1>2, <1>3
<1>10. \A b \in Plain \ DOMAIN Hex, h \in DOMAIN Hex :
          p = Piece(<<Percent, h, b>>, <<Percent, h, b>>) => Some
  BY <1>4
<1>11. /\ \A e \in Escapes : Code(e) < 128 /\ p = Piece(e, <<Code(e)>>) => Some
       /\ \A e \in Escapes : Code(e) \in NoStart /\ p = Piece(e, <<Replacement>>) => Some
  BY <1>5, <1>6
<1>12. ASSUME NEW d \in Escapes, NEW e \in Escapes,
              Code(d) \in 194..223, Code(e) \in 128..191,
              p = Piece(d \o e, <<(Code(d) - 192) * 64 + Code(e) - 128>>)
       PROVE  Some
  <2>1. Decoded(p, <<Code(d), Code(e)>>, last)
    BY <1>7, <1>12
  <2>2. QED
    BY <2>1
<1>13. last /\ IsCut(p) => Some
  BY <1>8
<1> HIDE DEF Some
<1>14. Some
  <2>1. CASE \E d, e \in Escapes :
                /\ Code(d) \in 194..223 /\ Code(e) \in 128..191
                /\ p = Piece(d \o e, <<(Code(d) - 192) * 64 + Code(e) - 128>>)
    BY <1>12, <2>1
  <2>2. CASE \E e \in Escapes : Code(e) < 128 /\ p = Piece(e, <<Code(e)>>)
    BY <1>11, <2>2
  <2>3. CASE \E e \in Escapes : Code(e) \in NoStart /\ p = Piece(e, <<Replacement>>)
    BY <1>11, <2>3
  <2>4. QED
    BY <1>9, <1>10, <1>13, <2>1, <2>2, <2>3 DEF IsPiece
<1>15. QED
  BY <1>14 DEF Some

LEMMA DecodedTyped ==
    ASSUME NEW p, NEW r, NEW last, Decoded(p, r, last)
    PROVE  /\ p.wire \in Seq(Clean) /\ p.means \in Seq(Nat)
           /\ r \in Seq(Nat) /\ r # <<>>
<1> DEFINE w == p.wire
<1>1. w \in Seq(Clean)
  <2>1. CASE \E b \in Clean \ {Percent} : w = <<b>> /\ r = <<IF b = Plus THEN Space ELSE b>>
    BY <2>1
  <2>2. CASE \E b \in Plain \ DOMAIN Hex : w = <<Percent, b>> /\ r = w
    BY <2>2, CleanBytes
  <2>3. CASE \E h \in DOMAIN Hex, b \in Plain \ DOMAIN Hex : w = <<Percent, h, b>> /\ r = w
    BY <2>3, CleanBytes
  <2>4. CASE \E e \in Escapes : w = e /\ r = <<Code(e)>>
    BY <2>4, EscapeIs
  <2>5. CASE \E d, e \in Escapes : w = d \o e /\ r = <<Code(d), Code(e)>>
    BY <2>5, EscapeIs, ConcatProperties
  <2>6. CASE IsReadAtEnd(w, r)
    <3>1. CASE w = <<Percent>>
      BY <3>1, CleanBytes
    <3>2. ASSUME NEW h \in DOMAIN Hex, w = <<Percent, h>> PROVE w \in Seq(Clean)
      BY <3>2, CleanBytes
    <3>3. QED
      BY <2>6, <3>1, <3>2 DEF IsReadAtEnd
  <2>7. QED
    BY <2>1, <2>2, <2>3, <2>4, <2>5, <2>6 DEF Decoded, IsRead
<1>2. p.means \in Seq(Nat) /\ r \in Seq(Nat) /\ r # <<>>
  <2>1. CASE r \in Seq(0..127) /\ r # <<>> /\ p.means = r
    <3>1. r \in Seq(Nat)
      <4> DEFINE S == 0..127
      <4>1. r \in Seq(S) /\ S \subseteq Nat
        BY <2>1
      <4> HIDE DEF S
      <4>2. QED
        BY <4>1, SeqMonotonic
    <3>2. QED
      BY <2>1, <3>1
  <2>2. CASE \E x \in NoStart : r = <<x>> /\ p.means = <<Replacement>>
    BY <2>2 DEF NoStart, Replacement
  <2>3. CASE \E x \in 194..223, y \in 128..191 :
                r = <<x, y>> /\ p.means = <<(x - 192) * 64 + y - 128>>
    <3>1. PICK x \in 194..223, y \in 128..191 :
                  r = <<x, y>> /\ p.means = <<(x - 192) * 64 + y - 128>>
      BY <2>3
    <3>2. (x - 192) * 64 + y - 128 \in Nat
      OBVIOUS
    <3>3. QED
      BY <3>1, <3>2
  <2>4. QED
    BY <2>1, <2>2, <2>3 DEF Decoded, IsMade
<1>3. QED
  BY <1>1, <1>2

\* raws[i] is what comes out of the piece i of text.
Raws(text, raws) ==
    /\ Len(raws) = Len(text)
    /\ \A i \in 1..Len(text) : Decoded(text[i], raws[i], i = Len(text))

LEMMA RawsExist ==
    ASSUME NEW text, WellWritten(text)
    PROVE  \E raws : raws \in Seq(Seq(Nat)) /\ Raws(text, raws)
<1> DEFINE n == Len(text)
           raws == [i \in 1..n |-> CHOOSE r : Decoded(text[i], r, i = n)]
<1>1. n \in Nat /\ DOMAIN text = 1..n
  BY DEF WellWritten
<1>2. ASSUME NEW i \in 1..n
      PROVE  Decoded(text[i], raws[i], i = n) /\ raws[i] \in Seq(Nat)
  <2>1. IsPiece(text[i]) \/ (i = n /\ IsCut(text[i]))
    BY <1>1 DEF WellWritten
  <2>2. \E r : Decoded(text[i], r, i = n)
    BY <2>1, PieceDecoded
  <2>3. Decoded(text[i], raws[i], i = n)
    BY <2>2
  <2>4. QED
    BY <2>3, DecodedTyped
<1>3. raws \in Seq(Seq(Nat)) /\ Len(raws) = n
  <2> DEFINE S == Seq(Nat)
  <2>1. DOMAIN raws = 1..n /\ \A i \in 1..n : raws[i] \in S
    BY <1>2
  <2> HIDE DEF S, n
  <2>2. raws \in [1..n -> S]
    BY <2>1
  <2>3. QED
    BY <1>1, <2>2 DEF S
<1> HIDE DEF raws
<1>4. QED
  BY <1>2, <1>3 DEF Raws

LEMMA WiresTyped ==
    ASSUME NEW text, WellWritten(text)
    PROVE  /\ [i \in DOMAIN text |-> text[i].wire] \in Seq(Seq(Clean))
           /\ [i \in DOMAIN text |-> text[i].means] \in Seq(Seq(Nat))
<1> DEFINE n == Len(text)
           C == Seq(Clean)
           S == Seq(Nat)
           wires == [i \in DOMAIN text |-> text[i].wire]
           means == [i \in DOMAIN text |-> text[i].means]
<1>1. n \in Nat /\ DOMAIN text = 1..n
  BY DEF WellWritten
<1>2. PICK raws : raws \in Seq(Seq(Nat)) /\ Raws(text, raws)
  BY RawsExist
<1>3. ASSUME NEW i \in 1..n PROVE text[i].wire \in C /\ text[i].means \in S
  <2>1. Decoded(text[i], raws[i], i = n)
    BY <1>2 DEF Raws
  <2>2. QED
    BY <2>1, DecodedTyped
<1> HIDE DEF C, S, n
<1>4. wires \in [1..n -> C] /\ means \in [1..n -> S]
  BY <1>1, <1>3
<1> HIDE DEF wires, means
<1>5. wires \in Seq(C) /\ means \in Seq(S)
  BY <1>1, <1>4
<1>6. QED
  BY <1>5 DEF wires, means, C, S

\* The decoder takes a text apart as the client put it together.
LEMMA TextUnescaped ==
    ASSUME NEW text, WellWritten(text), NEW raws, raws \in Seq(Seq(Nat)), Raws(text, raws)
    PROVE  Unescaped(WireOf(text)) = FlattenSeq(raws)
<1> DEFINE n == Len(text)
           wires == [i \in DOMAIN text |-> text[i].wire]
           s == FlattenSeq(wires)
<1>1. n \in Nat /\ DOMAIN text = 1..n /\ Len(wires) = n
  <2>1. n \in Nat /\ DOMAIN text = 1..n
    BY DEF WellWritten
  <2>2. Len(wires) = n
    BY <2>1
  <2>3. QED
    BY <2>1, <2>2
<1>2. WireOf(text) = s
  BY DEF WireOf
<1>3. wires \in Seq(Seq(Clean)) /\ wires \in Seq(Seq(Nat))
  <2>1. wires \in Seq(Seq(Clean))
    BY WiresTyped
  <2>2. Clean \subseteq Nat
    BY DEF Clean
  <2>3. Seq(Clean) \subseteq Seq(Nat)
    BY <2>2, SeqMonotonic
  <2>4. QED
    <3> DEFINE C == Seq(Clean)
               S == Seq(Nat)
    <3>1. wires \in Seq(C) /\ C \subseteq S
      BY <2>1, <2>3
    <3> HIDE DEF C, S, wires
    <3>2. wires \in Seq(S)
      BY <3>1, SeqMonotonic
    <3>3. QED
      BY <2>1, <3>2 DEF S
<1>4. \A k \in 0..(n - 1) : wires[k + 1] = text[k + 1].wire /\ k + 1 \in 1..n
  BY <1>1
<1> HIDE DEF wires, s
<1>5. PICK p \in [0..n -> Seq(Nat)] : IsLaid(p, wires, s)
  <2>1. \E p \in [0..Len(wires) -> Seq(Nat)] : IsLaid(p, wires, FlattenSeq(wires))
    BY <1>3, LaidOut
  <2>2. QED
    BY <1>1, <2>1 DEF s
<1>6. Len(raws) = n
  BY DEF Raws
<1>7. PICK q \in [0..n -> Seq(Nat)] : IsLaid(q, raws, FlattenSeq(raws))
  <2>1. \E q \in [0..Len(raws) -> Seq(Nat)] : IsLaid(q, raws, FlattenSeq(raws))
    BY LaidOut
  <2>2. QED
    BY <1>6, <2>1
<1>8. s \in Seq(Nat) /\ p[n] = s /\ q[n] = FlattenSeq(raws) /\ p[0] = <<>> /\ q[0] = <<>>
  BY <1>1, <1>5, <1>6, <1>7 DEF IsLaid
<1>9. Len(s) \in Nat
  BY <1>8
<1>10. PICK a : Scans(a, s)
  BY <1>8, UnescapedUnrolled
<1> DEFINE b(k) == Len(p[k])
           Good == {k \in 0..n : a[b(k)] = At(q[k], b(k))}
<1>11. 0 \in Good
  <2>1. a[0] = At(<<>>, 0)
    BY <1>10 DEF Scans, At
  <2>2. b(0) = 0
    BY <1>8
  <2>3. QED
    BY <1>1, <1>8, <2>1, <2>2
<1>12. ASSUME NEW k \in 0..(n - 1), k \in Good PROVE k + 1 \in Good
  <2> DEFINE w == wires[k + 1]
             r == raws[k + 1]
             o == q[k]
             x == b(k)
  <2>1. k \in 0..n /\ k + 1 \in 0..n /\ k + 1 \in 1..n
    BY <1>1
  <2>2. IsNext(p, wires, s, k) /\ IsNext(q, raws, FlattenSeq(raws), k)
    BY <1>1, <1>5, <1>6, <1>7 DEF IsLaid
  <2>3. b(k + 1) = x + Len(w) /\ q[k + 1] = o \o r /\ Holds(s, x, w)
    BY <2>2 DEF IsNext, Holds
  <2>4. o \in Seq(Nat) /\ x \in Nat /\ a[x] = At(o, x)
    <3>1. p[k] \in Seq(Nat) /\ q[k] \in Seq(Nat)
      BY <1>5, <1>7, <2>1
    <3>2. QED
      BY <1>12, <3>1
  <2>5. Decoded(text[k + 1], r, k + 1 = n)
    BY <2>1 DEF Raws
  <2>6. w = text[k + 1].wire
    BY <1>4
  <2>7. a[x + Len(w)] = At(o \o r, x + Len(w))
    <3>1. CASE IsRead(w, r)
      <4> HIDE DEF w, r, o, x
      <4>1. QED
        BY <1>9, <1>10, <2>3, <2>4, <3>1, ScansPiece
    <3>2. CASE k + 1 = n /\ IsReadAtEnd(w, r)
      <4>1. x + Len(w) = Len(s)
        BY <1>8, <2>3, <3>2
      <4> HIDE DEF w, r, o, x
      <4>2. QED
        BY <1>9, <1>10, <2>3, <2>4, <3>2, <4>1, ScansCut
    <3>3. QED
      BY <2>5, <2>6, <3>1, <3>2 DEF Decoded
  <2> HIDE DEF w, r, o, x
  <2>8. a[b(k + 1)] = At(q[k + 1], b(k + 1))
    BY <2>3, <2>7
  <2>9. QED
    BY <2>1, <2>8
<1>13. n \in Good
  <2>1. n \in 0..n
    BY <1>1
  <2> HIDE DEF Good
  <2>2. QED
    BY <1>1, <1>11, <1>12, <2>1, UpTo
<1>14. a[Len(s)] = At(FlattenSeq(raws), Len(s))
  BY <1>8, <1>13
<1>15. Unescaped(s) = FlattenSeq(raws)
  BY <1>10, <1>14 DEF Scans, At
<1>16. QED
  BY <1>2, <1>15

-----------------------------------------------------------------------------
(* The characters of a text *)

\* What is put behind o element by element is put behind it as a whole.
LEMMA OneByOne ==
    ASSUME NEW A, NEW o \in Seq(A), NEW w \in Seq(A), NEW c, NEW x \in Nat, c[x] = o,
           \A j \in 0..(Len(w) - 1) : c[x + j + 1] = c[x + j] \o <<w[j + 1]>>
    PROVE  c[x + Len(w)] = o \o w
<1> DEFINE n == Len(w)
           Good == {j \in 0..n : c[x + j] = o \o SubSeq(w, 1, j)}
<1>1. n \in Nat
  OBVIOUS
<1>2. 0 \in Good
  <2>1. SubSeq(w, 1, 0) = <<>> /\ x + 0 = x
    BY SubSeqEmpty
  <2>2. o \o <<>> = o
    BY ConcatEmptySeq
  <2>3. QED
    BY <1>1, <2>1, <2>2
<1>3. ASSUME NEW j \in 0..(n - 1), j \in Good PROVE j + 1 \in Good
  <2> DEFINE u == SubSeq(w, 1, j)
             v == SubSeq(w, 1, j + 1)
             l == <<w[j + 1]>>
  <2>1. j + 1 \in 1..n /\ j + 1 \in 0..n /\ (j + 1) - 1 = j
    BY <1>1
  <2>2. v = u \o l
    <3>1. 1 \in 1..Len(w) /\ j + 1 \in 1..Len(w)
      BY <1>1, <2>1
    <3>2. SubSeq(w, 1, j + 1) = SubSeq(w, 1, (j + 1) - 1) \o <<w[j + 1]>>
      BY <3>1, SubSeqRecursiveSecond
    <3>3. QED
      BY <2>1, <3>2
  <2>3. u \in Seq(A) /\ l \in Seq(A)
    <3>1. \A i \in 1..j : w[i] \in A
      BY <1>1
    <3>2. u \in Seq(A)
      BY <3>1, SubSeqProperties
    <3>3. w[j + 1] \in A
      BY <2>1
    <3>4. QED
      BY <3>2, <3>3
  <2>4. (o \o u) \o l = o \o (u \o l)
    <3> HIDE DEF u, l
    <3>1. QED
      BY <2>3, ConcatAssociative
  <2>5. c[x + j] = o \o u
    BY <1>3
  <2>6. c[x + j + 1] = (o \o u) \o l
    BY <2>5
  <2>7. x + (j + 1) = x + j + 1
    BY <1>1
  <2>8. c[x + (j + 1)] = o \o v
    <3> HIDE DEF u, v, l
    <3>1. QED
      BY <2>2, <2>4, <2>6, <2>7
  <2>9. QED
    BY <2>1, <2>8
<1>4. n \in Good
  <2>1. n \in 0..n
    BY <1>1
  <2> HIDE DEF Good
  <2>2. QED
    BY <1>1, <1>2, <1>3, <2>1, UpTo
<1>5. SubSeq(w, 1, n) = w
  BY SubSeqFull
<1>6. QED
  BY <1>4, <1>5

\* A character of two bytes may begin at position i.
Leads(bytes, i) == i \in 1..Len(bytes) /\ bytes[i] \in 194..223

\* c[i] is the characters of the first i bytes.
Reads(c, bytes) == \A i \in 0..(Len(bytes) - 1) : c[i + 1] = c[i] \o CharAt(bytes, i + 1)

LEMMA ByteClasses ==
    ASSUME NEW v
    PROVE  /\ v \in 0..127 => v < 128 /\ v \notin 128..191 /\ v \notin 194..223
           /\ v \in 128..191 => ~(v < 128) /\ v \notin 194..223
           /\ v \in 194..223 => ~(v < 128) /\ v \notin 128..191
  OBVIOUS

LEMMA NotLeading ==
    ASSUME NEW bytes, NEW i, bytes[i] \in 0..127 \/ bytes[i] \in 128..191
    PROVE  ~Leads(bytes, i) /\ ~IsPair(bytes, i)
<1> DEFINE v == bytes[i]
<1>1. v \notin 194..223
  <2>1. v \in 0..127 \/ v \in 128..191
    OBVIOUS
  <2> HIDE DEF v
  <2>2. QED
    BY <2>1, ByteClasses
<1>2. QED
  BY <1>1 DEF Leads, IsPair

LEMMA CharsOfPiece ==
    ASSUME NEW raw, Len(raw) \in Nat, NEW c, Reads(c, raw), NEW x \in Nat,
           c[x] \in Seq(Nat), ~Leads(raw, x),
           NEW r, NEW m, IsMade(r, m), Holds(raw, x, r)
    PROVE  c[x + Len(r)] = c[x] \o m /\ ~Leads(raw, x + Len(r))
<1>0. ~IsPair(raw, x)
  BY DEF IsPair, Leads
<1>1. CASE r \in Seq(0..127) /\ r # <<>> /\ m = r
  <2> DEFINE o == c[x]
             n == Len(r)
  <2>1. n \in Nat \ {0} /\ r \in Seq(Nat) /\ \A j \in 1..n : r[j] \in 0..127
    <3> DEFINE S == 0..127
    <3>1. r \in Seq(S) /\ S \subseteq Nat /\ r # <<>>
      BY <1>1
    <3> HIDE DEF S
    <3>2. r \in Seq(Nat)
      BY <3>1, SeqMonotonic
    <3>3. n \in Nat \ {0} /\ \A j \in 1..n : r[j] \in S
      BY <3>1, EmptySeq
    <3>4. QED
      BY <3>2, <3>3 DEF S
  <2>2. x + n <= Len(raw) /\ \A j \in 1..n : raw[x + j] = r[j]
    BY DEF Holds
  <2> HIDE DEF o, n
  <2>3. ASSUME NEW j \in 0..(n - 1) PROVE c[x + j + 1] = c[x + j] \o <<r[j + 1]>>
    <3>1. /\ j + 1 \in 1..n /\ x + j \in 0..(Len(raw) - 1)
          /\ x + (j + 1) = x + j + 1 /\ (x + j + 1) - 1 = x + j
      BY <2>1, <2>2
    <3>2. raw[x + j + 1] = r[j + 1] /\ r[j + 1] \in 0..127
      <4>1. raw[x + (j + 1)] = r[j + 1]
        BY <2>2, <3>1
      <4>2. QED
        BY <2>1, <3>1, <4>1
    <3>3. ~IsPair(raw, x + j)
      <4>1. CASE j = 0
        <5>1. x + j = x
          BY <4>1
        <5>2. QED
          BY <1>0, <5>1
      <4>2. CASE j # 0
        <5>1. j \in 1..n
          BY <2>1, <4>2
        <5>2. raw[x + j] \in 0..127
          BY <2>1, <2>2, <5>1
        <5>3. QED
          BY <5>2, NotLeading
      <4>3. QED
        BY <4>1, <4>2
    <3>4. ~IsPair(raw, x + j + 1) /\ raw[x + j + 1] < 128
      BY <3>2, ByteClasses DEF IsPair
    <3>5. CharAt(raw, x + j + 1) = <<raw[x + j + 1]>>
      BY <3>1, <3>3, <3>4 DEF CharAt
    <3>6. c[x + j + 1] = c[x + j] \o CharAt(raw, x + j + 1)
      BY <3>1 DEF Reads
    <3>7. QED
      BY <3>2, <3>5, <3>6
  <2>4. c[x + n] = o \o r
    BY <2>1, <2>3, OneByOne DEF o, n
  <2>5. raw[x + n] \in 0..127
    <3>1. n \in 1..n
      BY <2>1
    <3>2. QED
      BY <2>1, <2>2, <3>1
  <2>6. ~Leads(raw, x + n)
    BY <2>5, NotLeading
  <2>7. QED
    BY <1>1, <2>4, <2>6 DEF o, n
<1>2. CASE \E v \in NoStart : r = <<v>> /\ m = <<Replacement>>
  <2>1. PICK v \in NoStart : r = <<v>> /\ m = <<Replacement>>
    BY <1>2
  <2>2. Len(r) = 1 /\ r[1] = v
    BY <2>1
  <2>3. raw[x + 1] = v /\ x + 1 <= Len(raw) /\ x \in 0..(Len(raw) - 1) /\ (x + 1) - 1 = x
    BY <2>2 DEF Holds
  <2>4. v \in Nat /\ ~(v < 128) /\ v \notin 194..223
    BY DEF NoStart
  <2>5. ~IsPair(raw, x + 1) /\ ~Leads(raw, x + 1)
    BY <2>3, <2>4 DEF IsPair, Leads
  <2>6. CharAt(raw, x + 1) = <<Replacement>>
    BY <1>0, <2>3, <2>4, <2>5 DEF CharAt
  <2>7. c[x + 1] = c[x] \o CharAt(raw, x + 1)
    BY <2>3 DEF Reads
  <2>8. QED
    BY <2>1, <2>2, <2>5, <2>6, <2>7
<1>3. CASE \E v \in 194..223, y \in 128..191 :
              r = <<v, y>> /\ m = <<(v - 192) * 64 + y - 128>>
  <2>1. PICK v \in 194..223, y \in 128..191 :
                r = <<v, y>> /\ m = <<(v - 192) * 64 + y - 128>>
    BY <1>3
  <2>2. Len(r) = 2 /\ r[1] = v /\ r[2] = y
    BY <2>1
  <2>3. /\ raw[x + 1] = v /\ raw[x + 2] = y /\ x + 2 <= Len(raw)
        /\ x \in 0..(Len(raw) - 1) /\ x + 1 \in 0..(Len(raw) - 1)
        /\ (x + 1) - 1 = x /\ (x + 2) - 1 = x + 1 /\ (x + 1) + 1 = x + 2
    BY <2>2 DEF Holds
  <2>4. IsPair(raw, x + 1) /\ ~Leads(raw, x + 2)
    <3>1. x + 1 \in 1..(Len(raw) - 1)
      BY <2>3
    <3>2. raw[x + 1] \in 194..223 /\ raw[(x + 1) + 1] \in 128..191
      BY <2>3
    <3>3. raw[x + 2] \in 128..191
      BY <2>3
    <3>4. QED
      BY <3>1, <3>2, <3>3, NotLeading DEF IsPair
  <2>5. CharAt(raw, x + 1) = m
    <3>1. CharAt(raw, x + 1) = <<(raw[x + 1] - 192) * 64 + raw[(x + 1) + 1] - 128>>
      <4>1. raw[x + 1] \in 194..223
        BY <2>3
      <4>2. ~(raw[x + 1] < 128)
        BY <4>1, ByteClasses
      <4>3. QED
        BY <1>0, <2>3, <2>4, <4>2 DEF CharAt
    <3>2. QED
      BY <2>1, <2>3, <3>1
  <2>6. CharAt(raw, x + 2) = <<>>
    <3>1. raw[x + 2] \in 128..191 /\ ~IsPair(raw, x + 2) /\ ~(raw[x + 2] < 128)
      BY <2>3, ByteClasses DEF IsPair
    <3>2. QED
      BY <2>3, <2>4, <3>1 DEF CharAt
  <2>7. c[x + 1] = c[x] \o m /\ c[(x + 1) + 1] = c[x + 1] \o CharAt(raw, (x + 1) + 1)
    BY <2>3, <2>5 DEF Reads
  <2>8. c[x + 2] = (c[x] \o m) \o <<>>
    BY <2>3, <2>6, <2>7
  <2>9. (c[x] \o m) \o <<>> = c[x] \o m
    <3>1. m \in Seq(Nat)
      <4>1. (v - 192) * 64 + y - 128 \in Nat
        OBVIOUS
      <4>2. QED
        BY <2>1, <4>1
    <3> DEFINE o == c[x]
    <3> HIDE DEF o
    <3>2. o \o m \in Seq(Nat)
      BY <3>1, ConcatProperties DEF o
    <3>3. (o \o m) \o <<>> = o \o m
      BY <3>2, ConcatEmptySeq
    <3>4. QED
      BY <3>3 DEF o
  <2>10. QED
    BY <2>2, <2>4, <2>8, <2>9
<1>4. QED
  BY <1>1, <1>2, <1>3 DEF IsMade

LEMMA CharsTyped ==
    ASSUME NEW raw, raw \in Seq(Nat)
    PROVE  [i \in DOMAIN raw |-> CharAt(raw, i)] \in Seq(Seq(Nat))
<1> DEFINE n == Len(raw)
           S == Seq(Nat)
           chars == [i \in DOMAIN raw |-> CharAt(raw, i)]
<1>1. n \in Nat /\ DOMAIN raw = 1..n /\ \A i \in 1..n : raw[i] \in Nat
  OBVIOUS
<1>2. ASSUME NEW i \in 1..n PROVE CharAt(raw, i) \in S
  <2>1. CASE IsPair(raw, i - 1)
    <3>1. (i - 1) + 1 = i
      BY <1>1
    <3>2. raw[i] \in 128..191
      BY <2>1, <3>1 DEF IsPair
    <3>3. ~IsPair(raw, i) /\ ~(raw[i] < 128)
      BY <3>2, NotLeading, ByteClasses
    <3>4. CharAt(raw, i) = <<>>
      BY <2>1, <3>3 DEF CharAt
    <3>5. QED
      BY <3>4
  <2>2. CASE ~IsPair(raw, i - 1) /\ IsPair(raw, i)
    <3> DEFINE x == raw[i]
               y == raw[i + 1]
    <3>1. x \in 194..223 /\ y \in 128..191
      BY <2>2 DEF IsPair
    <3> HIDE DEF x, y
    <3>2. (x - 192) * 64 + y - 128 \in Nat /\ ~(x < 128)
      BY <3>1
    <3>3. CharAt(raw, i) = <<(x - 192) * 64 + y - 128>>
      BY <2>2, <3>2 DEF CharAt, x, y
    <3>4. QED
      BY <3>2, <3>3
  <2>3. CASE ~IsPair(raw, i - 1) /\ ~IsPair(raw, i)
    <3>1. CharAt(raw, i) = <<raw[i]>> \/ CharAt(raw, i) = <<Replacement>>
      BY <2>3 DEF CharAt
    <3>2. raw[i] \in Nat /\ Replacement \in Nat
      BY <1>1 DEF Replacement
    <3> DEFINE x == raw[i]
               y == CharAt(raw, i)
               z == Replacement
    <3>3. x \in Nat /\ z \in Nat /\ (y = <<x>> \/ y = <<z>>)
      BY <3>1, <3>2
    <3> HIDE DEF x, y, z
    <3>4. y \in Seq(Nat)
      <4>1. <<x>> \in Seq(Nat) /\ <<z>> \in Seq(Nat)
        BY <3>3
      <4>2. QED
        BY <3>3, <4>1, Zenon
    <3>5. QED
      BY <3>4 DEF y
  <2>4. QED
    BY <2>1, <2>2, <2>3
<1> HIDE DEF S, n
<1>3. chars \in [1..n -> S]
  BY <1>1, <1>2
<1> HIDE DEF chars
<1>4. chars \in Seq(S)
  BY <1>1, <1>3
<1>5. QED
  BY <1>4 DEF chars, S

\* urldecode: whatever pieces a text is written in, its characters are meant.
LEMMA TextDecoded ==
    ASSUME NEW text, WellWritten(text)
    PROVE  UrlDecode(WireOf(text)) = MeaningOf(text)
<1>1. PICK raws : raws \in Seq(Seq(Nat)) /\ Raws(text, raws)
  BY RawsExist
<1> DEFINE n == Len(text)
           raw == FlattenSeq(raws)
           chars == [i \in DOMAIN raw |-> CharAt(raw, i)]
           means == [i \in DOMAIN text |-> text[i].means]
<1>2. n \in Nat /\ DOMAIN text = 1..n /\ Len(means) = n /\ Len(raws) = n
  <2>1. n \in Nat /\ DOMAIN text = 1..n
    BY DEF WellWritten
  <2>2. Len(means) = n
    BY <2>1
  <2>3. QED
    BY <1>1, <2>1, <2>2 DEF Raws
<1>3. UrlDecode(WireOf(text)) = FlattenSeq(chars) /\ MeaningOf(text) = FlattenSeq(means)
  BY <1>1, TextUnescaped DEF UrlDecode, Lossy, MeaningOf
<1>4. \A k \in 0..(n - 1) : means[k + 1] = text[k + 1].means /\ k + 1 \in 1..n
  BY <1>2
<1>5. means \in Seq(Seq(Nat))
  BY WiresTyped
<1> HIDE DEF raw, means
<1>6. PICK q \in [0..n -> Seq(Nat)] : IsLaid(q, raws, raw)
  <2>1. \E q \in [0..Len(raws) -> Seq(Nat)] : IsLaid(q, raws, FlattenSeq(raws))
    BY <1>1, LaidOut
  <2>2. QED
    BY <1>2, <2>1 DEF raw
<1>7. q[n] = raw /\ q[0] = <<>> /\ raw \in Seq(Nat)
  BY <1>2, <1>6 DEF IsLaid
<1>8. Len(raw) \in Nat /\ DOMAIN raw = 1..Len(raw) /\ Len(chars) = Len(raw)
  BY <1>7
<1>9. \A i \in 0..(Len(raw) - 1) : chars[i + 1] = CharAt(raw, i + 1)
  BY <1>8
<1>10. chars \in Seq(Seq(Nat))
  BY <1>7, CharsTyped
<1> HIDE DEF chars
<1>11. PICK c \in [0..Len(raw) -> Seq(Nat)] : IsLaid(c, chars, FlattenSeq(chars))
  <2>1. \E c \in [0..Len(chars) -> Seq(Nat)] : IsLaid(c, chars, FlattenSeq(chars))
    BY <1>10, LaidOut
  <2>2. QED
    BY <1>8, <2>1
<1>12. c[Len(raw)] = FlattenSeq(chars) /\ c[0] = <<>> /\ Reads(c, raw)
  <2>1. ASSUME NEW i \in 0..(Len(raw) - 1) PROVE c[i + 1] = c[i] \o CharAt(raw, i + 1)
    <3>1. IsNext(c, chars, FlattenSeq(chars), i)
      BY <1>8, <1>11 DEF IsLaid
    <3>2. QED
      BY <1>9, <3>1 DEF IsNext
  <2>2. c[Len(raw)] = FlattenSeq(chars) /\ c[0] = <<>>
    BY <1>8, <1>11 DEF IsLaid
  <2>3. QED
    BY <2>1, <2>2 DEF Reads
<1>13. PICK m \in [0..n -> Seq(Nat)] : IsLaid(m, means, FlattenSeq(means))
  <2>1. \E m \in [0..Len(means) -> Seq(Nat)] : IsLaid(m, means, FlattenSeq(means))
    BY <1>5, LaidOut
  <2>2. QED
    BY <1>2, <2>1
<1>14. m[n] = FlattenSeq(means) /\ m[0] = <<>>
  BY <1>2, <1>13 DEF IsLaid
<1> DEFINE b(k) == Len(q[k])
           Good == {k \in 0..n : c[b(k)] = m[k] /\ ~Leads(raw, b(k))}
<1>15. 0 \in Good
  <2>1. b(0) = 0
    BY <1>7
  <2>2. ~Leads(raw, 0)
    BY DEF Leads
  <2>3. QED
    BY <1>2, <1>12, <1>14, <2>1, <2>2
<1>16. ASSUME NEW k \in 0..(n - 1), k \in Good PROVE k + 1 \in Good
  <2> DEFINE r == raws[k + 1]
             e == means[k + 1]
             x == b(k)
  <2>1. k \in 0..n /\ k + 1 \in 0..n /\ k + 1 \in 1..n
    BY <1>2
  <2>2. IsNext(q, raws, raw, k) /\ IsNext(m, means, FlattenSeq(means), k)
    BY <1>2, <1>6, <1>13 DEF IsLaid
  <2>3. b(k + 1) = x + Len(r) /\ m[k + 1] = m[k] \o e /\ Holds(raw, x, r)
    BY <2>2 DEF IsNext, Holds
  <2>4. m[k] \in Seq(Nat) /\ x \in Nat /\ c[x] = m[k] /\ ~Leads(raw, x)
    <3>1. q[k] \in Seq(Nat) /\ m[k] \in Seq(Nat)
      BY <1>6, <1>13, <2>1
    <3>2. QED
      BY <1>16, <3>1
  <2>5. IsMade(r, e)
    <3>1. Decoded(text[k + 1], r, k + 1 = n)
      BY <1>1, <2>1 DEF Raws
    <3>2. e = text[k + 1].means
      BY <1>4
    <3>3. QED
      BY <3>1, <3>2 DEF Decoded
  <2> HIDE DEF r, e, x
  <2>6. c[x + Len(r)] = m[k] \o e /\ ~Leads(raw, x + Len(r))
    <3>1. c[x] \in Seq(Nat)
      BY <2>4
    <3>2. c[x + Len(r)] = c[x] \o e /\ ~Leads(raw, x + Len(r))
      BY <1>8, <1>12, <2>3, <2>4, <2>5, <3>1, CharsOfPiece
    <3>3. QED
      BY <2>4, <3>2
  <2>7. c[b(k + 1)] = m[k + 1] /\ ~Leads(raw, b(k + 1))
    BY <2>3, <2>6
  <2>8. QED
    BY <2>1, <2>7
<1>17. n \in Good
  <2>1. n \in 0..n
    BY <1>2
  <2> HIDE DEF Good
  <2>2. QED
    BY <1>2, <1>15, <1>16, <2>1, UpTo
<1>18. c[Len(raw)] = m[n]
  BY <1>7, <1>17
<1>19. QED
  BY <1>3, <1>12, <1>14, <1>18

-----------------------------------------------------------------------------
(* Keys and values *)

LEMMA EmptyFlattened ==
    ASSUME NEW A, NEW seqs, seqs \in Seq(Seq(A)), Len(seqs) = 0
    PROVE  FlattenSeq(seqs) = <<>>
<1>1. PICK p \in [0..Len(seqs) -> Seq(A)] : IsLaid(p, seqs, FlattenSeq(seqs))
  BY LaidOut
<1>2. QED
  BY <1>1 DEF IsLaid

LEMMA TextTyped ==
    ASSUME NEW text, WellWritten(text)
    PROVE  WireOf(text) \in Seq(Clean) /\ MeaningOf(text) \in Seq(Nat)
<1> DEFINE wires == [i \in DOMAIN text |-> text[i].wire]
           means == [i \in DOMAIN text |-> text[i].means]
<1>1. wires \in Seq(Seq(Clean)) /\ means \in Seq(Seq(Nat))
  BY WiresTyped
<1> HIDE DEF wires, means
<1>2. ASSUME NEW A, NEW seqs, seqs \in Seq(Seq(A)) PROVE FlattenSeq(seqs) \in Seq(A)
  <2>1. PICK p \in [0..Len(seqs) -> Seq(A)] : IsLaid(p, seqs, FlattenSeq(seqs))
    BY <1>2, LaidOut
  <2>2. Len(seqs) \in 0..Len(seqs)
    <3> DEFINE S == Seq(A)
    <3>1. seqs \in Seq(S)
      BY <1>2
    <3> HIDE DEF S
    <3>2. QED
      BY <3>1
  <2>3. QED
    BY <2>1, <2>2 DEF IsLaid
<1>3. FlattenSeq(wires) \in Seq(Clean) /\ FlattenSeq(means) \in Seq(Nat)
  BY <1>1, <1>2
<1>4. QED
  BY <1>3 DEF WireOf, MeaningOf, wires, means

LEMMA NothingDecoded == UrlDecode(<<>>) = <<>>
<1> DEFINE text == <<>>
           wires == [i \in DOMAIN text |-> text[i].wire]
           means == [i \in DOMAIN text |-> text[i].means]
<1>1. WellWritten(text)
  BY DEF WellWritten
<1>2. wires \in Seq(Seq(Nat)) /\ Len(wires) = 0 /\ means \in Seq(Seq(Nat)) /\ Len(means) = 0
  OBVIOUS
<1>3. WireOf(text) = FlattenSeq(wires) /\ MeaningOf(text) = FlattenSeq(means)
  BY DEF WireOf, MeaningOf
<1> HIDE DEF wires, means
<1>4. FlattenSeq(wires) = <<>> /\ FlattenSeq(means) = <<>>
  BY <1>2, EmptyFlattened
<1>5. UrlDecode(WireOf(text)) = MeaningOf(text)
  BY <1>1, TextDecoded
<1>6. QED
  BY <1>3, <1>4, <1>5

LEMMA PartIs ==
    ASSUME NEW A, NEW s, NEW w, NEW x \in Nat, NEW n \in Nat, Len(w) = n,
           \A i \in 1..n : s[x + i] = w[i] /\ w[i] \in A
    PROVE  w \in Seq(A) => SubSeq(s, x + 1, x + n) = w
<1> DEFINE u == SubSeq(s, x + 1, x + n)
<1>1. \A i \in (x + 1)..(x + n) : s[i] \in A
  <2>1. ASSUME NEW i \in (x + 1)..(x + n) PROVE i - x \in 1..n /\ x + (i - x) = i
    OBVIOUS
  <2>2. QED
    BY <2>1
<1>2. x + 1 \in Int /\ x + n \in Int
  OBVIOUS
<1>3. /\ u \in Seq(A)
      /\ Len(u) = IF x + 1 <= x + n THEN (x + n) - (x + 1) + 1 ELSE 0
      /\ \A i \in 1..((x + n) - (x + 1) + 1) : u[i] = s[(x + 1) + i - 1]
  BY <1>1, <1>2, SubSeqProperties
<1>4. /\ (x + n) - (x + 1) + 1 = n /\ (~(x + 1 <= x + n) => n = 0)
      /\ \A i \in 1..n : (x + 1) + i - 1 = x + i
  OBVIOUS
<1> HIDE DEF u
<1>5. Len(u) = n /\ \A i \in 1..n : u[i] = s[x + i]
  BY <1>3, <1>4
<1>6. ASSUME w \in Seq(A) PROVE u = w
  <2>1. Len(u) = Len(w) /\ \A i \in 1..Len(u) : u[i] = w[i]
    BY <1>5
  <2>2. QED
    BY <1>3, <1>6, <2>1, SeqEqual
<1>7. QED
  BY <1>6 DEF u

\* A sequence with e between k and v.
IsBetween(pair, k, e, v) ==
    /\ Len(pair) = Len(k) + 1 + Len(v)
    /\ \A i \in 1..Len(k) : pair[i] = k[i]
    /\ pair[Len(k) + 1] = e
    /\ \A i \in 1..Len(v) : pair[(Len(k) + 1) + i] = v[i]

LEMMA Between ==
    ASSUME NEW A, NEW k, NEW v, NEW e \in A
    PROVE  k \in Seq(A) /\ v \in Seq(A) =>
              /\ k \o (<<e>> \o v) \in Seq(A)
              /\ IsBetween(k \o (<<e>> \o v), k, e, v)
<1>1. SUFFICES ASSUME k \in Seq(A), v \in Seq(A)
               PROVE  /\ k \o (<<e>> \o v) \in Seq(A)
                      /\ IsBetween(k \o (<<e>> \o v), k, e, v)
  OBVIOUS
<1> DEFINE o == <<e>>
           ev == o \o v
           pair == k \o ev
<1>2. o \in Seq(A) /\ Len(o) = 1 /\ o[1] = e
  OBVIOUS
<1> HIDE DEF o
<1>3. /\ ev \in Seq(A) /\ Len(v) \in Nat /\ Len(ev) = Len(o) + Len(v)
      /\ \A i \in 1..Len(o) : ev[i] = o[i]
      /\ \A i \in 1..Len(v) : ev[Len(o) + i] = v[i]
  BY <1>1, <1>2, Concatenated
<1> HIDE DEF ev
<1>4. /\ pair \in Seq(A) /\ Len(k) \in Nat /\ Len(pair) = Len(k) + Len(ev)
      /\ \A i \in 1..Len(k) : pair[i] = k[i]
      /\ \A i \in 1..Len(ev) : pair[Len(k) + i] = ev[i]
  <2>1. k \in Seq(A) /\ ev \in Seq(A)
    BY <1>1, <1>3
  <2>2. /\ k \o ev \in Seq(A)
        /\ Len(k) \in Nat /\ Len(ev) \in Nat /\ Len(k \o ev) = Len(k) + Len(ev)
        /\ \A i \in 1..Len(k) : (k \o ev)[i] = k[i]
        /\ \A m \in 1..Len(ev) : (k \o ev)[Len(k) + m] = ev[m]
    BY <2>1, Concatenated
  <2>3. QED
    BY <2>2
<1> DEFINE m == Len(k)
           n == Len(v)
<1> HIDE DEF pair, m, n
<1>5. Len(ev) = 1 + n /\ m \in Nat /\ n \in Nat /\ Len(pair) = m + (1 + n)
  BY <1>2, <1>3, <1>4 DEF m, n
<1>6. pair[m + 1] = e
  <2>1. 1 \in 1..Len(ev) /\ 1 \in 1..Len(o)
    BY <1>2, <1>5
  <2>2. QED
    BY <1>2, <1>3, <1>4, <2>1 DEF m
<1>7. ASSUME NEW i \in 1..n PROVE pair[(m + 1) + i] = v[i]
  <2>1. 1 + i \in 1..Len(ev) /\ m + (1 + i) = (m + 1) + i
    BY <1>5
  <2>2. pair[m + (1 + i)] = ev[1 + i] /\ ev[1 + i] = v[i]
    BY <1>2, <1>3, <1>4, <2>1 DEF m, n
  <2>3. QED
    BY <2>1, <2>2
<1>8. Len(pair) = m + 1 + n
  BY <1>5
<1>9. QED
  BY <1>4, <1>6, <1>7, <1>8 DEF IsBetween, m, n, pair, ev, o

LEMMA TakenApart ==
    ASSUME NEW A, NEW pair, NEW k, NEW v, NEW e, IsBetween(pair, k, e, v)
    PROVE  k \in Seq(A) /\ v \in Seq(A) =>
              /\ SubSeq(pair, 1, Len(k)) = k
              /\ SubSeq(pair, Len(k) + 2, Len(pair)) = v
<1>1. SUFFICES ASSUME k \in Seq(A), v \in Seq(A)
               PROVE  /\ SubSeq(pair, 1, Len(k)) = k
                      /\ SubSeq(pair, Len(k) + 2, Len(pair)) = v
  OBVIOUS
<1> DEFINE m == Len(k)
           n == Len(v)
<1>2. /\ m \in Nat /\ \A i \in 1..m : k[i] \in A
      /\ n \in Nat /\ \A i \in 1..n : v[i] \in A
  BY <1>1
<1> HIDE DEF m, n
<1>3. SubSeq(pair, 0 + 1, 0 + m) = k
  <2>1. \A i \in 1..m : pair[0 + i] = k[i] /\ k[i] \in A
    BY <1>2 DEF IsBetween, m
  <2>2. 0 \in Nat /\ Len(k) = m
    BY DEF m
  <2>3. QED
    BY <1>1, <1>2, <2>1, <2>2, PartIs
<1>4. SubSeq(pair, (m + 1) + 1, (m + 1) + n) = v
  <2>1. \A i \in 1..n : pair[(m + 1) + i] = v[i] /\ v[i] \in A
    BY <1>2 DEF IsBetween, m, n
  <2> DEFINE x == m + 1
  <2>2. x \in Nat /\ Len(v) = n
    BY <1>2 DEF n
  <2> HIDE DEF x
  <2>3. \A i \in 1..n : pair[x + i] = v[i] /\ v[i] \in A
    BY <2>1 DEF x
  <2>4. SubSeq(pair, x + 1, x + n) = v
    BY <1>1, <1>2, <2>2, <2>3, PartIs
  <2>5. QED
    BY <2>4 DEF x
<1>5. 0 + 1 = 1 /\ 0 + m = m /\ (m + 1) + 1 = m + 2 /\ (m + 1) + n = m + 1 + n
  BY <1>2
<1>6. Len(pair) = m + 1 + n
  BY DEF IsBetween, m, n
<1>7. QED
  BY <1>3, <1>4, <1>5, <1>6 DEF m

\* What a field says.
ValueOf(f) == IF f.bare THEN <<>> ELSE MeaningOf(f.value)

\* split_once and urldecode: whatever stands in a key or a value, its "=" comes
\* first, and both are decoded to what is meant.
LEMMA FieldTaken ==
    ASSUME NEW f, IsField(f)
    PROVE  LET kv == KeyAndValue(FieldOnWire(f))
           IN  /\ UrlDecode(kv.key) = MeaningOf(f.key)
               /\ UrlDecode(kv.value) = ValueOf(f)
<1> DEFINE pair == FieldOnWire(f)
           k == WireOf(f.key)
           v == WireOf(f.value)
           I == {i \in 1..Len(pair) : pair[i] = Equals}
<1>1. WellWritten(f.key) /\ WellWritten(f.value) /\ f.bare \in BOOLEAN
  BY DEF IsField
<1>2. k \in Seq(Clean) /\ v \in Seq(Clean)
  BY <1>1, TextTyped
<1>3. UrlDecode(k) = MeaningOf(f.key) /\ UrlDecode(v) = MeaningOf(f.value)
  BY <1>1, TextDecoded
<1>4. Equals \notin Clean /\ Equals \in Nat /\ Clean \subseteq Nat
  BY DEF Clean, Equals
<1>5. pair = k \o (IF f.bare THEN <<>> ELSE <<Equals>> \o v)
  BY DEF FieldOnWire
<1>6. KeyAndValue(pair) = LET i == IF I # {} THEN Min(I) ELSE 0
                          IN  IF i = 0 THEN [key |-> pair, value |-> <<>>]
                              ELSE [key |-> SubSeq(pair, 1, i - 1),
                                    value |-> SubSeq(pair, i + 1, Len(pair))]
  BY DEF KeyAndValue, SelectInSeq
<1> HIDE DEF k, v
<1>7. CASE f.bare
  <2>1. pair = k
    <3>1. pair = k \o <<>>
      BY <1>5, <1>7
    <3>2. k \o <<>> = k
      BY <1>2, ConcatEmptySeq
    <3>3. QED
      BY <3>1, <3>2
  <2> HIDE DEF pair
  <2>2. I = {}
    <3>1. \A i \in 1..Len(k) : k[i] \in Clean
      BY <1>2
    <3>2. QED
      BY <1>4, <2>1, <3>1
  <2> HIDE DEF I
  <2>3. KeyAndValue(pair) = [key |-> pair, value |-> <<>>]
    BY <1>6, <2>2
  <2>4. QED
    BY <1>3, <1>7, <2>1, <2>3, NothingDecoded DEF ValueOf, pair
<1>8. CASE ~f.bare
  <2>1. pair = k \o (<<Equals>> \o v)
    BY <1>5, <1>8
  <2> HIDE DEF pair
  <2>2. k \in Seq(Nat) /\ v \in Seq(Nat)
    BY <1>2, <1>4, SeqMonotonic
  <2>3. IsBetween(pair, k, Equals, v)
    BY <1>4, <2>1, <2>2, Between
  <2> DEFINE m == Len(k) + 1
  <2>4. Len(k) \in Nat /\ Len(v) \in Nat /\ m \in Nat /\ m # 0 /\ m - 1 = Len(k) /\ m + 1 = Len(k) + 2
    BY <2>2
  <2>5. m \in I /\ \A i \in I : m <= i
    <3>1. m \in 1..Len(pair) /\ pair[m] = Equals
      BY <2>3, <2>4 DEF IsBetween
    <3>2. ASSUME NEW i \in 1..Len(pair), pair[i] = Equals, ~(m <= i) PROVE FALSE
      <4>1. i \in 1..Len(k)
        BY <2>4, <3>2
      <4>2. pair[i] = k[i] /\ k[i] \in Clean
        BY <1>2, <2>3, <4>1 DEF IsBetween
      <4>3. QED
        BY <1>4, <3>2, <4>2
    <3>3. QED
      BY <3>1, <3>2
  <2>6. Min(I) = m
    <3>1. \A i \in I : i \in Int
      OBVIOUS
    <3> HIDE DEF I, m
    <3>2. \A x \in I : (\A y \in I : x <= y) => x = m
      BY <2>4, <2>5, <3>1
    <3>3. Min(I) \in I /\ \A y \in I : Min(I) <= y
      BY <2>5 DEF Min
    <3>4. QED
      BY <3>2, <3>3
  <2>7. I # {}
    BY <2>5
  <2> HIDE DEF I, m
  <2>8. KeyAndValue(pair) =
            [key |-> SubSeq(pair, 1, m - 1), value |-> SubSeq(pair, m + 1, Len(pair))]
    BY <1>6, <2>4, <2>6, <2>7
  <2>9. SubSeq(pair, 1, Len(k)) = k /\ SubSeq(pair, Len(k) + 2, Len(pair)) = v
    BY <2>2, <2>3, TakenApart
  <2>10. KeyAndValue(pair) = [key |-> k, value |-> v]
    BY <2>4, <2>8, <2>9
  <2>11. QED
    BY <1>3, <1>8, <2>10 DEF ValueOf, pair
<1>9. QED
  BY <1>1, <1>7, <1>8

\* A field has no "&" of its own.
NoAmpersand == Nat \ {Ampersand}

LEMMA FieldTyped ==
    ASSUME NEW f, IsField(f)
    PROVE  FieldOnWire(f) \in Seq(NoAmpersand) /\ ValueOf(f) \in Seq(Nat)
<1> DEFINE k == WireOf(f.key)
           v == WireOf(f.value)
<1>1. WellWritten(f.key) /\ WellWritten(f.value) /\ f.bare \in BOOLEAN
  BY DEF IsField
<1>2. k \in Seq(Clean) /\ v \in Seq(Clean) /\ MeaningOf(f.value) \in Seq(Nat)
  BY <1>1, TextTyped
<1>3. Clean \subseteq NoAmpersand /\ Equals \in NoAmpersand
  BY DEF Clean, NoAmpersand, Equals, Ampersand
<1>4. FieldOnWire(f) = k \o (IF f.bare THEN <<>> ELSE <<Equals>> \o v)
  BY DEF FieldOnWire
<1> HIDE DEF k, v
<1>5. k \in Seq(NoAmpersand) /\ v \in Seq(NoAmpersand)
  BY <1>2, <1>3, SeqMonotonic
<1>6. k \o (<<Equals>> \o v) \in Seq(NoAmpersand)
  BY <1>3, <1>5, Between
<1>7. k \o <<>> \in Seq(NoAmpersand)
  BY <1>5, ConcatEmptySeq
<1>8. ValueOf(f) \in Seq(Nat)
  BY <1>2 DEF ValueOf
<1>9. QED
  BY <1>4, <1>6, <1>7, <1>8

-----------------------------------------------------------------------------
(* Splitting at "&", unrolled *)

\* The body of the loop in Split.
Take(parts, b) ==
    IF b = Ampersand THEN Append(parts, <<>>)
    ELSE [parts EXCEPT ![Len(parts)] = Append(@, b)]

\* a[k] is the parts of the first k bytes of s.
Splits(a, s) ==
    /\ a[0] = << <<>> >>
    /\ \A k \in 0..(Len(s) - 1) : a[k + 1] = Take(a[k], s[k + 1])
    /\ Split(s, Ampersand) = a[Len(s)]

LEMMA TakeTyped ==
    ASSUME NEW parts, NEW b \in Nat
    PROVE  parts \in Seq(Seq(Nat)) \ {<<>>} => Take(parts, b) \in Seq(Seq(Nat)) \ {<<>>}
<1> DEFINE S == Seq(Nat)
<1>1. SUFFICES ASSUME parts \in Seq(S) \ {<<>>} PROVE Take(parts, b) \in Seq(S) \ {<<>>}
  OBVIOUS
<1>2. <<>> \in S /\ \A x \in S : Append(x, b) \in S
  OBVIOUS
<1> HIDE DEF S
<1>3. Len(parts) \in 1..Len(parts)
  BY <1>1, EmptySeq
<1>4. parts[Len(parts)] \in S
  BY <1>1, <1>3, ElementOfSeq
<1>5. CASE b = Ampersand
  BY <1>1, <1>2, <1>5, AppendProperties DEF Take
<1>6. CASE b # Ampersand
  <2> DEFINE n == Len(parts)
             e == Append(parts[n], b)
             new == [parts EXCEPT ![n] = e]
  <2>1. e \in S
    BY <1>2, <1>4
  <2>2. Take(parts, b) = new
    BY <1>6 DEF Take
  <2>3. n \in Nat \ {0}
    BY <1>1, EmptySeq
  <2> HIDE DEF e
  <2>4. new \in Seq(S) /\ Len(new) = n
    BY <1>1, <1>3, <2>1, ExceptSeq
  <2> HIDE DEF new, n
  <2>5. new # <<>>
    BY <2>3, <2>4
  <2>6. QED
    BY <2>2, <2>4, <2>5
<1>7. QED
  BY <1>5, <1>6

LEMMA SplitUnrolled ==
    ASSUME NEW s, s \in Seq(Nat)
    PROVE  \E a : Splits(a, s)
<1> DEFINE n == Len(s)
           base == << <<>> >>
           Eq(g) == g = [t \in SUBSET (1..n) |->
                            IF t = {} THEN base
                            ELSE Take(g[t \ {Max(t)}], s[Max(t)])]
           g == CHOOSE g : Eq(g)
           A == Seq(Seq(Nat)) \ {<<>>}
           step == [p \in (1..n) \X A |-> Take(p[2], s[p[1]])]
<1>1. n \in Nat /\ DOMAIN s = 1..n /\ \A i \in 1..n : s[i] \in Nat
  OBVIOUS
<1>2. Split(s, Ampersand) = g[1..n]
  BY <1>1 DEF Split, FoldLeft, MapThenFoldSet, Take
<1>3. base \in A
  <2> DEFINE S == Seq(Nat)
             e == <<>>
  <2>1. e \in S
    OBVIOUS
  <2> HIDE DEF S, e
  <2>2. <<e>> \in Seq(S) /\ Len(<<e>>) = 1
    BY <2>1
  <2>3. <<e>> # <<>>
    BY <2>2
  <2>4. QED
    BY <2>2, <2>3 DEF S, e
<1>4. step \in [(1..n) \X A -> A]
  <2>1. ASSUME NEW i \in 1..n, NEW parts \in A PROVE Take(parts, s[i]) \in A
    BY <1>1, TakeTyped
  <2> HIDE DEF A
  <2>2. QED
    BY <2>1
<1>5. \E f : Eq(f)
  <2> HIDE DEF A, step, base
  <2>1. PICK f \in [SUBSET (1..n) -> A] : IsFold(f, n, base, step)
    BY <1>1, <1>3, <1>4, FoldExists
  <2>2. ASSUME NEW t \in SUBSET (1..n), t # {}
        PROVE  step[<<Max(t), f[t \ {Max(t)}]>>] = Take(f[t \ {Max(t)}], s[Max(t)])
    <3>1. Max(t) \in 1..n
      BY <1>1, <2>2, LastIndex
    <3>2. f[t \ {Max(t)}] \in A
      BY <2>1
    <3> HIDE DEF n
    <3>3. QED
      BY <3>1, <3>2 DEF step
  <2>3. Eq(f)
    <3> HIDE DEF n
    <3>1. QED
      BY <2>1, <2>2 DEF IsFold
  <2>4. QED
    BY <2>3
<1>6. Eq(g)
  BY <1>5
<1> HIDE DEF g, base
<1>7. g[1..0] = base
  <2>1. 1..0 = {} /\ 1..0 \in SUBSET (1..n)
    OBVIOUS
  <2>2. QED
    BY <1>6, <2>1
<1>8. ASSUME NEW k \in 0..(n - 1) PROVE g[1..(k + 1)] = Take(g[1..k], s[k + 1])
  <2>1. k \in Nat /\ k + 1 \in 1..(k + 1) /\ 1..(k + 1) \in SUBSET (1..n)
    BY <1>1
  <2>2. Max(1..(k + 1)) = k + 1 /\ (1..(k + 1)) \ {k + 1} = 1..k
    BY <2>1, LastOfAll
  <2> HIDE DEF n
  <2>3. QED
    BY <1>6, <2>1, <2>2
<1> DEFINE a == [k \in 0..n |-> g[1..k]]
<1>9. a[0] = << <<>> >>
  BY <1>1, <1>7 DEF base
<1>10. Split(s, Ampersand) = a[n]
  BY <1>1, <1>2 DEF g
<1>11. ASSUME NEW k \in 0..(n - 1) PROVE a[k + 1] = Take(a[k], s[k + 1])
  <2>1. k \in 0..n /\ k + 1 \in 0..n
    BY <1>1
  <2>2. QED
    BY <1>8, <2>1
<1> HIDE DEF a, n
<1>12. Splits(a, s)
  BY <1>9, <1>10, <1>11 DEF Splits, n
<1>13. QED
  BY <1>12

LEMMA Longer ==
    ASSUME NEW A, NEW w, NEW j \in Nat
    PROVE  w \in Seq(A) /\ j + 1 <= Len(w) =>
              /\ SubSeq(w, 1, j) \in Seq(A) /\ w[j + 1] \in A
              /\ SubSeq(w, 1, j + 1) = Append(SubSeq(w, 1, j), w[j + 1])
<1> SUFFICES ASSUME w \in Seq(A), j + 1 <= Len(w)
             PROVE  /\ SubSeq(w, 1, j) \in Seq(A) /\ w[j + 1] \in A
                    /\ SubSeq(w, 1, j + 1) = Append(SubSeq(w, 1, j), w[j + 1])
  OBVIOUS
<1>1. j + 1 \in 1..Len(w) /\ 1 \in 1..Len(w) /\ j + 1 \in 1..Len(w) /\ (j + 1) - 1 = j
  OBVIOUS
<1>2. w[j + 1] \in A /\ \A i \in 1..j : w[i] \in A
  BY <1>1
<1>3. SubSeq(w, 1, j) \in Seq(A)
  BY <1>2, SubSeqProperties
<1>4. SubSeq(w, 1, j + 1) = SubSeq(w, 1, j) \o <<w[j + 1]>>
  <2>1. SubSeq(w, 1, j + 1) = SubSeq(w, 1, (j + 1) - 1) \o <<w[j + 1]>>
    BY <1>1, SubSeqRecursiveSecond
  <2>2. QED
    BY <1>1, <2>1
<1>5. Append(SubSeq(w, 1, j), w[j + 1]) = SubSeq(w, 1, j) \o <<w[j + 1]>>
  BY <1>2, <1>3, AppendIsConcat
<1>6. QED
  BY <1>2, <1>3, <1>4, <1>5

LEMMA TakeByte ==
    ASSUME NEW done, NEW u, NEW b \in Nat, b # Ampersand
    PROVE  done \in Seq(Seq(Nat)) /\ u \in Seq(Nat) =>
              Take(Append(done, u), b) = Append(done, Append(u, b))
<1> DEFINE S == Seq(Nat)
           old == Append(done, u)
           e == Append(u, b)
           new == Append(done, e)
           m == Len(done) + 1
<1>1. SUFFICES ASSUME done \in Seq(S), u \in S PROVE Take(old, b) = new
  OBVIOUS
<1>2. e \in S
  BY <1>1
<1> HIDE DEF S, e
<1>3. /\ old \in Seq(S) /\ Len(old) = m /\ old[m] = u
      /\ \A i \in 1..Len(done) : old[i] = done[i]
  BY <1>1, AppendProperties
<1>4. /\ new \in Seq(S) /\ Len(new) = m /\ new[m] = e
      /\ \A i \in 1..Len(done) : new[i] = done[i]
  BY <1>1, <1>2, AppendProperties
<1>5. Len(done) \in Nat
  BY <1>1
<1> DEFINE x == [old EXCEPT ![m] = e]
<1>6. Take(old, b) = x
  <2>1. Take(old, b) = [old EXCEPT ![m] = Append(old[m], b)]
    <3> HIDE DEF old, m
    <3>1. QED
      BY <1>3 DEF Take
  <2>2. Append(old[m], b) = e
    BY <1>3 DEF e
  <2>3. QED
    BY <2>1, <2>2
<1> HIDE DEF old, new
<1>7. /\ x \in Seq(S) /\ Len(x) = Len(old)
      /\ \A i \in 1..Len(old) : x[i] = IF i = m THEN e ELSE old[i]
  <2>1. m \in 1..Len(old)
    BY <1>3, <1>5
  <2> HIDE DEF m
  <2>2. QED
    BY <1>2, <1>3, <2>1, ExceptSeq
<1> HIDE DEF x
<1>8. \A i \in 1..Len(x) : x[i] = new[i]
  <2>1. ASSUME NEW i \in 1..Len(x) PROVE i = m \/ i \in 1..Len(done)
    BY <1>3, <1>5, <1>7
  <2>2. ASSUME NEW i \in 1..Len(x), i # m PROVE i \in 1..Len(done) /\ i \in 1..Len(old)
    BY <1>7, <2>1, <2>2
  <2> HIDE DEF m
  <2>3. QED
    BY <1>3, <1>4, <1>7, <2>1, <2>2
<1>9. x = new
  BY <1>3, <1>4, <1>7, <1>8, SeqEqual
<1>10. QED
  BY <1>6, <1>9

LEMMA SplitsField ==
    ASSUME NEW s, NEW a, Splits(a, s), Len(s) \in Nat, NEW x \in Nat,
           NEW done, NEW w, a[x] = Append(done, <<>>), Holds(s, x, w)
    PROVE  done \in Seq(Seq(Nat)) /\ w \in Seq(NoAmpersand) => a[x + Len(w)] = Append(done, w)
<1>1. SUFFICES ASSUME done \in Seq(Seq(Nat)), w \in Seq(NoAmpersand)
               PROVE  a[x + Len(w)] = Append(done, w)
  OBVIOUS
<1> DEFINE n == Len(w)
           u(j) == SubSeq(w, 1, j)
           Good == {j \in 0..n : a[x + j] = Append(done, u(j))}
<1>2. n \in Nat /\ w \in Seq(Nat) /\ \A i \in 1..n : w[i] \in NoAmpersand
  <2>1. NoAmpersand \subseteq Nat
    BY DEF NoAmpersand
  <2>2. w \in Seq(Nat)
    BY <1>1, <2>1, SeqMonotonic
  <2>3. QED
    BY <1>1, <2>2
<1>3. x + n <= Len(s) /\ \A i \in 1..n : s[x + i] = w[i]
  BY DEF Holds
<1>4. 0 \in Good
  <2>1. u(0) = <<>> /\ x + 0 = x /\ 0 \in 0..n
    BY <1>2, SubSeqEmpty
  <2> HIDE DEF u, n
  <2>2. a[x + 0] = Append(done, u(0))
    BY <2>1
  <2>3. QED
    BY <2>1, <2>2
<1>5. ASSUME NEW j \in 0..(n - 1), j \in Good PROVE j + 1 \in Good
  <2>1. /\ j \in Nat /\ j + 1 \in 1..n /\ j + 1 \in 0..n /\ j + 1 <= Len(w)
        /\ x + j \in 0..(Len(s) - 1) /\ (x + j) + 1 = x + (j + 1)
    BY <1>2, <1>3
  <2>2. u(j) \in Seq(Nat) /\ u(j + 1) = Append(u(j), w[j + 1])
    BY <1>2, <2>1, Longer
  <2>3. a[(x + j) + 1] = Take(a[x + j], s[(x + j) + 1])
    BY <2>1 DEF Splits
  <2>4. s[(x + j) + 1] = w[j + 1] /\ w[j + 1] \in Nat /\ w[j + 1] # Ampersand
    <3>1. w[j + 1] \in NoAmpersand
      BY <1>2, <2>1
    <3>2. QED
      BY <1>3, <2>1, <3>1 DEF NoAmpersand
  <2> HIDE DEF n
  <2>5. a[x + j] = Append(done, u(j))
    BY <1>5
  <2> HIDE DEF u
  <2>6. Take(Append(done, u(j)), w[j + 1]) = Append(done, Append(u(j), w[j + 1]))
    BY <1>1, <2>2, <2>4, TakeByte
  <2>7. a[x + (j + 1)] = Append(done, u(j + 1))
    BY <2>1, <2>2, <2>3, <2>4, <2>5, <2>6
  <2>8. QED
    BY <2>1, <2>7
<1>6. n \in Good
  <2>1. n \in 0..n
    BY <1>2
  <2> HIDE DEF Good
  <2>2. QED
    BY <1>2, <1>4, <1>5, <2>1, UpTo
<1>7. u(n) = w
  BY <1>1, SubSeqFull
<1>8. QED
  BY <1>6, <1>7

\* A field with what separates it from the one before it.
LEMMA Separated ==
    ASSUME NEW A, NEW e \in A, NEW w
    PROVE  w \in Seq(A) =>
              /\ <<>> \o w = w
              /\ <<e>> \o w \in Seq(A)
              /\ Len(w) \in Nat /\ Len(<<e>> \o w) = 1 + Len(w)
              /\ (<<e>> \o w)[1] = e
              /\ \A m \in 1..Len(w) : (<<e>> \o w)[1 + m] = w[m]
<1>1. SUFFICES ASSUME w \in Seq(A)
               PROVE  /\ <<>> \o w = w
                      /\ <<e>> \o w \in Seq(A)
                      /\ Len(w) \in Nat /\ Len(<<e>> \o w) = 1 + Len(w)
                      /\ (<<e>> \o w)[1] = e
                      /\ \A m \in 1..Len(w) : (<<e>> \o w)[1 + m] = w[m]
  OBVIOUS
<1> DEFINE o == <<e>>
<1>2. o \in Seq(A) /\ Len(o) = 1 /\ o[1] = e /\ 1 \in 1..1
  OBVIOUS
<1> HIDE DEF o
<1>3. /\ o \o w \in Seq(A)
      /\ Len(w) \in Nat /\ Len(o \o w) = Len(o) + Len(w)
      /\ \A i \in 1..Len(o) : (o \o w)[i] = o[i]
      /\ \A m \in 1..Len(w) : (o \o w)[Len(o) + m] = w[m]
  <2>1. o \in Seq(A) /\ w \in Seq(A)
    BY <1>1, <1>2
  <2>2. /\ o \o w \in Seq(A)
        /\ Len(o) \in Nat /\ Len(w) \in Nat /\ Len(o \o w) = Len(o) + Len(w)
        /\ \A i \in 1..Len(o) : (o \o w)[i] = o[i]
        /\ \A m \in 1..Len(w) : (o \o w)[Len(o) + m] = w[m]
    BY <2>1, Concatenated
  <2>3. QED
    BY <2>2
<1>4. <<>> \o w = w
  BY <1>1, ConcatEmptySeq
<1>5. QED
  BY <1>2, <1>3, <1>4 DEF o

\* str::split gives back what was joined with "&" between.
LEMMA SplitJoined ==
    ASSUME NEW wires, Len(wires) # 0,
           NEW parts, parts = [i \in 1..Len(wires) |->
                                  (IF i = 1 THEN <<>> ELSE <<Ampersand>>) \o wires[i]]
    PROVE  wires \in Seq(Seq(NoAmpersand)) => Split(FlattenSeq(parts), Ampersand) = wires
<1>1. SUFFICES ASSUME wires \in Seq(Seq(NoAmpersand))
               PROVE  Split(FlattenSeq(parts), Ampersand) = wires
  OBVIOUS
<1> DEFINE n == Len(wires)
           s == FlattenSeq(parts)
           S == Seq(Nat)
           Done(k) == SubSeq(wires, 1, k)
<1>2. n \in Nat \ {0} /\ DOMAIN wires = 1..n /\ \A i \in 1..n : wires[i] \in Seq(NoAmpersand)
  BY <1>1
<1>3. ASSUME NEW i \in 1..n PROVE wires[i] \in S
  <2>1. NoAmpersand \subseteq Nat
    BY DEF NoAmpersand
  <2>2. QED
    BY <1>2, <2>1, SeqMonotonic
<1>4. /\ 1 \in 1..n /\ parts[1] = <<>> \o wires[1]
      /\ \A i \in 1..n : i # 1 => parts[i] = <<Ampersand>> \o wires[i]
      /\ parts = [i \in 1..n |-> parts[i]]
  BY <1>2
<1> HIDE DEF S
<1>5. parts[1] = wires[1]
  <2>1. Ampersand \in Nat /\ wires[1] \in Seq(Nat)
    BY <1>3, <1>4 DEF Ampersand, S
  <2>2. QED
    BY <1>4, <2>1, Separated
<1>6. ASSUME NEW i \in 1..n, i # 1
      PROVE  /\ parts[i] \in S /\ Len(wires[i]) \in Nat /\ Len(parts[i]) = 1 + Len(wires[i])
             /\ parts[i][1] = Ampersand
             /\ \A m \in 1..Len(wires[i]) : parts[i][1 + m] = wires[i][m]
  <2>1. parts[i] = <<Ampersand>> \o wires[i] /\ wires[i] \in Seq(Nat)
    BY <1>3, <1>4, <1>6 DEF S
  <2>2. Ampersand \in Nat
    BY DEF Ampersand
  <2> DEFINE w == wires[i]
             e == Ampersand
  <2>3. w \in Seq(Nat) /\ e \in Nat
    BY <2>1, <2>2
  <2> HIDE DEF w, e
  <2>4. /\ <<e>> \o w \in Seq(Nat) /\ Len(w) \in Nat /\ Len(<<e>> \o w) = 1 + Len(w)
        /\ (<<e>> \o w)[1] = e
        /\ \A m \in 1..Len(w) : (<<e>> \o w)[1 + m] = w[m]
    BY <2>3, Separated
  <2>5. QED
    BY <2>1, <2>4 DEF S, w, e
<1>7. wires \in Seq(S) /\ parts \in Seq(S) /\ Len(parts) = n
  <2>1. \A i \in 1..n : parts[i] \in S
    BY <1>3, <1>5, <1>6
  <2>2. wires = [i \in 1..n |-> wires[i]]
    BY <1>1
  <2>3. n \in Nat /\ \A i \in 1..n : wires[i] \in S
    BY <1>2, <1>3
  <2> HIDE DEF n
  <2>4. ASSUME NEW x, x = [i \in 1..n |-> x[i]], \A i \in 1..n : x[i] \in S
        PROVE  x \in Seq(S) /\ Len(x) = n
    BY <2>3, <2>4
  <2>5. QED
    BY <1>4, <2>1, <2>2, <2>3, <2>4
<1> HIDE DEF s
<1>8. PICK p \in [0..n -> S] : IsLaid(p, parts, s)
  <2>1. parts \in Seq(Seq(Nat)) /\ Len(parts) = n
    BY <1>7 DEF S
  <2> HIDE DEF n
  <2>2. \E p \in [0..Len(parts) -> Seq(Nat)] : IsLaid(p, parts, FlattenSeq(parts))
    BY <2>1, LaidOut
  <2>3. QED
    BY <2>1, <2>2 DEF S, s
<1>9. s \in S /\ Len(s) \in Nat /\ s = p[n]
  <2>1. n \in 0..n /\ s = p[n]
    BY <1>2, <1>7, <1>8 DEF IsLaid
  <2>2. s \in S
    BY <1>8, <2>1
  <2>3. QED
    BY <2>1, <2>2 DEF S
<1>10. PICK a : Splits(a, s)
  BY <1>9, SplitUnrolled DEF S
<1> DEFINE Good == {k \in 0..n : k # 0 => a[Len(p[k])] = Done(k)}
<1> HIDE DEF s, Done, n
<1>11. ASSUME NEW k \in 0..(n - 1), k \in Good PROVE k + 1 \in Good
  <2> DEFINE x == Len(p[k])
             w == wires[k + 1]
             l == Len(w)
  <2>1. k \in Nat /\ k + 1 \in 1..n /\ k + 1 \in 0..n /\ k \in 0..n /\ k + 1 <= n
    BY <1>2
  <2>2. p[k] \in S /\ w \in S /\ l \in Nat /\ x \in Nat
    BY <1>3, <1>8, <2>1 DEF S
  <2>3. /\ Len(p[k + 1]) = x + Len(parts[k + 1]) /\ Len(p[k + 1]) <= Len(s)
        /\ \A m \in 1..Len(parts[k + 1]) : s[x + m] = parts[k + 1][m]
    BY <1>7, <1>8, <2>1 DEF IsLaid, IsNext
  <2>4. Done(k) \in Seq(S) /\ Done(k + 1) = Append(Done(k), w)
    BY <1>7, <2>1, Longer DEF Done, n
  <2>5. w \in Seq(NoAmpersand)
    BY <1>2, <2>1
  <2> HIDE DEF x, w, Good
  <2>6. a[Len(p[k + 1])] = Append(Done(k), w)
    <3>1. CASE k = 0
      <4>1. x = 0
        BY <1>8, <3>1 DEF IsLaid, x
      <4>2. Done(k) = <<>> /\ Append(<<>>, <<>>) = << <<>> >>
        BY <3>1, SubSeqEmpty DEF Done
      <4>3. a[x] = Append(Done(k), <<>>)
        BY <1>10, <4>1, <4>2 DEF Splits
      <4>4. parts[k + 1] = w
        BY <1>5, <3>1 DEF w
      <4>5. Holds(s, x, w)
        BY <2>3, <4>4 DEF Holds
      <4>6. a[x + Len(w)] = Append(Done(k), w)
        BY <1>9, <1>10, <2>2, <2>4, <2>5, <4>3, <4>5, SplitsField DEF S
      <4>7. QED
        BY <2>3, <4>4, <4>6
    <3>2. CASE k # 0
      <4>1. /\ Len(parts[k + 1]) = 1 + l /\ parts[k + 1][1] = Ampersand
            /\ \A m \in 1..l : parts[k + 1][1 + m] = w[m]
        <5>1. k + 1 # 1
          BY <2>1, <3>2
        <5>2. QED
          BY <1>6, <2>1, <5>1 DEF w
      <4> HIDE DEF l
      <4>2. /\ 1 \in 1..(1 + l) /\ x \in 0..(Len(s) - 1) /\ (x + 1) + l = x + (1 + l)
            /\ x + 1 \in Nat
        <5>1. x + (1 + l) <= Len(s)
          BY <2>3, <4>1
        <5>2. QED
          BY <1>9, <2>2, <5>1
      <4>3. s[x + 1] = Ampersand
        BY <2>3, <4>1, <4>2
      <4>4. a[x] = Done(k)
        BY <1>11, <3>2 DEF Good, x
      <4>5. a[x + 1] = Append(Done(k), <<>>)
        BY <1>10, <4>2, <4>3, <4>4 DEF Splits, Take
      <4>6. Holds(s, x + 1, w)
        <5>1. ASSUME NEW m \in 1..l PROVE s[(x + 1) + m] = w[m]
          <6>1. 1 + m \in 1..(1 + l) /\ (x + 1) + m = x + (1 + m)
            BY <2>2
          <6>2. QED
            BY <2>3, <4>1, <6>1
        <5>2. QED
          BY <2>3, <4>1, <4>2, <5>1 DEF Holds, l
      <4> DEFINE y == x + 1
      <4>7. y \in Nat /\ a[y] = Append(Done(k), <<>>) /\ Holds(s, y, w)
        BY <4>2, <4>5, <4>6
      <4> HIDE DEF y
      <4>8. a[y + Len(w)] = Append(Done(k), w)
        BY <1>9, <1>10, <2>4, <2>5, <4>7, SplitsField DEF S
      <4>9. QED
        BY <2>3, <4>1, <4>2, <4>8 DEF y, l
    <3>3. QED
      BY <3>1, <3>2
  <2>7. QED
    BY <2>1, <2>4, <2>6 DEF Good
<1>12. n \in Good
  <2>1. n \in 0..n /\ 0 \in Good /\ n \in Nat
    BY <1>2
  <2> HIDE DEF Good
  <2>2. QED
    BY <1>11, <2>1, UpTo
<1>13. Done(n) = wires
  BY <1>1, SubSeqFull DEF Done, n
<1>14. a[Len(s)] = wires
  BY <1>2, <1>9, <1>12, <1>13
<1>15. QED
  BY <1>10, <1>14 DEF Splits, s

\* The query on the wire is taken apart into its fields; an empty one into one
\* empty pair.
LEMMA SplitQuery ==
    ASSUME NEW fields, \A i \in DOMAIN fields : IsField(fields[i])
    PROVE  fields \in Seq(ToSet(fields)) =>
              Split(QueryOnWire(fields), Ampersand) =
                  IF Len(fields) = 0 THEN << <<>> >>
                  ELSE [i \in 1..Len(fields) |-> FieldOnWire(fields[i])]
<1>1. SUFFICES ASSUME fields \in Seq(ToSet(fields))
               PROVE  Split(QueryOnWire(fields), Ampersand) =
                          IF Len(fields) = 0 THEN << <<>> >>
                          ELSE [i \in 1..Len(fields) |-> FieldOnWire(fields[i])]
  OBVIOUS
<1> DEFINE n == Len(fields)
           wires == [i \in 1..n |-> FieldOnWire(fields[i])]
           parts == [i \in 1..n |-> (IF i = 1 THEN <<>> ELSE <<Ampersand>>) \o wires[i]]
<1>2. n \in Nat /\ DOMAIN fields = 1..n
  BY <1>1
<1>3. QueryOnWire(fields) = FlattenSeq(parts)
  <2>1. parts = [i \in DOMAIN fields |->
                    (IF i = 1 THEN <<>> ELSE <<Ampersand>>) \o FieldOnWire(fields[i])]
    BY <1>2
  <2>2. QED
    BY <2>1 DEF QueryOnWire
<1>4. wires \in Seq(Seq(NoAmpersand)) /\ Len(wires) = n
  <2> DEFINE S == Seq(NoAmpersand)
  <2>1. \A i \in 1..n : FieldOnWire(fields[i]) \in S
    BY <1>2, FieldTyped
  <2> HIDE DEF S, n
  <2>2. wires \in Seq(S) /\ Len(wires) = n
    BY <1>2, <2>1
  <2>3. QED
    BY <2>2 DEF S
<1>5. CASE n = 0
  <2>1. Split(<<>>, Ampersand) = << <<>> >>
    <3> DEFINE e == <<>>
    <3>1. e \in Seq(Nat) /\ Len(e) = 0
      OBVIOUS
    <3> HIDE DEF e
    <3>2. PICK a : Splits(a, e)
      BY <3>1, SplitUnrolled
    <3>3. Split(e, Ampersand) = << <<>> >>
      BY <3>1, <3>2 DEF Splits
    <3>4. QED
      BY <3>3 DEF e
  <2>2. FlattenSeq(parts) = <<>>
    <3>1. parts = <<>>
      BY <1>5
    <3> HIDE DEF parts
    <3> DEFINE e == <<>>
               S == Seq(Nat)
    <3>2. e \in Seq(S) /\ Len(e) = 0
      OBVIOUS
    <3> HIDE DEF e
    <3>3. FlattenSeq(e) = <<>>
      BY <3>2, EmptyFlattened DEF S
    <3>4. QED
      BY <3>1, <3>3 DEF e
  <2>3. QED
    BY <1>3, <1>5, <2>1, <2>2
<1>6. CASE n # 0
  <2>1. parts = [i \in 1..Len(wires) |-> (IF i = 1 THEN <<>> ELSE <<Ampersand>>) \o wires[i]]
    BY <1>4
  <2>2. Len(wires) # 0
    BY <1>4, <1>6
  <2> HIDE DEF wires, parts
  <2>3. Split(FlattenSeq(parts), Ampersand) = wires
    BY <1>4, <2>1, <2>2, SplitJoined
  <2>4. QED
    BY <1>3, <1>6, <2>3 DEF wires
<1>7. QED
  BY <1>5, <1>6

-----------------------------------------------------------------------------
(* The map of the parameters, unrolled *)

\* The body of the loop in ParseQuery.
Enter(map, pair) ==
    IF pair = <<>> THEN map
    ELSE Entered(map, UrlDecode(KeyAndValue(pair).key), UrlDecode(KeyAndValue(pair).value))

\* a[k] is the map after k pairs.
Enters(a, pairs) ==
    a[0] = <<>> /\ \A k \in 0..(Len(pairs) - 1) : a[k + 1] = Enter(a[k], pairs[k + 1])

\* Maps of some of the keys.
MapsOf(keys) == UNION {[d -> Seq(Nat)] : d \in SUBSET keys}

LEMMA EnterTyped ==
    ASSUME NEW keys, NEW map \in MapsOf(keys), NEW k \in keys, NEW v
    PROVE  v \in Seq(Nat) => Entered(map, k, v) \in MapsOf(keys)
<1>1. SUFFICES ASSUME v \in Seq(Nat) PROVE Entered(map, k, v) \in MapsOf(keys)
  OBVIOUS
<1>2. PICK d \in SUBSET keys : map \in [d -> Seq(Nat)]
  BY DEF MapsOf
<1> DEFINE S == Seq(Nat)
<1>3. ASSUME k \in d PROVE (map[k] \o <<Comma>>) \o v \in S
  <2>1. map[k] \in Seq(Nat) /\ <<Comma>> \in Seq(Nat)
    BY <1>2, <1>3 DEF Comma
  <2>2. QED
    BY <1>1, <2>1, ConcatProperties
<1>4. v \in S /\ map \in [d -> S]
  BY <1>1, <1>2
<1> HIDE DEF S
<1>5. Entered(map, k, v) \in [d \cup {k} -> S]
  BY <1>3, <1>4 DEF Entered
<1>6. d \cup {k} \in SUBSET keys
  OBVIOUS
<1>7. QED
  BY <1>5, <1>6 DEF MapsOf, S

LEMMA ParseUnrolled ==
    ASSUME NEW qs, NEW pairs, Split(qs, Ampersand) = pairs, Len(pairs) \in Nat,
           DOMAIN pairs = 1..Len(pairs),
           \A i \in 1..Len(pairs) :
              pairs[i] # <<>> => UrlDecode(KeyAndValue(pairs[i]).value) \in Seq(Nat)
    PROVE  \E a : Enters(a, pairs) /\ ParseQuery(qs) = a[Len(pairs)]
<1> DEFINE n == Len(pairs)
           base == <<>>
           Eq(g) == g = [t \in SUBSET (1..n) |->
                            IF t = {} THEN base
                            ELSE Enter(g[t \ {Max(t)}], pairs[Max(t)])]
           g == CHOOSE g : Eq(g)
           keys == {UrlDecode(KeyAndValue(pairs[i]).key) : i \in 1..n}
           A == MapsOf(keys)
           step == [p \in (1..n) \X A |-> Enter(p[2], pairs[p[1]])]
<1>1. n \in Nat /\ DOMAIN pairs = 1..n
  OBVIOUS
<1>2. ParseQuery(qs) = g[1..n]
  BY <1>1 DEF ParseQuery, FoldLeft, MapThenFoldSet, Enter
<1>3. base \in A
  <2>1. base \in [{} -> Seq(Nat)] /\ {} \in SUBSET keys
    OBVIOUS
  <2> HIDE DEF base, keys
  <2>2. QED
    BY <2>1 DEF MapsOf
<1>4. step \in [(1..n) \X A -> A]
  <2>1. ASSUME NEW i \in 1..n, NEW map \in A PROVE Enter(map, pairs[i]) \in A
    <3>1. CASE pairs[i] = <<>>
      BY <3>1 DEF Enter
    <3>2. CASE pairs[i] # <<>>
      <4> DEFINE k == UrlDecode(KeyAndValue(pairs[i]).key)
                 v == UrlDecode(KeyAndValue(pairs[i]).value)
      <4>1. k \in keys /\ v \in Seq(Nat) /\ Enter(map, pairs[i]) = Entered(map, k, v)
        BY <3>2 DEF Enter
      <4> HIDE DEF k, v, keys
      <4>2. Entered(map, k, v) \in A
        BY <4>1, EnterTyped
      <4>3. QED
        BY <4>1, <4>2
    <3>3. QED
      BY <3>1, <3>2
  <2> HIDE DEF A
  <2>2. QED
    BY <2>1
<1>5. \E f : Eq(f)
  <2> HIDE DEF A, step, base
  <2>1. PICK f \in [SUBSET (1..n) -> A] : IsFold(f, n, base, step)
    BY <1>1, <1>3, <1>4, FoldExists
  <2>2. ASSUME NEW t \in SUBSET (1..n), t # {}
        PROVE  step[<<Max(t), f[t \ {Max(t)}]>>] = Enter(f[t \ {Max(t)}], pairs[Max(t)])
    <3>1. Max(t) \in 1..n
      BY <1>1, <2>2, LastIndex
    <3>2. f[t \ {Max(t)}] \in A
      BY <2>1
    <3> HIDE DEF n
    <3>3. QED
      BY <3>1, <3>2 DEF step
  <2>3. Eq(f)
    <3> HIDE DEF n
    <3>1. QED
      BY <2>1, <2>2 DEF IsFold
  <2>4. QED
    BY <2>3
<1>6. Eq(g)
  BY <1>5
<1> HIDE DEF g, base
<1>7. g[1..0] = base
  <2>1. 1..0 = {} /\ 1..0 \in SUBSET (1..n)
    OBVIOUS
  <2>2. QED
    BY <1>6, <2>1
<1>8. ASSUME NEW k \in 0..(n - 1) PROVE g[1..(k + 1)] = Enter(g[1..k], pairs[k + 1])
  <2>1. k \in Nat /\ k + 1 \in 1..(k + 1) /\ 1..(k + 1) \in SUBSET (1..n)
    BY <1>1
  <2>2. Max(1..(k + 1)) = k + 1 /\ (1..(k + 1)) \ {k + 1} = 1..k
    BY <2>1, LastOfAll
  <2> HIDE DEF n
  <2>3. QED
    BY <1>6, <2>1, <2>2
<1> DEFINE a == [k \in 0..n |-> g[1..k]]
<1>9. a[0] = <<>> /\ ParseQuery(qs) = a[n]
  BY <1>1, <1>2, <1>7 DEF base, g
<1>10. ASSUME NEW k \in 0..(n - 1) PROVE a[k + 1] = Enter(a[k], pairs[k + 1])
  <2>1. k \in 0..n /\ k + 1 \in 0..n
    BY <1>1
  <2>2. QED
    BY <1>8, <2>1
<1> HIDE DEF a, n
<1>11. Enters(a, pairs)
  BY <1>9, <1>10 DEF Enters, n
<1>12. QED
  BY <1>9, <1>11 DEF n

-----------------------------------------------------------------------------
(* What the client means, field by field *)

Real(fields) == {i \in DOMAIN fields : FieldOnWire(fields[i]) # <<>>}
Under(fields, y) == {i \in Real(fields) : MeaningOf(fields[i].key) = y}
Part(fields, y, i) ==
    IF i \notin Under(fields, y) THEN <<>>
    ELSE (IF \E j \in Under(fields, y) : j < i THEN <<Comma>> ELSE <<>>) \o ValueOf(fields[i])
PartsOf(fields, y) == [i \in DOMAIN fields |-> Part(fields, y, i)]

\* The first k fields: their keys, and what is under a key.
Keys(fields, k) == {MeaningOf(fields[i].key) : i \in {j \in Real(fields) : j <= k}}
Laid(fields, y) ==
    CHOOSE p \in [0..Len(fields) -> Seq(Nat)] :
        IsLaid(p, PartsOf(fields, y), FlattenSeq(PartsOf(fields, y)))
Meant(fields, k) == [y \in Keys(fields, k) |-> Laid(fields, y)[k]]

LEMMA PartsLaid ==
    ASSUME NEW fields, \A i \in DOMAIN fields : IsField(fields[i]), NEW y
    PROVE  fields \in Seq(ToSet(fields)) =>
              LET p == Laid(fields, y)
              IN  /\ p \in [0..Len(fields) -> Seq(Nat)]
                  /\ p[0] = <<>>
                  /\ \A k \in 0..(Len(fields) - 1) : p[k + 1] = p[k] \o Part(fields, y, k + 1)
                  /\ p[Len(fields)] = FlattenSeq(PartsOf(fields, y))
<1>1. SUFFICES ASSUME fields \in Seq(ToSet(fields))
               PROVE  LET p == Laid(fields, y)
                      IN  /\ p \in [0..Len(fields) -> Seq(Nat)]
                          /\ p[0] = <<>>
                          /\ \A k \in 0..(Len(fields) - 1) :
                                p[k + 1] = p[k] \o Part(fields, y, k + 1)
                          /\ p[Len(fields)] = FlattenSeq(PartsOf(fields, y))
  OBVIOUS
<1> DEFINE n == Len(fields)
           S == Seq(Nat)
           parts == PartsOf(fields, y)
           whole == FlattenSeq(parts)
<1>2. n \in Nat /\ DOMAIN fields = 1..n
  BY <1>1
<1>3. ASSUME NEW i \in 1..n PROVE Part(fields, y, i) \in S
  <2> DEFINE v == ValueOf(fields[i])
             o == <<Comma>>
             e == <<>>
  <2>1. v \in Seq(Nat)
    BY <1>2, FieldTyped
  <2>2. o \in Seq(Nat) /\ e \in Seq(Nat)
    BY DEF Comma
  <2> HIDE DEF v, o, e
  <2>3. o \o v \in Seq(Nat) /\ e \o v \in Seq(Nat)
    BY <2>1, <2>2, ConcatProperties
  <2>4. Part(fields, y, i) = e \/ Part(fields, y, i) = o \o v \/ Part(fields, y, i) = e \o v
    BY DEF Part, v, o, e
  <2>5. QED
    BY <2>2, <2>3, <2>4
<1>4. parts = [i \in 1..n |-> Part(fields, y, i)]
  BY <1>2 DEF PartsOf
<1> HIDE DEF n, S, parts, whole
<1>5. parts \in Seq(S) /\ Len(parts) = n
  BY <1>2, <1>3, <1>4
<1>6. \E p \in [0..n -> Seq(Nat)] : IsLaid(p, parts, whole)
  <2>1. parts \in Seq(Seq(Nat))
    BY <1>5 DEF S
  <2>2. \E p \in [0..Len(parts) -> Seq(Nat)] : IsLaid(p, parts, whole)
    BY <2>1, LaidOut DEF whole
  <2>3. QED
    BY <1>5, <2>2
<1> DEFINE p == Laid(fields, y)
<1>7. p \in [0..n -> Seq(Nat)] /\ IsLaid(p, parts, whole)
  BY <1>6 DEF Laid, n, parts, whole
<1> HIDE DEF p
<1>8. p[0] = <<>> /\ p[n] = whole
  BY <1>5, <1>7 DEF IsLaid
<1>9. ASSUME NEW k \in 0..(n - 1) PROVE p[k + 1] = p[k] \o Part(fields, y, k + 1)
  <2>1. k + 1 \in 1..n
    BY <1>2
  <2>2. p[k + 1] = p[k] \o parts[k + 1]
    BY <1>5, <1>7 DEF IsLaid, IsNext
  <2>3. QED
    BY <1>4, <2>1, <2>2
<1>10. QED
  BY <1>7, <1>8, <1>9 DEF p, n, whole, parts

\* What one more field changes of what is meant.
LEMMA OneMore ==
    ASSUME NEW fields, \A i \in DOMAIN fields : IsField(fields[i]),
           Len(fields) \in Nat, DOMAIN fields = 1..Len(fields),
           NEW k \in 0..(Len(fields) - 1)
    PROVE  LET i == k + 1
               f == fields[i]
               y == MeaningOf(f.key)
           IN  /\ FieldOnWire(f) = <<>> =>
                     /\ Keys(fields, i) = Keys(fields, k)
                     /\ \A x : Part(fields, x, i) = <<>>
               /\ FieldOnWire(f) # <<>> =>
                     /\ Keys(fields, i) = Keys(fields, k) \cup {y}
                     /\ \A x : x # y => Part(fields, x, i) = <<>>
                     /\ Part(fields, y, i) =
                           (IF y \in Keys(fields, k) THEN <<Comma>> ELSE <<>>) \o ValueOf(f)
<1> DEFINE n == Len(fields)
           i == k + 1
           f == fields[i]
           y == MeaningOf(f.key)
<1>1. i \in 1..n /\ k \in Nat /\ \A j \in 1..n : (j <= i <=> j <= k \/ j = i) /\ (j < i <=> j <= k)
  OBVIOUS
<1>2. Real(fields) \subseteq 1..n
  BY DEF Real
<1> HIDE DEF n, i, f, y
<1>3. i \in Real(fields) <=> FieldOnWire(f) # <<>>
  BY <1>1 DEF Real, f, n
<1>4. CASE FieldOnWire(f) = <<>>
  <2>1. \A j \in Real(fields) : j <= i <=> j <= k
    BY <1>1, <1>2, <1>3, <1>4
  <2>2. Keys(fields, i) = Keys(fields, k)
    BY <2>1 DEF Keys
  <2>3. \A x : Part(fields, x, i) = <<>>
    BY <1>3, <1>4 DEF Part, Under
  <2>4. QED
    BY <1>4, <2>2, <2>3 DEF i, f, y
<1>5. CASE FieldOnWire(f) # <<>>
  <2>1. \A j \in Real(fields) : j <= i <=> j <= k \/ j = i
    BY <1>1, <1>2
  <2>2. i \in Real(fields) /\ MeaningOf(fields[i].key) = y
    BY <1>3, <1>5 DEF y, f
  <2>3. Keys(fields, i) = Keys(fields, k) \cup {y}
    BY <2>1, <2>2 DEF Keys
  <2>4. \A x : x # y => Part(fields, x, i) = <<>>
    BY <2>2 DEF Part, Under
  <2>5. (\E j \in Under(fields, y) : j < i) <=> y \in Keys(fields, k)
    BY <1>1, <1>2 DEF Under, Keys
  <2>6. i \in Under(fields, y)
    BY <2>2 DEF Under
  <2>7. Part(fields, y, i) = (IF y \in Keys(fields, k) THEN <<Comma>> ELSE <<>>) \o ValueOf(f)
    BY <2>5, <2>6 DEF Part, f
  <2>8. QED
    BY <1>5, <2>3, <2>4, <2>7 DEF i, f, y
<1>6. QED
  BY <1>4, <1>5 DEF i, f, y

\* Under a key that no field had yet, there is nothing yet.
NothingElse(fields, k) == \A y : y \notin Keys(fields, k) => Laid(fields, y)[k] = <<>>

LEMMA Joined ==
    ASSUME NEW q, NEW v, NEW all, all = q \o (<<Comma>> \o v)
    PROVE  q \in Seq(Nat) /\ v \in Seq(Nat) => all = (q \o <<Comma>>) \o v
<1>1. <<Comma>> \in Seq(Nat)
  BY DEF Comma
<1> DEFINE o == <<Comma>>
<1> HIDE DEF o
<1>2. ASSUME NEW r \in Seq(Nat), NEW s \in Seq(Nat), NEW t \in Seq(Nat)
      PROVE  (r \o s) \o t = r \o (s \o t)
  BY ConcatAssociative
<1>3. o \in Seq(Nat)
  BY <1>1 DEF o
<1>4. QED
  BY <1>2, <1>3 DEF o

LEMMA EnterMeant ==
    ASSUME NEW fields, \A i \in DOMAIN fields : IsField(fields[i]),
           Len(fields) \in Nat, DOMAIN fields = 1..Len(fields),
           NEW k \in 0..(Len(fields) - 1), NothingElse(fields, k)
    PROVE  fields \in Seq(ToSet(fields)) =>
              /\ Enter(Meant(fields, k), FieldOnWire(fields[k + 1])) = Meant(fields, k + 1)
              /\ NothingElse(fields, k + 1)
<1>1. SUFFICES ASSUME fields \in Seq(ToSet(fields))
               PROVE  /\ Enter(Meant(fields, k), FieldOnWire(fields[k + 1])) = Meant(fields, k + 1)
                      /\ NothingElse(fields, k + 1)
  OBVIOUS
<1> DEFINE n == Len(fields)
           i == k + 1
           f == fields[i]
           w == FieldOnWire(f)
           y == MeaningOf(f.key)
           v == ValueOf(f)
           p(x) == Laid(fields, x)
           had == Keys(fields, k)
           has == Keys(fields, i)
           map == Meant(fields, k)
<1>2. k \in 0..n /\ i \in 1..n
  OBVIOUS
<1>3. ASSUME NEW x PROVE p(x)[k] \in Seq(Nat) /\ p(x)[i] = p(x)[k] \o Part(fields, x, i)
  BY <1>1, <1>2, PartsLaid
<1>4. IsField(f) /\ v \in Seq(Nat)
  BY <1>2, FieldTyped
<1>5. /\ w = <<>> => has = had /\ \A x : Part(fields, x, i) = <<>>
      /\ w # <<>> => /\ has = had \cup {y}
                     /\ \A x : x # y => Part(fields, x, i) = <<>>
                     /\ Part(fields, y, i) = (IF y \in had THEN <<Comma>> ELSE <<>>) \o v
  BY OneMore
<1>6. /\ map = [x \in had |-> p(x)[k]]
      /\ Meant(fields, i) = [x \in has |-> p(x)[i]]
      /\ \A x : x \notin had => p(x)[k] = <<>>
  BY DEF Meant, NothingElse
<1>7. UrlDecode(KeyAndValue(w).key) = y /\ UrlDecode(KeyAndValue(w).value) = v
  BY <1>4, FieldTaken
<1>8. Enter(map, w) = IF w = <<>> THEN map ELSE Entered(map, y, v)
  BY <1>7 DEF Enter
<1>9. NothingElse(fields, i) <=> \A x : x \notin has => p(x)[i] = <<>>
  BY DEF NothingElse
<1> HIDE DEF n, i, f, w, y, v, p, had, has, map
<1>10. ASSUME NEW x, Part(fields, x, i) = <<>> PROVE p(x)[i] = p(x)[k]
  <2>1. p(x)[k] \o <<>> = p(x)[k]
    BY <1>3, ConcatEmptySeq
  <2>2. QED
    BY <1>3, <1>10, <2>1
<1>11. CASE w = <<>>
  <2>1. has = had /\ \A x : p(x)[i] = p(x)[k]
    BY <1>5, <1>10, <1>11
  <2>2. Meant(fields, i) = map
    BY <1>6, <2>1
  <2>3. NothingElse(fields, i)
    BY <1>6, <1>9, <2>1
  <2>4. QED
    BY <1>8, <1>11, <2>2, <2>3 DEF i, f, w, map
<1>12. CASE w # <<>>
  <2>1. has = had \cup {y} /\ \A x : x # y => p(x)[i] = p(x)[k]
    BY <1>5, <1>10, <1>12
  <2>2. NothingElse(fields, i)
    BY <1>6, <1>9, <2>1
  <2>3. p(y)[i] = IF y \in had THEN p(y)[k] \o <<Comma>> \o v ELSE v
    <3> DEFINE q == p(y)[k]
               o == <<Comma>>
    <3>1. q \in Seq(Nat) /\ o \in Seq(Nat)
      BY <1>3 DEF Comma
    <3>2. p(y)[i] = q \o Part(fields, y, i)
      BY <1>3
    <3>3. CASE y \in had
      <4>1. Part(fields, y, i) = o \o v
        BY <1>5, <1>12, <3>3
      <4>2. p(y)[i] = q \o (o \o v)
        BY <3>2, <4>1
      <4>3. v \in Seq(Nat) /\ q \in Seq(Nat)
        BY <1>4, <3>1
      <4> HIDE DEF q
      <4>4. p(y)[i] = (q \o <<Comma>>) \o v
        BY <4>2, <4>3, Joined
      <4>5. QED
        BY <3>3, <4>4 DEF q
    <3>4. CASE y \notin had
      <4>1. Part(fields, y, i) = <<>> \o v /\ q = <<>>
        BY <1>5, <1>6, <1>12, <3>4
      <4>2. <<>> \o v = v
        BY <1>4, ConcatEmptySeq
      <4> HIDE DEF q
      <4>3. QED
        BY <3>2, <3>4, <4>1, <4>2
    <3>5. QED
      BY <3>3, <3>4
  <2>4. Entered(map, y, v) =
            [x \in had \cup {y} |->
                IF x # y THEN map[x]
                ELSE IF y \in had THEN map[y] \o <<Comma>> \o v ELSE v]
    <3>1. DOMAIN map = had
      BY <1>6
    <3>2. QED
      BY <3>1 DEF Entered
  <2>5. \A x \in had : map[x] = p(x)[k]
    BY <1>6
  <2>6. ASSUME NEW x \in has
        PROVE  p(x)[i] = IF x # y THEN map[x]
                         ELSE IF y \in had THEN map[y] \o <<Comma>> \o v ELSE v
    <3>1. CASE x # y
      <4>1. x \in had
        BY <2>1, <3>1
      <4>2. QED
        BY <2>1, <2>5, <3>1, <4>1
    <3>2. CASE x = y
      BY <2>3, <2>5, <3>2
    <3>3. QED
      BY <3>1, <3>2
  <2>7. Meant(fields, i) = Entered(map, y, v)
    BY <1>6, <2>1, <2>4, <2>6
  <2>8. QED
    BY <1>8, <1>12, <2>2, <2>7 DEF i, f, w, map
<1>13. QED
  BY <1>11, <1>12

LEMMA MeantAtLast ==
    ASSUME NEW fields, \A i \in DOMAIN fields : IsField(fields[i])
    PROVE  fields \in Seq(ToSet(fields)) => Meant(fields, Len(fields)) = MeantBy(fields)
<1>1. SUFFICES ASSUME fields \in Seq(ToSet(fields))
               PROVE  Meant(fields, Len(fields)) = MeantBy(fields)
  OBVIOUS
<1>2. MeantBy(fields) =
          [y \in {MeaningOf(fields[i].key) : i \in Real(fields)} |-> FlattenSeq(PartsOf(fields, y))]
  BY DEF MeantBy, PartsOf, Part, Under, Real, ValueOf
<1> DEFINE n == Len(fields)
<1>3. n \in Nat /\ DOMAIN fields = 1..n
  BY <1>1
<1>4. \A j \in Real(fields) : j <= n
  BY <1>3 DEF Real
<1> HIDE DEF n
<1>5. Keys(fields, n) = {MeaningOf(fields[i].key) : i \in Real(fields)}
  BY <1>4 DEF Keys
<1>6. \A y : Laid(fields, y)[n] = FlattenSeq(PartsOf(fields, y))
  BY <1>1, PartsLaid DEF n
<1>7. Meant(fields, n) = MeantBy(fields)
  BY <1>2, <1>5, <1>6 DEF Meant
<1>8. QED
  BY <1>7 DEF n

\* Whatever a client writes, parse_query returns what is meant.
LEMMA QueryParsed ==
    ASSUME NEW fields, \A i \in DOMAIN fields : IsField(fields[i])
    PROVE  fields \in Seq(ToSet(fields)) => ParseQuery(QueryOnWire(fields)) = MeantBy(fields)
<1>1. SUFFICES ASSUME fields \in Seq(ToSet(fields))
               PROVE  ParseQuery(QueryOnWire(fields)) = MeantBy(fields)
  OBVIOUS
<1> DEFINE n == Len(fields)
           qs == QueryOnWire(fields)
           wires == [i \in 1..n |-> FieldOnWire(fields[i])]
           one == << <<>> >>
           pairs == IF n = 0 THEN one ELSE wires
<1>2. n \in Nat /\ DOMAIN fields = 1..n
  BY <1>1
<1>3. Split(qs, Ampersand) = pairs
  BY <1>1, SplitQuery
<1>4. one[1] = <<>> /\ Len(one) = 1 /\ DOMAIN one = 1..1
  OBVIOUS
<1>5. Len(wires) = n /\ DOMAIN wires = 1..n
  <2> HIDE DEF n
  <2>1. QED
    BY <1>2
<1>6. Len(pairs) \in Nat /\ DOMAIN pairs = 1..Len(pairs)
  BY <1>2, <1>4, <1>5
<1>7. ASSUME NEW i \in 1..Len(pairs), pairs[i] # <<>>
      PROVE  UrlDecode(KeyAndValue(pairs[i]).value) \in Seq(Nat)
  <2>1. n # 0 /\ i \in 1..n
    BY <1>4, <1>5, <1>7
  <2>2. IsField(fields[i]) /\ pairs[i] = FieldOnWire(fields[i])
    BY <1>2, <2>1
  <2> HIDE DEF pairs
  <2>3. /\ UrlDecode(KeyAndValue(FieldOnWire(fields[i])).value) = ValueOf(fields[i])
        /\ ValueOf(fields[i]) \in Seq(Nat)
    BY <2>2, FieldTaken, FieldTyped
  <2>4. QED
    BY <2>2, <2>3
<1>8. PICK a : Enters(a, pairs) /\ ParseQuery(qs) = a[Len(pairs)]
  <2> HIDE DEF pairs, qs
  <2>1. QED
    BY <1>3, <1>6, <1>7, ParseUnrolled
<1>9. Meant(fields, 0) = <<>> /\ NothingElse(fields, 0)
  <2>1. Keys(fields, 0) = {}
    BY <1>2 DEF Keys, Real
  <2>2. \A y : Laid(fields, y)[0] = <<>>
    BY <1>1, PartsLaid
  <2>3. QED
    BY <2>1, <2>2 DEF Meant, NothingElse
<1>10. ParseQuery(qs) = Meant(fields, n)
  <2>1. CASE n = 0
    <3>1. Len(pairs) = 1 /\ pairs[1] = <<>> /\ 0 \in 0..(Len(pairs) - 1) /\ 0 + 1 = 1
      BY <1>4, <2>1
    <3> HIDE DEF pairs, n, qs
    <3>2. a[1] = Enter(a[0], pairs[1])
      BY <1>8, <3>1 DEF Enters
    <3>3. a[1] = a[0]
      BY <3>1, <3>2 DEF Enter
    <3>4. QED
      BY <1>8, <1>9, <2>1, <3>1, <3>3 DEF Enters
  <2>2. CASE n # 0
    <3>1. pairs = wires /\ Len(pairs) = n
      BY <1>5, <2>2
    <3> DEFINE Good == {k \in 0..n : a[k] = Meant(fields, k) /\ NothingElse(fields, k)}
    <3>2. 0 \in Good
      BY <1>2, <1>8, <1>9 DEF Enters
    <3>3. ASSUME NEW k \in 0..(n - 1), k \in Good PROVE k + 1 \in Good
      <4>1. k + 1 \in 1..n /\ k + 1 \in 0..n
        BY <1>2
      <4>2. a[k + 1] = Enter(a[k], pairs[k + 1])
        <5> HIDE DEF pairs, n
        <5>1. QED
          BY <1>8, <3>1 DEF Enters
      <4>3. pairs[k + 1] = FieldOnWire(fields[k + 1])
        <5> HIDE DEF pairs
        <5>1. QED
          BY <3>1, <4>1
      <4>4. a[k] = Meant(fields, k) /\ NothingElse(fields, k)
        BY <3>3
      <4>5. /\ Enter(Meant(fields, k), FieldOnWire(fields[k + 1])) = Meant(fields, k + 1)
            /\ NothingElse(fields, k + 1)
        BY <1>1, <1>2, <4>4, EnterMeant
      <4>6. QED
        BY <4>1, <4>2, <4>3, <4>4, <4>5
    <3> HIDE DEF Good
    <3>4. n \in Good
      <4>1. n \in 0..n
        BY <1>2
      <4> HIDE DEF n
      <4>2. QED
        BY <1>2, <3>2, <3>3, <4>1, UpTo
    <3>5. QED
      <4> HIDE DEF pairs, n, qs
      <4>1. QED
        BY <1>8, <3>1, <3>4 DEF Good
  <2>3. QED
    BY <2>1, <2>2
<1>11. QED
  BY <1>1, <1>10, MeantAtLast
=============================================================================
