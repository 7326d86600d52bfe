---------------------------- MODULE RouterProofs ----------------------------
(***************************************************************************)
(* Theorems about Router, for any methods, patterns, paths and handlers.   *)
(***************************************************************************)
EXTENDS Router, FoldProofs, TLAPS

\* The inductive invariant: the types, the agreement of the three books, that a
\* refused pattern stays refused, that no tree holds a malformed pattern or two
\* that clash, and, which follows from that, that the live patterns which fit a
\* path never tie: matchit's choice among them is well defined (BestOf).
LiveIsWellFormed ==
    \A m \in Methods : \A p \in Live(This, m) : ~Malformed(p)

LiveIsApart ==
    \A m \in Methods : \A p, q \in Live(This, m) : p # q => ~Clashes(p, q)

BestIsUnique ==
    \A m \in Methods, path \in Paths :
        LET fitting == {p \in Live(This, m) : Fits(p, path)}
        IN  fitting # {} =>
                \E p \in fitting : \A q \in fitting \ {p} :
                    Preferred(p, q) /\ ~Preferred(q, p)

RouterInv ==
    /\ TypeOK /\ BooksAgree /\ RejectedForGood
    /\ LiveIsWellFormed /\ LiveIsApart /\ BestIsUnique

-----------------------------------------------------------------------------
(* Lemmas about patterns *)

\* A tree that grows goes on refusing what it refused.
LEMMA InsertFailsGrows ==
    ASSUME NEW live, NEW more, NEW p, live \subseteq more, InsertFails(live, p)
    PROVE  InsertFails(more, p)
  BY DEF InsertFails

\* A pattern cannot share a tree with itself.
LEMMA ClashesItself ==
    ASSUME NEW p \in Seq(Segments)
    PROVE  Clashes(p, p)
  BY DEF Clashes, SameShape

\* What the tree matches without a catch-all, matches_any_method matches.
LEMMA FitsMatches ==
    ASSUME NEW p \in Seq(Segments), NEW path \in Seq(STRING),
           Fits(p, path), ~EndsInCatchAll(p)
    PROVE  MatchesAnyMethod(p, path)
  BY DEF Fits, SegmentFits, MatchesAnyMethod

\* A well-formed pattern that matches_any_method matches is one the tree
\* matches, unless a segment of the path is empty.
LEMMA MatchesFits ==
    ASSUME NEW p \in Seq(Segments), NEW path \in Seq(STRING),
           MatchesAnyMethod(p, path), ~Malformed(p), ~HasEmptySegment(path)
    PROVE  Fits(p, path)
<1>1. Len(p) = Len(path) /\ DOMAIN p = DOMAIN path
  BY DEF MatchesAnyMethod
<1>2. ASSUME NEW i \in DOMAIN p PROVE SegmentFits(p[i], path[i])
  <2>1. path[i] # ""
    BY <1>1 DEF HasEmptySegment
  <2>2. p[i] \in Segments
    OBVIOUS
  <2>3. p[i].kind \in Kinds
    BY <2>2 DEF Segments
  <2>4. p[i].kind # "open"
    BY DEF Malformed
  <2>5. QED
    BY <2>1, <2>3, <2>4 DEF MatchesAnyMethod, SegmentFits, Kinds
<1>3. QED
  BY <1>1, <1>2 DEF Fits

-----------------------------------------------------------------------------
(* The order of preference *)

LEMMA PreferredIsAsymmetric ==
    ASSUME NEW p \in Seq(Segments), NEW q \in Seq(Segments), Preferred(p, q)
    PROVE  ~Preferred(q, p)
<1> SUFFICES ASSUME Preferred(q, p) PROVE FALSE
  OBVIOUS
<1>1. PICK i \in DOMAIN p \cap DOMAIN q :
          Rank(p[i]) < Rank(q[i]) /\ \A k \in 1..(i - 1) : Rank(p[k]) = Rank(q[k])
  BY DEF Preferred
<1>2. PICK j \in DOMAIN p \cap DOMAIN q :
          Rank(q[j]) < Rank(p[j]) /\ \A k \in 1..(j - 1) : Rank(p[k]) = Rank(q[k])
  BY DEF Preferred
<1>3. Rank(p[i]) \in Nat /\ Rank(q[i]) \in Nat /\ Rank(p[j]) \in Nat /\ Rank(q[j]) \in Nat
  BY DEF Rank
<1>4. i < j \/ j < i \/ i = j
  OBVIOUS
<1>5. QED
  BY <1>1, <1>2, <1>3, <1>4

LEMMA PreferredIsTransitive ==
    ASSUME NEW a \in Seq(Segments), NEW b \in Seq(Segments), NEW c \in Seq(Segments),
           Preferred(a, b), Preferred(b, c)
    PROVE  Preferred(a, c)
<1>1. PICK i \in DOMAIN a \cap DOMAIN b :
          Rank(a[i]) < Rank(b[i]) /\ \A k \in 1..(i - 1) : Rank(a[k]) = Rank(b[k])
  BY DEF Preferred
<1>2. PICK j \in DOMAIN b \cap DOMAIN c :
          Rank(b[j]) < Rank(c[j]) /\ \A k \in 1..(j - 1) : Rank(b[k]) = Rank(c[k])
  BY DEF Preferred
<1>3. \A n : Rank(a[n]) \in Nat /\ Rank(b[n]) \in Nat /\ Rank(c[n]) \in Nat
  BY DEF Rank
<1>4. CASE i <= j
  <2>1. i \in DOMAIN a \cap DOMAIN c
    BY <1>4
  <2>2. Rank(a[i]) < Rank(c[i])
    <3>1. Rank(b[i]) <= Rank(c[i])
      <4>1. CASE i = j
        BY <1>2, <1>3, <4>1
      <4>2. CASE i < j
        <5>1. i \in 1..(j - 1)
          BY <4>2
        <5>2. Rank(b[i]) = Rank(c[i])
          BY <1>2, <5>1
        <5>3. QED
          BY <1>3, <5>2
      <4>3. QED
        BY <1>4, <4>1, <4>2
    <3>2. QED
      BY <1>1, <1>3, <3>1
  <2>3. \A k \in 1..(i - 1) : Rank(a[k]) = Rank(c[k])
    BY <1>1, <1>2, <1>4
  <2>4. QED
    BY <2>1, <2>2, <2>3 DEF Preferred
<1>5. CASE j < i
  <2>1. j \in DOMAIN a \cap DOMAIN c
    BY <1>5
  <2>2. Rank(a[j]) < Rank(c[j])
    <3>1. j \in 1..(i - 1)
      BY <1>5
    <3>2. Rank(a[j]) = Rank(b[j])
      BY <1>1, <3>1
    <3>3. QED
      BY <1>2, <3>2
  <2>3. \A k \in 1..(j - 1) : Rank(a[k]) = Rank(c[k])
    BY <1>1, <1>2, <1>5
  <2>4. QED
    BY <2>1, <2>2, <2>3 DEF Preferred
<1>6. QED
  BY <1>4, <1>5

\* Two segments of one rank that fit one text have one shape.
LEMMA SameRankSameShape ==
    ASSUME NEW a \in Segments, NEW b \in Segments, NEW s,
           a.kind # "open", b.kind # "open", Rank(a) = Rank(b),
           a.kind = "static" => a.text = s, b.kind = "static" => b.text = s
    PROVE  SameShape(a, b)
  BY DEF Segments, Kinds, Rank, SameShape

\* Of two patterns that fit a path and may share a tree, one is preferred.
LEMMA FittingAreComparable ==
    ASSUME NEW p \in Seq(Segments), NEW q \in Seq(Segments), NEW path \in Seq(STRING),
           Fits(p, path), Fits(q, path), ~Malformed(p), ~Malformed(q), ~Clashes(p, q)
    PROVE  Preferred(p, q) \/ Preferred(q, p)
<1> DEFINE Differ == {i \in DOMAIN p \cap DOMAIN q : Rank(p[i]) # Rank(q[i])}
<1>1. CASE Differ # {}
  <2>1. PICK k \in Differ : \A j \in Differ : k <= j
    <3>1. Differ \in SUBSET Nat
      OBVIOUS
    <3>2. PICK n \in Differ : TRUE
      BY <1>1
    <3>3. QED
      BY <3>1, <3>2, LeastExists
  <2>2. \A j \in 1..(k - 1) : Rank(p[j]) = Rank(q[j])
    BY <2>1
  <2>3. Rank(p[k]) \in Nat /\ Rank(q[k]) \in Nat
    BY DEF Rank
  <2>4. Rank(p[k]) < Rank(q[k]) \/ Rank(q[k]) < Rank(p[k])
    BY <2>1, <2>3
  <2>5. QED
    BY <2>1, <2>2, <2>4 DEF Preferred
<1>2. CASE Differ = {}
  <2>1. \A i \in DOMAIN p : p[i] \in Segments /\ p[i].kind # "open"
    BY DEF Malformed
  <2>2. \A i \in DOMAIN q : q[i] \in Segments /\ q[i].kind # "open"
    BY DEF Malformed
  <2>3. ASSUME NEW a \in Seq(Segments), NEW b \in Seq(Segments),
               Fits(a, path), Fits(b, path), ~Malformed(b), Len(a) < Len(b),
               \A i \in DOMAIN a \cap DOMAIN b : Rank(a[i]) = Rank(b[i])
        PROVE  FALSE
    <3>1. Len(path) > Len(a) /\ EndsInCatchAll(a)
      BY <2>3 DEF Fits
    <3>2. Len(a) \in DOMAIN a \cap DOMAIN b /\ a[Len(a)].kind = "catchall"
      BY <2>3, <3>1 DEF EndsInCatchAll
    <3>3. b[Len(a)].kind \in {"catchall", "open"}
      <4>1. b[Len(a)] \in Segments
        BY <3>2
      <4>2. Rank(b[Len(a)]) = 2
        BY <2>3, <3>2 DEF Rank
      <4>3. QED
        BY <4>1, <4>2 DEF Rank, Segments, Kinds
    <3>4. QED
      BY <2>3, <3>2, <3>3 DEF Malformed
  <2>4. Len(p) = Len(q)
    <3>1. ~(Len(p) < Len(q))
      BY <1>2, <2>3
    <3>2. ~(Len(q) < Len(p))
      BY <1>2, <2>3
    <3>3. QED
      BY <3>1, <3>2
  <2>5. ASSUME NEW i \in DOMAIN p PROVE SameShape(p[i], q[i])
    <3>1. i \in DOMAIN q /\ Rank(p[i]) = Rank(q[i])
      BY <1>2, <2>4
    <3>2. p[i].kind = "static" => p[i].text = path[i]
      BY DEF Fits, SegmentFits
    <3>3. q[i].kind = "static" => q[i].text = path[i]
      BY <3>1 DEF Fits, SegmentFits
    <3>4. QED
      BY <2>1, <2>2, <3>1, <3>2, <3>3, SameRankSameShape
  <2>6. QED
    BY <2>4, <2>5 DEF Clashes
<1>3. QED
  BY <1>1, <1>2

-----------------------------------------------------------------------------
(* The inductive invariant *)

LEMMA InvInit == Init => RouterInv
  BY DEF Init, NoRoutes, NoPatterns, NoKeys, RouterInv, TypeOK, BooksAgree,
         RejectedForGood, LiveIsWellFormed, LiveIsApart, BestIsUnique, Live, This

\* A registration never removes a pattern from a tree.
LEMMA LiveGrows ==
    ASSUME TypeOK, NEW m \in Methods, NEW p \in Patterns, NEW h \in Handlers,
           Add(m, p, h), NEW o \in Methods
    PROVE  /\ Live(This, o) \subseteq Live(This, o)'
           /\ Live(This, o)' \subseteq Live(This, o) \cup {p}
           /\ o # m => Live(This, o)' = Live(This, o)
  BY PatternsAssumption DEF TypeOK, Add, Live, This

\* A pattern clashes with another as the other does with it.
LEMMA ClashesIsSymmetric ==
    ASSUME NEW p \in Seq(Segments), NEW q \in Seq(Segments), Clashes(p, q)
    PROVE  Clashes(q, p)
<1>1. CASE Len(p) = Len(q) /\ \A i \in DOMAIN p : SameShape(p[i], q[i])
  <2>1. DOMAIN p = DOMAIN q
    BY <1>1
  <2>2. QED
    BY <1>1, <2>1 DEF Clashes, SameShape
<1>2. ASSUME NEW i \in DOMAIN p \cap DOMAIN q,
             {p[i].kind, q[i].kind} = {"param", "catchall"},
             \A j \in 1..(i - 1) : SameShape(p[j], q[j])
      PROVE  Clashes(q, p)
  <2>1. {q[i].kind, p[i].kind} = {"param", "catchall"}
    BY <1>2
  <2>2. \A j \in 1..(i - 1) : SameShape(q[j], p[j])
    BY <1>2 DEF SameShape
  <2>3. QED
    BY <2>1, <2>2 DEF Clashes
<1>3. QED
  BY <1>1, <1>2 DEF Clashes

\* Of some fitting patterns one is best.
HasBest(fitting) ==
    fitting # {} => \E p \in fitting : \A q \in fitting \ {p} :
                        Preferred(p, q) /\ ~Preferred(q, p)

\* One more fitting pattern is better than the best one, and by transitivity
\* than all, or the best one stays best.
LEMMA BestOfOneMore ==
    ASSUME NEW F \in SUBSET Patterns, NEW p \in Patterns, NEW path \in Paths,
           \A q \in F \cup {p} : Fits(q, path) /\ ~Malformed(q),
           \A q \in F : q # p => ~Clashes(p, q),
           HasBest(F)
    PROVE  HasBest(F \cup {p})
<1> USE PatternsAssumption
<1>1. CASE p \in F
  <2>1. F \cup {p} = F
    BY <1>1
  <2>2. QED
    BY <2>1
<1>2. CASE F = {}
  BY <1>2 DEF HasBest
<1>3. CASE p \notin F /\ F # {}
  <2>1. PICK b \in F : \A q \in F \ {b} : Preferred(b, q) /\ ~Preferred(q, b)
    BY <1>3 DEF HasBest
  <2>2. Preferred(p, b) \/ Preferred(b, p)
    BY <1>3, FittingAreComparable
  <2>3. CASE Preferred(b, p)
    <3>1. ~Preferred(p, b)
      BY <2>3, PreferredIsAsymmetric
    <3>2. QED
      BY <2>1, <2>3, <3>1 DEF HasBest
  <2>4. CASE Preferred(p, b)
    <3>1. ASSUME NEW q \in F PROVE Preferred(p, q)
      BY <2>1, <2>4, PreferredIsTransitive
    <3>2. ASSUME NEW q \in F PROVE ~Preferred(q, p)
      BY <3>1, PreferredIsAsymmetric
    <3>3. QED
      BY <3>1, <3>2 DEF HasBest
  <2>5. QED
    BY <2>2, <2>3, <2>4
<1>4. QED
  BY <1>1, <1>2, <1>3

\* A registration leaves what is said of the trees to be shown for p alone.
LEMMA StaysApart ==
    ASSUME RouterInv, NEW m \in Methods, NEW p \in Patterns, NEW h \in Handlers,
           Add(m, p, h)
    PROVE  LiveIsApart'
<1> SUFFICES ASSUME NEW o \in Methods, NEW a \in Live(This, o)', NEW b \in Live(This, o)',
                    a # b
             PROVE  ~Clashes(a, b)
  BY DEF LiveIsApart, Live, This
<1>1. CASE a \in Live(This, o) /\ b \in Live(This, o)
  BY <1>1 DEF RouterInv, LiveIsApart
<1>2. ASSUME NEW q \in Live(This, o)', q # p, p \in Live(This, o)', p \notin Live(This, o)
      PROVE  ~Clashes(p, q)
  <2>1. q \in Live(This, o) /\ o = m
    BY <1>2, LiveGrows DEF RouterInv
  <2>2. Insertable(m, p)
    BY <1>2, <2>1 DEF Add, Live, This
  <2>3. QED
    BY <2>1, <2>2 DEF Insertable, InsertFails
<1>3. CASE a \notin Live(This, o)
  <2>1. a = p
    BY <1>3, LiveGrows DEF RouterInv
  <2>2. QED
    BY <1>2, <1>3, <2>1
<1>4. CASE b \notin Live(This, o)
  <2>1. b = p /\ ~Clashes(b, a)
    BY <1>2, <1>4, LiveGrows DEF RouterInv
  <2>2. a \in Seq(Segments) /\ b \in Seq(Segments)
    BY PatternsAssumption DEF Live
  <2>3. QED
    BY <2>1, <2>2, ClashesIsSymmetric
<1>5. QED
  BY <1>1, <1>3, <1>4

LEMMA BestStaysUnique ==
    ASSUME RouterInv, LiveIsWellFormed', LiveIsApart',
           NEW m \in Methods, NEW p \in Patterns, NEW h \in Handlers, Add(m, p, h)
    PROVE  BestIsUnique'
<1> SUFFICES ASSUME NEW o \in Methods, NEW path \in Paths
             PROVE  HasBest({q \in Live(This, o)' : Fits(q, path)})
  BY DEF BestIsUnique, HasBest, Live, This
<1> DEFINE F == {q \in Live(This, o) : Fits(q, path)}
           G == {q \in Live(This, o)' : Fits(q, path)}
<1>1. HasBest(F)
  BY DEF RouterInv, BestIsUnique, HasBest
<1>2. G = F \/ (G = F \cup {p} /\ p \in Live(This, o)' /\ Fits(p, path))
  BY LiveGrows DEF RouterInv
<1>3. CASE G = F
  BY <1>1, <1>3
<1>4. CASE G = F \cup {p} /\ p \in Live(This, o)' /\ Fits(p, path)
  <2>1. F \in SUBSET Patterns
    BY DEF Live
  <2>2. \A q \in F \cup {p} : q \in Live(This, o)'
    BY <1>4
  <2>3. \A q \in F \cup {p} : Fits(q, path) /\ ~Malformed(q)
    BY <1>4, <2>2 DEF LiveIsWellFormed, Live, This
  <2>4. \A q \in F : q # p => ~Clashes(p, q)
    BY <2>2 DEF LiveIsApart, Live, This
  <2>5. HasBest(F \cup {p})
    BY <1>1, <2>1, <2>3, <2>4, BestOfOneMore
  <2>6. QED
    BY <1>4, <2>5
<1>5. QED
  BY <1>2, <1>3, <1>4

LEMMA InvStep == RouterInv /\ [Next]_rvars => RouterInv'
<1> SUFFICES ASSUME RouterInv, [Next]_rvars PROVE RouterInv'
  OBVIOUS
<1>1. CASE UNCHANGED rvars
  BY <1>1 DEF rvars, RouterInv, TypeOK, BooksAgree, RejectedForGood,
              LiveIsWellFormed, LiveIsApart, BestIsUnique, Live, This
<1>2. ASSUME NEW m \in Methods, NEW p \in Patterns, NEW h \in Handlers,
             Add(m, p, h)
      PROVE  RouterInv'
  <2> USE <1>2
  <2>1. TypeOK'
    <3>1. \/ UNCHANGED inner
          \/ inner' = [inner EXCEPT ![m][p] = h]
      BY DEF Add
    <3>2. inner' \in [Methods -> [Patterns -> Handlers \cup {None}]]
      <4>1. TypeOK
        BY DEF RouterInv
      <4>2. QED
        BY <3>1, <4>1 DEF TypeOK
    <3>3. patterns' \in [Methods -> SUBSET Patterns]
      BY DEF RouterInv, TypeOK, Add
    <3>4. allPatterns' \in [Patterns -> SUBSET Methods]
      BY DEF RouterInv, TypeOK, Add, Noted
    <3>5. result' \in {"Ok", "Conflict", "InvalidPattern"}
      BY DEF Add, Refusal
    <3>6. asked' \in Methods \X Patterns
      BY DEF Add
    <3>7. QED
      BY <3>2, <3>3, <3>4, <3>5, <3>6 DEF TypeOK
  <2>2. BooksAgree'
    BY DEF RouterInv, TypeOK, BooksAgree, Add, Noted, Duplicate
  <2>3. RejectedForGood'
    <3> SUFFICES ASSUME NEW o \in Methods,
                        NEW q \in patterns'[o] \ Live(This, o)'
                 PROVE  InsertFails(Live(This, o)', q)
      BY DEF RejectedForGood, Live, This
    <3>1. Live(This, o) \subseteq Live(This, o)' /\ q \notin Live(This, o)
      BY LiveGrows DEF RouterInv
    <3>2. CASE q \in patterns[o]
      <4>1. InsertFails(Live(This, o), q)
        BY <3>1, <3>2 DEF RouterInv, RejectedForGood
      <4>2. QED
        BY <3>1, <4>1, InsertFailsGrows
    <3>3. CASE q \notin patterns[o]
      <4>1. o = m /\ q = p /\ ~Duplicate(m, p)
        BY <3>3 DEF RouterInv, TypeOK, Add, Duplicate
      <4>2. ~Insertable(m, p)
        <5>1. SUFFICES ASSUME Insertable(m, p) PROVE p \in Live(This, m)'
          BY <4>1
        <5>2. inner' = [inner EXCEPT ![m][p] = h]
          BY <4>1, <5>1 DEF Add
        <5>3. QED
          BY <5>2, PatternsAssumption DEF RouterInv, TypeOK, Live, This
      <4>3. InsertFails(Live(This, m), p)
        BY <4>2 DEF Insertable
      <4>4. QED
        BY <3>1, <4>1, <4>3, InsertFailsGrows
    <3>4. QED
      BY <3>2, <3>3
  <2>4. LiveIsWellFormed'
    <3> SUFFICES ASSUME NEW o \in Methods, NEW q \in Live(This, o)'
                 PROVE  ~Malformed(q)
      BY DEF LiveIsWellFormed, Live, This
    <3>1. CASE q \in Live(This, o)
      BY <3>1 DEF RouterInv, LiveIsWellFormed
    <3>2. CASE q \notin Live(This, o)
      <4>1. q = p /\ o = m
        BY <3>2, LiveGrows DEF RouterInv
      <4>2. Insertable(m, p)
        BY <3>2, <4>1 DEF Add, Live, This
      <4>3. QED
        BY <4>1, <4>2 DEF Insertable, InsertFails
    <3>3. QED
      BY <3>1, <3>2
  <2>5. LiveIsApart'
    BY StaysApart
  <2>6. BestIsUnique'
    BY <2>4, <2>5, BestStaysUnique
  <2>7. QED
    BY <2>1, <2>2, <2>3, <2>4, <2>5, <2>6 DEF RouterInv
<1>3. QED
  BY <1>1, <1>2 DEF Next

LEMMA Invariant == Spec => []RouterInv
  BY InvInit, InvStep, PTL DEF Spec

-----------------------------------------------------------------------------
(* What one more registration changes for requests *)

\* A fitting pattern that is preferred to all others is the one matchit returns.
LEMMA BestOfIs ==
    ASSUME NEW F \in SUBSET Patterns, NEW b \in F,
           \A q \in F \ {b} : Preferred(b, q)
    PROVE  BestOf(F) = b
<1> DEFINE c == BestOf(F)
<1>1. c \in F /\ \A q \in F \ {c} : Preferred(c, q)
  BY DEF BestOf
<1>2. CASE c # b
  <2>1. Preferred(c, b) /\ Preferred(b, c)
    BY <1>1, <1>2
  <2>2. b \in Seq(Segments) /\ c \in Seq(Segments)
    BY <1>1, PatternsAssumption
  <2>3. QED
    BY <2>1, <2>2, PreferredIsAsymmetric
<1>3. QED
  BY <1>2

\* A route that is in a tree keeps its handler.
LEMMA HandlerStays ==
    ASSUME RouterInv, NEW n \in Methods, NEW p \in Patterns, NEW h \in Handlers,
           Add(n, p, h), NEW m \in Methods, NEW q \in Live(This, m)
    PROVE  inner'[m][q] = inner[m][q]
<1>1. inner \in [Methods -> [Patterns -> Handlers \cup {None}]] /\ q \in Patterns
  BY DEF RouterInv, TypeOK, Live
<1>2. Duplicate(m, q)
  BY <1>1 DEF RouterInv, BooksAgree, Duplicate, Live, This
<1>3. CASE m = n /\ q = p
  <2>1. UNCHANGED inner
    BY <1>2, <1>3 DEF Add
  <2>2. QED
    BY <2>1
<1>4. CASE ~(m = n /\ q = p)
  <2>1. UNCHANGED inner \/ inner' = [inner EXCEPT ![n][p] = h]
    BY DEF Add
  <2>2. QED
    BY <1>1, <1>4, <2>1
<1>5. QED
  BY <1>3, <1>4

\* A call of add leaves the answer of a request, or changes it as AnswersStand
\* allows.
LEMMA OneAnswer ==
    ASSUME RouterInv, RouterInv', NEW n \in Methods, NEW p \in Patterns, NEW h \in Handlers,
           Add(n, p, h), NEW m \in Methods, NEW path \in Paths
    PROVE  \/ MatchRoute(This, m, path)' = MatchRoute(This, m, path)
           \/ TakesOver(m, path)
           \/ BecomesKnown(m, path)
<1> DEFINE F == {q \in Live(This, m) : Fits(q, path)}
           G == {q \in Live(This, m)' : Fits(q, path)}
           K == \E q \in Known(This) : MatchesAnyMethod(q, path)
           L == \E q \in Known(This)' : MatchesAnyMethod(q, path)
           before == MatchRoute(This, m, path)
           after == MatchRoute(This, m, path)'
<1>1. before = IF F = {}
               THEN [outcome |-> IF K THEN "MethodNotAllowed" ELSE "NotFound", handler |-> None]
               ELSE [outcome |-> "Ok", handler |-> inner[m][BestOf(F)]]
  BY DEF MatchRoute, This
<1>2. after = IF G = {}
              THEN [outcome |-> IF L THEN "MethodNotAllowed" ELSE "NotFound", handler |-> None]
              ELSE [outcome |-> "Ok", handler |-> inner'[m][BestOf(G)]]
  BY DEF MatchRoute, This
<1>3. asked' = <<n, p>> /\ asked'[1] = n /\ asked'[2] = p
  BY DEF Add
<1>4. \/ G = F
      \/ G = F \cup {p} /\ p \notin F /\ Fits(p, path) /\ n = m /\ result' = "Ok"
  <2>1. /\ Live(This, m) \subseteq Live(This, m)'
        /\ Live(This, m)' \subseteq Live(This, m) \cup {p}
        /\ m # n => Live(This, m)' = Live(This, m)
    BY LiveGrows DEF RouterInv
  <2>2. CASE p \in Live(This, m)' /\ p \notin Live(This, m)
    <3>1. n = m
      BY <2>1, <2>2
    <3>2. result' = "Ok"
      BY <2>2, <3>1 DEF Add, Live, This
    <3>3. QED
      BY <2>1, <2>2, <3>1, <3>2
  <2>3. CASE ~(p \in Live(This, m)' /\ p \notin Live(This, m))
    <3>1. Live(This, m)' = Live(This, m)
      BY <2>1, <2>3
    <3>2. QED
      BY <3>1
  <2>4. QED
    BY <2>2, <2>3
<1>5. F \in SUBSET Patterns /\ G \in SUBSET Patterns /\ HasBest(F) /\ HasBest(G)
  BY DEF RouterInv, BestIsUnique, HasBest, Live, This
<1>6. CASE G = F /\ F # {}
  <2>1. BestOf(F) \in F
    <3>1. PICK b \in F : \A q \in F \ {b} : Preferred(b, q)
      BY <1>5, <1>6 DEF HasBest
    <3>2. QED
      BY <1>5, <3>1, BestOfIs
  <2>2. inner'[m][BestOf(F)] = inner[m][BestOf(F)]
    BY <2>1, HandlerStays
  <2> HIDE DEF F, G, K, L, before, after
  <2>3. after = before
    BY <1>1, <1>2, <1>6, <2>2
  <2>4. QED
    BY <2>3 DEF before, after
<1>7. CASE G = {} /\ F = {}
  <2>1. Known(This)' = Known(This) \cup {p}
    BY DEF Known, This, Add, Noted, RouterInv, TypeOK
  <2>2. (L <=> K) \/ (~K /\ L /\ MatchesAnyMethod(p, path))
    BY <2>1
  <2> HIDE DEF F, G, K, L, before, after
  <2>3. \/ after = before
        \/ /\ before.outcome = "NotFound"
           /\ after = [outcome |-> "MethodNotAllowed", handler |-> None]
           /\ MatchesAnyMethod(p, path)
    BY <1>1, <1>2, <1>7, <2>2
  <2>4. QED
    BY <1>3, <2>3 DEF before, after, BecomesKnown
<1>8. CASE G = F \cup {p} /\ p \notin F /\ Fits(p, path) /\ n = m /\ result' = "Ok"
  <2>1. PICK b \in G : \A q \in G \ {b} : Preferred(b, q)
    BY <1>5, <1>8 DEF HasBest
  <2>2. BestOf(G) = b
    BY <1>5, <2>1, BestOfIs
  <2>3. CASE b = p
    <3>1. \A q \in Live(This, m) : Fits(q, path) => Preferred(p, q)
      BY <1>8, <2>1, <2>3
    <3> HIDE DEF F, G, K, L, before, after
    <3>2. after = [outcome |-> "Ok", handler |-> inner'[m][p]]
      BY <1>2, <1>8, <2>2, <2>3
    <3>3. QED
      BY <1>3, <1>8, <3>1, <3>2 DEF after, TakesOver
  <2>4. CASE b # p
    <3>1. b \in F /\ BestOf(F) = b
      BY <1>5, <1>8, <2>1, <2>4, BestOfIs
    <3>2. inner'[m][b] = inner[m][b]
      BY <3>1, HandlerStays
    <3> HIDE DEF F, G, K, L, before, after
    <3>3. after = before
      BY <1>1, <1>2, <1>8, <2>2, <3>1, <3>2
    <3>4. QED
      BY <3>3 DEF before, after
  <2>5. QED
    BY <2>3, <2>4
<1>9. QED
  BY <1>4, <1>6, <1>7, <1>8

-----------------------------------------------------------------------------
(* The theorems *)

\* The state of the router keeps its type.
THEOREM TypeCorrect == Spec => []TypeOK
<1>1. RouterInv => TypeOK
  BY DEF RouterInv
<1>2. QED
  BY <1>1, Invariant, PTL

\* Router::add keeps its three books in agreement.
THEOREM BooksAlwaysAgree == Spec => []BooksAgree
<1>1. RouterInv => BooksAgree
  BY DEF RouterInv
<1>2. QED
  BY <1>1, Invariant, PTL

\* The early return of Router::add on a duplicate never turns away a route
\* that the tree would take.
THEOREM RejectionIsFinal == Spec => []RejectedForGood
<1>1. RouterInv => RejectedForGood
  BY DEF RouterInv
<1>2. QED
  BY <1>1, Invariant, PTL

\* A registration changes the answer of a request only by being accepted for its
\* method and fitting its path better than every route there, or by turning a
\* 404 into a 405 where its pattern matches segment by segment.
THEOREM AnswersAlwaysStand == Spec => AnswersStand
<1>1. RouterInv /\ RouterInv' /\ [Next]_rvars =>
          [\A m \in Methods, path \in Paths :
              \/ MatchRoute(This, m, path)' = MatchRoute(This, m, path)
              \/ TakesOver(m, path)
              \/ BecomesKnown(m, path)]_<<inner, allPatterns>>
  <2> SUFFICES ASSUME RouterInv, RouterInv', Next, NEW m \in Methods, NEW path \in Paths
               PROVE  \/ MatchRoute(This, m, path)' = MatchRoute(This, m, path)
                      \/ TakesOver(m, path)
                      \/ BecomesKnown(m, path)
    BY DEF rvars
  <2>1. QED
    BY OneAnswer DEF Next
<1>2. QED
  BY <1>1, Invariant, PTL DEF AnswersStand, Spec

\* A 404 of match_route hides no live route but a catch-all.
THEOREM NotFoundSound == Spec => []NotFoundIsSound
<1>1. RouterInv => NotFoundIsSound
  <2> SUFFICES ASSUME RouterInv, NEW m \in Methods, NEW path \in Paths,
                      MatchRoute(This, m, path).outcome = "NotFound",
                      NEW o \in Methods, NEW p \in Live(This, o), Fits(p, path),
                      ~EndsInCatchAll(p)
               PROVE  FALSE
    BY DEF NotFoundIsSound
  <2>1. ~\E q \in Known(This) : MatchesAnyMethod(q, path)
    BY DEF MatchRoute
  <2>2. p \in Known(This)
    BY DEF RouterInv, BooksAgree, Live, Known, This
  <2>3. MatchesAnyMethod(p, path)
    BY FitsMatches, PatternsAssumption DEF Live
  <2>4. QED
    BY <2>1, <2>2, <2>3
<1>2. QED
  BY <1>1, Invariant, PTL

\* A 405 of match_route has one of three reasons.
THEOREM NotAllowedExplained == Spec => []NotAllowedIsExplained
<1>1. RouterInv => NotAllowedIsExplained
  <2> SUFFICES ASSUME RouterInv, NEW m \in Methods, NEW path \in Paths,
                      MatchRoute(This, m, path).outcome = "MethodNotAllowed",
                      ~HasEmptySegment(path)
               PROVE  \/ \E o \in Methods \ {m} : \E p \in Live(This, o) : Fits(p, path)
                      \/ \E p \in Known(This) :
                            /\ MatchesAnyMethod(p, path)
                            /\ \A o \in Methods : p \notin Live(This, o)
    BY DEF NotAllowedIsExplained
  <2>1. {p \in Live(This, m) : Fits(p, path)} = {}
    BY DEF MatchRoute
  <2>2. PICK p \in Known(This) : MatchesAnyMethod(p, path)
    BY DEF MatchRoute
  <2>3. CASE \E o \in Methods : p \in Live(This, o)
    <3>1. PICK o \in Methods : p \in Live(This, o)
      BY <2>3
    <3>2. Fits(p, path)
      BY <2>2, <3>1, MatchesFits, PatternsAssumption DEF RouterInv, LiveIsWellFormed, Live
    <3>3. QED
      BY <2>1, <3>1, <3>2
  <2>4. QED
    BY <2>2, <2>3
<1>2. QED
  BY <1>1, Invariant, PTL

\* The abstract table refuses what the tree refuses.
LEMMA TableInsertFails ==
    ASSUME NEW live, NEW p
    PROVE  Table!InsertFails(live, p) <=> InsertFails(live, p)
  BY DEF InsertFails, Malformed, Clashes, SameShape, Table!InsertFails,
         Table!Malformed, Table!Clashes, Table!SameShape

\* Router::add implements the abstract table of routes.
THEOREM RefinesTable == Spec => ImplementsTable
<1>1. Init => Table!TInit
  BY DEF Init, NoRoutes, Table!TInit
<1>2. RouterInv /\ [Next]_rvars => [Table!TNext]_Table!tvars
  <2> SUFFICES ASSUME RouterInv, [Next]_rvars PROVE [Table!TNext]_Table!tvars
    OBVIOUS
  <2>1. CASE UNCHANGED rvars
    BY <2>1 DEF rvars, Table!tvars
  <2>2. ASSUME NEW m \in Methods, NEW p \in Patterns, NEW h \in Handlers,
               Add(m, p, h)
        PROVE  Table!TNext
    <3>1. Table!Taken(m) = Live(This, m) /\ asked' = <<m, p>>
      BY <2>2 DEF Table!Taken, Live, This, Add
    <3>2. CASE Duplicate(m, p)
      <4>1. InsertFails(Live(This, m), p)
        <5>1. CASE p \in Live(This, m)
          BY <5>1, ClashesItself, PatternsAssumption DEF InsertFails
        <5>2. CASE p \notin Live(This, m)
          BY <3>2, <5>2 DEF RouterInv, RejectedForGood, Duplicate
        <5>3. QED
          BY <5>1, <5>2
      <4>2. result' = "Conflict" /\ UNCHANGED inner
        BY <2>2, <3>2 DEF Add
      <4>3. Table!Reject(m, p)
        BY <3>1, <4>1, <4>2, TableInsertFails DEF Table!Reject
      <4>4. QED
        BY <4>3 DEF Table!TNext
    <3>3. CASE ~Duplicate(m, p) /\ ~Insertable(m, p)
      <4>1. result' = "InvalidPattern" /\ UNCHANGED inner
        BY <2>2, <3>3 DEF Add, Refusal
      <4>2. Table!Reject(m, p)
        BY <3>1, <3>3, <4>1, TableInsertFails DEF Table!Reject, Insertable
      <4>3. QED
        BY <4>2 DEF Table!TNext
    <3>4. CASE ~Duplicate(m, p) /\ Insertable(m, p)
      <4>1. result' = "Ok" /\ inner' = [inner EXCEPT ![m][p] = h]
        BY <2>2, <3>4 DEF Add
      <4>2. Table!Accept(m, p, h)
        BY <3>1, <3>4, <4>1, TableInsertFails DEF Table!Accept, Insertable
      <4>3. QED
        BY <4>2 DEF Table!TNext
    <3>5. QED
      BY <3>2, <3>3, <3>4
  <2>3. QED
    BY <2>1, <2>2 DEF Next
<1>3. QED
  BY <1>1, <1>2, Invariant, PTL DEF Spec, ImplementsTable, Table!TSpec
=============================================================================
