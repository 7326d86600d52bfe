------------------------------- MODULE Matchit -------------------------------
(***************************************************************************)
(* The crate matchit 0.8, as rustapi-engine uses it: Router::insert and    *)
(* Router::at.  It is a dependency, not part of the repository, so only    *)
(* what router.rs relies on is stated here.                                *)
(*                                                                         *)
(* A pattern is the sequence of its segments, a path the sequence of the   *)
(* texts between its slashes; the empty text before the first slash, which *)
(* every pattern and path share, is left out ("/" is the sequence of one   *)
(* empty text).  A segment is                                              *)
(*   static    a literal text,                                             *)
(*   param     {name}, one non-empty segment of the path,                  *)
(*   catchall  {*name}, the non-empty rest of the path,                    *)
(*   open      a brace that is never closed, such as "{id".                *)
(* Names matter for the text of a pattern, never for what it matches.      *)
(***************************************************************************)
EXTENDS Naturals, Sequences

Kinds == {"static", "param", "catchall", "open"}

Segments == [kind : Kinds, text : STRING]

EndsInCatchAll(p) == p # <<>> /\ p[Len(p)].kind = "catchall"

SegmentFits(seg, s) ==
    \/ seg.kind = "static" /\ s = seg.text
    \/ seg.kind \in {"param", "catchall"} /\ s # ""

\* The paths a pattern in the tree matches.
Fits(p, path) ==
    /\ Len(path) = Len(p) \/ (EndsInCatchAll(p) /\ Len(path) > Len(p))
    /\ \A i \in DOMAIN p :
          \/ SegmentFits(p[i], path[i])
          \/ p[i].kind = "catchall" /\ Len(path) > Len(p)

Malformed(p) ==
    \E i \in DOMAIN p :
        \/ p[i].kind = "open"
        \/ p[i].kind = "catchall" /\ i # Len(p)

SameShape(a, b) == a.kind = b.kind /\ (a.kind = "static" => a.text = b.text)

\* Two patterns that cannot share a tree: they match the same paths, or a
\* parameter and a catch-all compete for one position.
Clashes(p, q) ==
    \/ Len(p) = Len(q) /\ \A i \in DOMAIN p : SameShape(p[i], q[i])
    \/ \E i \in DOMAIN p \cap DOMAIN q :
          /\ {p[i].kind, q[i].kind} = {"param", "catchall"}
          /\ \A j \in 1..(i - 1) : SameShape(p[j], q[j])

\* Router::insert fails on a tree that holds the patterns in live.
InsertFails(live, p) == Malformed(p) \/ \E q \in live : Clashes(p, q)

Rank(seg) == CASE seg.kind = "static" -> 0
               [] seg.kind = "param" -> 1
               [] OTHER -> 2

\* Router::at prefers static text to a parameter and that to a catch-all, at
\* the first segment where two fitting patterns differ.
Preferred(p, q) ==
    \E i \in DOMAIN p \cap DOMAIN q :
        /\ Rank(p[i]) < Rank(q[i])
        /\ \A j \in 1..(i - 1) : Rank(p[j]) = Rank(q[j])

BestOf(fitting) == CHOOSE p \in fitting : \A q \in fitting \ {p} : Preferred(p, q)
=============================================================================
