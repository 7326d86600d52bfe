----------------------------- MODULE RouteTable -----------------------------
(***************************************************************************)
(* What registering routes promises: one table of handlers per HTTP        *)
(* method.  A registration is accepted exactly when the method's table can *)
(* still take the pattern; an accepted handler keeps its place for good,   *)
(* and a rejected registration changes nothing.                            *)
(***************************************************************************)
EXTENDS Matchit

CONSTANTS Methods, Patterns, Handlers, None

VARIABLES table,  \* table[m][p]: the handler of (m, p), or None
          asked,  \* the method and pattern of the last registration
          reply   \* what it was told

tvars == <<table, asked, reply>>

Taken(m) == {p \in Patterns : table[m][p] # None}

TInit == /\ table = [m \in Methods |-> [p \in Patterns |-> None]]
         /\ asked = None
         /\ reply = "none"

Accept(m, p, h) ==
    /\ ~InsertFails(Taken(m), p)
    /\ table' = [table EXCEPT ![m][p] = h]
    /\ asked' = <<m, p>>
    /\ reply' = "accepted"

Reject(m, p) ==
    /\ InsertFails(Taken(m), p)
    /\ asked' = <<m, p>>
    /\ reply' = "rejected"
    /\ UNCHANGED table

TNext == \E m \in Methods, p \in Patterns :
            \/ Reject(m, p)
            \/ \E h \in Handlers : Accept(m, p, h)

TSpec == TInit /\ [][TNext]_tvars
=============================================================================
