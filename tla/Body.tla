--------------------------------- MODULE Body ---------------------------------
(***************************************************************************)
(* collect_body (crates/rustapi-engine/src/server.rs): the frames of a     *)
(* request's body arrive one by one and are collected up to a maximum.     *)
(***************************************************************************)
EXTENDS Naturals, Sequences

CONSTANTS MaxBody,  \* max_body_size of the configuration
          Chunks    \* the data a frame may carry, sequences of bytes

ASSUME BodyAssumption == MaxBody \in Nat /\ Chunks \subseteq Seq(Nat)

VARIABLES collected,  \* the data taken over so far
          remaining,  \* how many bytes may still come
          body,       \* "reading", or how the loop ended
          sent        \* history: the data of every frame that arrived

bvars == <<collected, remaining, body, sent>>

BodyTypeOK ==
    /\ collected \in Seq(Nat) /\ sent \in Seq(Nat)
    /\ remaining \in 0..MaxBody
    /\ body \in {"reading", "whole", "refused", "broken"}

BodyInit ==
    /\ collected = <<>> /\ sent = <<>>
    /\ remaining = MaxBody
    /\ body = "reading"

\* Seeded fault: the limit is compared with what came so far.
WithinLimit(data) == Len(data) <= MaxBody

Room(data) == Len(data) <= remaining

\* A frame with data.
DataFrame(data) ==
    /\ body = "reading"
    /\ sent' = sent \o data
    /\ \/ /\ Room(data)
          /\ remaining' = remaining - Len(data)
          /\ collected' = collected \o data
          /\ UNCHANGED body
       \/ /\ ~Room(data)
          /\ body' = "refused"
          /\ UNCHANGED <<collected, remaining>>

\* A frame with trailers carries no data and is passed over.
TrailersFrame == body = "reading" /\ UNCHANGED bvars

\* There is no further frame, or the connection fails.
BodyEnds ==
    /\ body = "reading"
    /\ body' \in {"whole", "broken"}
    /\ UNCHANGED <<collected, remaining, sent>>

BodyNext == (\E data \in Chunks : DataFrame(data)) \/ TrailersFrame \/ BodyEnds

BodySpec == BodyInit /\ [][BodyNext]_bvars

-----------------------------------------------------------------------------

\* However a body is cut into frames, what the handler is given is all that was
\* sent, and a body is refused exactly when it is longer than the maximum.
CollectedWhole ==
    /\ body = "whole" => collected = sent /\ Len(sent) <= MaxBody
    /\ body = "refused" => Len(sent) > MaxBody
=============================================================================
