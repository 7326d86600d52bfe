------------------------------- MODULE MCNexus -------------------------------
(* Model values for checking Nexus. *)
EXTENDS Nexus

MCMembers == {[id |-> "m1", email |-> "e1", name |-> "n1"],
              [id |-> "m2", email |-> "e2", name |-> "n2"]}
=============================================================================
