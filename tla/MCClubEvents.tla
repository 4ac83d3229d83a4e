---------------------------- MODULE MCClubEvents ----------------------------
(* Small instances of ClubEvents: who belongs to which group. *)
EXTENDS ClubEvents, TLC

CONSTANTS m1, m2, g1, g2, r1, r2

NoGroups     == [m \in Members |-> {}]
OneGroupEach == m1 :> {g1} @@ m2 :> {g2}

\* Nothing tells one request from another, nor two members of the same groups.
AnyRequest == Permutations(Requests)
AnyOrder   == AnyRequest \cup Permutations(Members)
=============================================================================
