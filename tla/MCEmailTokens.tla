--------------------------- MODULE MCEmailTokens ---------------------------
(* Small instances of EmailTokens: whose tokens there are, and of which kind. *)
EXTENDS EmailTokens, TLC

CONSTANTS u1, t1, t2, t3, e1, e2, p1, p2

OneUser       == [t \in Tokens |-> u1]
Verifications == [t \in Tokens |-> "EMAIL_VERIFICATION"]
Resets        == [t \in Tokens |-> "PASSWORD_RESET"]

\* Nothing tells one request from another, nor two tokens of one kind.
AnyOrder      == Permutations(Requests) \cup Permutations(Tokens)

StartsAtE1    == u1 :> e1
StartsWithP1  == u1 :> p1
=============================================================================
