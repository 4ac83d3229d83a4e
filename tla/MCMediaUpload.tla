--------------------------- MODULE MCMediaUpload ---------------------------
(* Small instances of MediaUpload: which uploads go to which row.          *)
EXTENDS MediaUpload, TLC

CONSTANTS u1, u2, u3, s1, s2, k1, r1, w1, w2

TwoOnOneSource == (u1 :> s1) @@ (u2 :> s1)
OnSourcesOfTheirOwn == (u1 :> s1) @@ (u2 :> s2)
OneUpload   == u1 :> s1
Profile     == s1 :> "PROFILE"
Equipment   == s1 :> "EQUIPMENT"
Repairs     == (s1 :> "REPAIR") @@ (s2 :> "REPAIR")
SameKey     == [i \in Uploads |-> k1]
RemovesPhoto == [r \in Removals |-> s1]
=============================================================================
