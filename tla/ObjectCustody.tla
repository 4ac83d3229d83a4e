--------------------------- MODULE ObjectCustody ---------------------------
(***************************************************************************)
(* What private media promises, without intents, jobs, leases or clocks.   *)
(* An object is staged, may become the live object of its owner, and is    *)
(* erased only after it was condemned; a live object is always stored.     *)
(***************************************************************************)
CONSTANTS Objects, Owners, OwnerOf

VARIABLES
  custody,  \* what the club's database says of each object
  stored    \* the objects the bucket holds

vars == <<custody, stored>>

Custodies == {"NEW", "STAGED", "LIVE", "CONDEMNED", "GONE"}

TypeOK == custody \in [Objects -> Custodies] /\ stored \in SUBSET Objects

Init == custody = [o \in Objects |-> "NEW"] /\ stored = {}

Become(o, state) == custody' = [custody EXCEPT ![o] = state]

\* The name of the object is on record before its bytes are sent.
Stage(o) == custody[o] = "NEW" /\ Become(o, "STAGED") /\ UNCHANGED stored

Store(o) == custody[o] # "NEW" /\ stored' = stored \cup {o} /\ UNCHANGED custody

\* An object goes live in place of the one its owner showed before.
Publish(o) ==
  /\ custody[o] = "STAGED"
  /\ o \in stored
  /\ custody' = [p \in Objects |->
                   IF p = o THEN "LIVE"
                   ELSE IF OwnerOf[p] = OwnerOf[o] /\ custody[p] = "LIVE"
                   THEN "CONDEMNED" ELSE custody[p]]
  /\ UNCHANGED stored

\* The owner takes the live object down.
Retire(o) == custody[o] = "LIVE" /\ Become(o, "CONDEMNED") /\ UNCHANGED stored

\* A staged object is given up.
Condemn(o) == custody[o] = "STAGED" /\ Become(o, "CONDEMNED") /\ UNCHANGED stored

Erase(o) == /\ custody[o] \in {"CONDEMNED", "GONE"}
            /\ stored' = stored \ {o}
            /\ UNCHANGED custody

Dispose(o) == custody[o] = "CONDEMNED" /\ Become(o, "GONE") /\ UNCHANGED stored

Next == \E o \in Objects : \/ Stage(o) \/ Store(o) \/ Publish(o) \/ Retire(o)
                           \/ Condemn(o) \/ Erase(o) \/ Dispose(o)

Spec == Init /\ [][Next]_vars

\* A live object can be shown: its bytes are in the bucket.
LiveIsStored == \A o \in Objects : custody[o] = "LIVE" => o \in stored

\* An owner never shows two objects.
OneLivePerOwner ==
  \A o, p \in Objects : custody[o] = "LIVE" /\ custody[p] = "LIVE"
                        /\ OwnerOf[o] = OwnerOf[p] => o = p
=============================================================================
