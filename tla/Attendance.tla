----------------------------- MODULE Attendance -----------------------------
(***************************************************************************)
(* What a club event promises its members, without requests, row locks,    *)
(* snapshots or versions: each answer, confirmation and check-in happens   *)
(* at one instant and by the state of that instant.  Who declines gives    *)
(* the seat back, who holds a seat keeps it, and nobody is put on the      *)
(* waiting list while there is a free one; who already waits goes on       *)
(* waiting until an answer or a confirmation gives the seat away.          *)
(* The clock is left out: it only forbids.                                 *)
(***************************************************************************)
EXTENDS Naturals, FiniteSets

CONSTANTS
  Members,
  Groups, GroupsOf,  \* [Members -> SUBSET Groups]
  Limits, NoLimit,   \* what may be set as the number of seats
  HasDocument,
  Links, NoLink

VARIABLES
  open,       \* the event was not cancelled
  terms,      \* kind of event, seats and invited groups: what an edit sets
  results,    \* the link to the official results
  going, waiting, declined,  \* the members by their last answer
  present     \* those who were checked in

vars == <<open, terms, results, going, waiting, declined, present>>

Terms == [type : {"GENERAL", "COMPETITION"}, capacity : Limits, audience : SUBSET Groups]

Init ==
  /\ open = TRUE
  /\ terms \in Terms /\ (HasDocument => terms.type = "COMPETITION")
  /\ results = NoLink
  /\ going = {} /\ waiting = {} /\ declined = {} /\ present = {}

Invited(m) == terms.audience = {} \/ GroupsOf[m] \cap terms.audience # {}
SeatFree   == terms.capacity # NoLimit => Cardinality(going) < terms.capacity

\* An answer withdraws a check-in, also when it repeats the last one.
Decline(m) ==
  /\ declined' = declined \cup {m}
  /\ going' = going \ {m} /\ waiting' = waiting \ {m}

TakeSeat(m) ==
  /\ m \in going \/ SeatFree
  /\ going' = going \cup {m}
  /\ waiting' = waiting \ {m} /\ declined' = declined \ {m}

Queue(m) ==
  /\ m \notin going /\ ~SeatFree
  /\ waiting' = waiting \cup {m}
  /\ declined' = declined \ {m}
  /\ UNCHANGED going

Answer(m) ==
  /\ open /\ Invited(m)
  /\ Decline(m) \/ TakeSeat(m) \/ Queue(m)
  /\ present' = present \ {m}
  /\ UNCHANGED <<open, terms, results>>

\* Staff give a free seat to somebody who waits.
Confirm(m) ==
  /\ open /\ SeatFree
  /\ m \in waiting
  /\ going' = going \cup {m} /\ waiting' = waiting \ {m}
  /\ UNCHANGED <<open, terms, results, declined, present>>

CheckIn(m) ==
  /\ open
  /\ m \in going
  /\ present' = present \cup {m}
  /\ UNCHANGED <<open, terms, results, going, waiting, declined>>

\* An edit may leave fewer seats than are taken, and groups that exclude
\* somebody who has answered; it never leaves a result on a general event.
Edit(new) ==
  /\ open
  /\ new.type = "COMPETITION" \/ (~HasDocument /\ results = NoLink)
  /\ terms' = new
  /\ UNCHANGED <<open, results, going, waiting, declined, present>>

Cancel ==
  /\ open /\ open' = FALSE
  /\ UNCHANGED <<terms, results, going, waiting, declined, present>>

LinkResults(url) ==
  /\ terms.type = "COMPETITION"
  /\ results' = url
  /\ UNCHANGED <<open, terms, going, waiting, declined, present>>

Next ==
  \/ \E m \in Members : Answer(m) \/ Confirm(m) \/ CheckIn(m)
  \/ \E new \in Terms : Edit(new)
  \/ \E url \in Links \cup {NoLink} : LinkResults(url)
  \/ Cancel

Spec == Init /\ [][Next]_vars
=============================================================================
