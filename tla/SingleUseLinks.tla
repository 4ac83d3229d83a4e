--------------------------- MODULE SingleUseLinks ---------------------------
(***************************************************************************)
(* What the mailed links promise, with nothing of how the database keeps   *)
(* the promise.  Each holder (an account and a kind of link) has at most   *)
(* one link that works: the newest one issued to it.  Issuing replaces in  *)
(* one step, and a link that works does its work once.                     *)
(***************************************************************************)
EXTENDS Naturals

CONSTANTS
  Tokens,
  HolderOf   \* token -> <<account, kind>>

VARIABLES
  link,      \* "NONE", "LIVE", "USED" or "VOID" (replaced before it was used)
  uses       \* how often the link changed the account

Init ==
  /\ link = [t \in Tokens |-> "NONE"]
  /\ uses = [t \in Tokens |-> 0]

Issue(t) ==
  /\ link[t] = "NONE"
  /\ link' = [x \in Tokens |->
                CASE x = t -> "LIVE"
                  [] x # t /\ link[x] = "LIVE" /\ HolderOf[x] = HolderOf[t] -> "VOID"
                  [] OTHER -> link[x]]
  /\ UNCHANGED uses

Use(t) ==
  /\ link[t] = "LIVE"
  /\ link' = [link EXCEPT ![t] = "USED"]
  /\ uses' = [uses EXCEPT ![t] = @ + 1]

Next == \E t \in Tokens : Issue(t) \/ Use(t)

Spec == Init /\ [][Next]_<<link, uses>>

\* A link does its work once at most, and a replaced one never does.
WorksOnce ==
  \A t \in Tokens : uses[t] = IF link[t] = "USED" THEN 1 ELSE 0

\* At most one link of a holder works at any moment.
OneLivePerHolder ==
  \A t, x \in Tokens :
    link[t] = "LIVE" /\ link[x] = "LIVE" /\ HolderOf[t] = HolderOf[x] => t = x
=============================================================================
