------------------------ MODULE MCGuardianAuthority ------------------------
EXTENDS GuardianAuthority, TLC

CONSTANTS s1, s2, ana, rui, q1, q2, q3, e1, e2

Later  == [s \in Subjects |-> 9]
First  == [s \in Subjects |-> 1]
Symmetry == Permutations(Requests) \cup Permutations(Admins)
EmailSymmetry == Permutations(Emails)
=============================================================================
