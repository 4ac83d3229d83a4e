----------------------- MODULE MCTrainingPublication -----------------------
(* Instances of TrainingPublication for TLC.                               *)
EXTENDS TrainingPublication

CONSTANTS w1, s1, m1, own, crew1, crew2, regatta

\* One variation for an athlete and two for crews he is in: the first wins
\* over both, and without it the two tie, unless the competition that ends the
\* first crew comes before the session.
Booking == [s \in Sessions |-> [plan |-> w1, day |-> IF s = s1 THEN LastDay ELSE 1]]
Subjects == [v \in Variations |-> s1]
LastDays == [v \in Crews |-> IF v = crew1 /\ regatta \in Competitions THEN regatta ELSE LastDay]
FirstDays == [v \in Crews |-> 1]
EndOfSeason == [e \in Competitions |-> LastDay]
StartOfSeason == [e \in Competitions |-> 1]
Targets == [v \in Variations |-> IF v = crew1 THEN Members ELSE {m1}]
=============================================================================
