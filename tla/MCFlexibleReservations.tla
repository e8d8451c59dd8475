------------------------ MODULE MCFlexibleReservations ------------------------
(* Instances of FlexibleReservations for TLC.                               *)
EXTENDS FlexibleReservations, TLC

CONSTANTS p1, s1, s2

\* A robot that wants the charger, one that would also take the dock for good
\* (no duration: chosen, but left out of the schedule), one that only waits.
Charger == Alternative("charger", TRUE)
Dock == Alternative("dock", FALSE)
SomeRequests == {<<Charger, Dock>>, <<>>}

\* All robots name one safe spot, so a claim may find none left.
SomeLists == {<<p1>>}

\* Schedules only ever compare starts.
Symmetric == Permutations(Slots)
=============================================================================
