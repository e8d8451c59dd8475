-------------------------- MODULE MCFixedReservations --------------------------
(* Instances of FixedReservations for TLC.                                  *)
EXTENDS FixedReservations

At(r, t, d) == Alternative(r, t, t, d)

\* Robots that compete for one charger, at overlapping times or at another
\* charger; one whose resource the system was never told of; one whose
\* alternative has no earliest start.
Early == <<At("c1", 1, 1)>>
Either == <<At("c1", 2, 1), At("c2", 1, 1)>>
Unknown == <<At("c3", 1, 1)>>
Floating == <<Alternative("c1", 0, 1, 1)>>
SomeRequests == {Early, Either, Unknown, Floating}
SomeResources == {"c1", "c2"}
=============================================================================
