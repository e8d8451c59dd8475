----------------------------- MODULE MCFlexibleSat -----------------------------
(* An instance of FlexibleSat for TLC: three requests of every kind there is, *)
(* for a dock and a lift; and of ReservationSchedule, on small schedules.     *)
EXTENDS FlexibleSat, Integers, Sequences

Option(res, earliest, latest, duration) ==
    [resource |-> res, earliest |-> earliest, latest |-> latest, duration |-> duration]

Robots == 1..3

\* Short and long stays on the dock; urgent ones with the lift instead; one
\* with a gap before it; one without an earliest start; one for ever; one
\* that is over.
Kinds ==
    << <<Option("dock", 1, 8, 2)>>,
       <<Option("dock", 1, 9, 3)>>,
       <<Option("dock", 1, 5, 1), Option("lift", 1, 4, 3)>>,
       <<Option("dock", 6, 7, 2)>>,
       <<Option("dock", None, 6, 2)>>,
       <<Option("dock", 2, 6, None), Option("lift", 1, None, None)>>,
       <<Option("dock", 0, 1, 1), Option("lift", 2, None, 1)>> >>

\* The order of the requests does not matter.
SomeProblems ==
    {<<Kinds[n[1]], Kinds[n[2]], Kinds[n[3]]>> :
        n \in {m \in [Robots -> DOMAIN Kinds] : m[1] <= m[2] /\ m[2] <= m[3]}}

\* Three requests that fit if the last one goes early.
Squeeze ==
    {<< <<Option("dock", 1, 8, 2)>>, <<Option("dock", 1, 8, 3)>>, <<Option("dock", 1, 5, 1)>> >>}

\* Every schedule of up to four reservations without overlaps, and every request
\* with a start: the range is what collides with it, wherever it then starts.
Schedule == INSTANCE ReservationSchedule

SmallSchedules ==
    {schedule \in UNION {[starts -> {1, 2, None}] : starts \in SUBSET (0..3)} :
        Schedule!Apart(schedule)}
SmallRequests ==
    {r \in [earliest : 0..3 \cup {None}, latest : 0..3 \cup {None}, duration : {1, 2, None}] :
        r.earliest # None /\ r.latest # None => r.earliest <= r.latest}

ASSUME RangeAssumption ==
    \A schedule \in SmallSchedules, r \in SmallRequests :
        Schedule!check_potential_conflict(schedule, r) = Schedule!Conflicting(schedule, r, -3..6)
=============================================================================
