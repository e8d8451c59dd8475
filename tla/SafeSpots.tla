------------------------------ MODULE SafeSpots ------------------------------
(***************************************************************************)
(* What a WaitPointSystem promises: a wait point is a safe place to hold,  *)
(* occupied by one robot at a time until that robot's occupation is        *)
(* released, and a robot is sent to the first point of its list that is    *)
(* free.  Queues, uuids and all times but the present are hidden: a point  *)
(* that was released rests until the clock has moved on.                   *)
(***************************************************************************)
EXTENDS Naturals, Sequences

CONSTANTS Points, Robots, Lists

VARIABLES
    spots,      \* the points each robot occupies
    resting     \* the points released since the clock last moved

spotVars == <<spots, resting>>

SpotsTypeOK ==
    /\ spots \in [Robots -> SUBSET Points]
    /\ resting \subseteq Points

Occupied == UNION {spots[r] : r \in Robots}

\* A request is strictly later than the release of every point it may get.
Free(p) == p \notin Occupied /\ p \notin resting

SpotsInit ==
    /\ spots = [r \in Robots |-> {}]
    /\ resting = {}

\* A robot is sent to the first free point of its list.
Occupy(r, list) ==
    \E i \in 1..Len(list) :
        /\ Free(list[i])
        /\ \A j \in 1..(i - 1) : ~Free(list[j])
        /\ spots' = [spots EXCEPT ![r] = @ \cup {list[i]}]
        /\ UNCHANGED resting

\* There is none: an error, and nothing changes.
Refused(list) == \A i \in 1..Len(list) : ~Free(list[i])

\* A robot gives up a point it occupies.
Vacate(r, p) ==
    /\ p \in spots[r]
    /\ spots' = [spots EXCEPT ![r] = @ \ {p}]
    /\ resting' = resting \cup {p}

\* Time passes between calls.
ClockMoves ==
    /\ resting' = {}
    /\ UNCHANGED spots

SpotsNext ==
    \/ \E r \in Robots, list \in Lists : Occupy(r, list)
    \/ \E r \in Robots, p \in Points : Vacate(r, p)
    \/ ClockMoves

SpotsSpec == SpotsInit /\ [][SpotsNext]_spotVars

\* No two robots are ever sent to hold at the same point.
SpotsExclusive ==
    \A r, q \in Robots : r # q => spots[r] \cap spots[q] = {}
=============================================================================
