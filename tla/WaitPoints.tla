------------------------------ MODULE WaitPoints ------------------------------
(***************************************************************************)
(* WaitPointSystem of src/wait_points/wait_points.rs: one queue of         *)
(* occupations per wait point.  The last occupation of a queue is open     *)
(* (time None) until it is released at a time; the point is free again for *)
(* requests strictly later than that.                                      *)
(*                                                                         *)
(* The clients are the robots.  Calls carry the time they are made at, as  *)
(* the reservation system makes them (src/database/mod.rs), and a robot    *)
(* releases a point only while it stands on it.                            *)
(***************************************************************************)
EXTENDS Naturals, Sequences, FiniteSets

CONSTANTS
    Points,         \* the wait points of the map
    Robots,
    Lists,          \* the preference lists robots ask with
    MaxTime,        \* bound on the clock
    MaxQueue        \* bound on the length of a queue

ASSUME WaitPointsAssumption ==
    /\ IsFiniteSet(Points) /\ IsFiniteSet(Robots)
    /\ Lists \subseteq Seq(Points)
    /\ MaxTime \in Nat
    /\ MaxQueue \in Nat

Times == 0..MaxTime
None == MaxTime + 1     \* Option<DateTime>::None

\* WaitPointInfo.  The uuid drawn for a grant stands for the robot that got it.
WaitPointInfo == [time : Times \cup {None}, uuid : Robots]

VARIABLES
    now,            \* the clock
    wait_points,    \* per point its queue; a missing entry is an empty queue
    spots           \* where the robots stand: granted and not yet released

vars == <<now, wait_points, spots>>

TypeOK ==
    /\ now \in Times
    /\ wait_points \in [Points -> Seq(WaitPointInfo)]
    /\ spots \in [Robots -> SUBSET Points]

Init ==
    /\ now = 0
    /\ wait_points = [p \in Points |-> <<>>]
    /\ spots = [r \in Robots |-> {}]

Back(q) == q[Len(q)]
Open(q) == q # <<>> /\ Back(q).time = None

\* Mutant of IsFree: <= for <.
IsFreeAtOnce(p, time) ==
    wait_points[p] # <<>> =>
        Back(wait_points[p]).time # None /\ Back(wait_points[p]).time <= time

\* is_free: nothing queued, or the last occupation was released before `time`.
IsFree(p, time) ==
    wait_points[p] # <<>> =>
        Back(wait_points[p]).time # None /\ Back(wait_points[p]).time < time

\* Mutant of RequestWaitpoint: the new occupation is put at the front.
RequestWaitpointFront(r, list) ==
    \E i \in 1..Len(list) :
        /\ IsFree(list[i], now)
        /\ \A j \in 1..(i - 1) : ~IsFree(list[j], now)
        /\ Len(wait_points[list[i]]) < MaxQueue
        /\ wait_points' = [wait_points EXCEPT ![list[i]] = <<[time |-> None, uuid |-> r]>> \o @]
        /\ spots' = [spots EXCEPT ![r] = @ \cup {list[i]}]
        /\ UNCHANGED now

\* request_waitpoint: the first listed point that is free.  A list with no
\* free point gives an error and changes nothing.
RequestWaitpoint(r, list) ==
    \E i \in 1..Len(list) :
        /\ IsFree(list[i], now)
        /\ \A j \in 1..(i - 1) : ~IsFree(list[j], now)
        /\ Len(wait_points[list[i]]) < MaxQueue
        /\ wait_points' = [wait_points EXCEPT ![list[i]] = Append(@, [time |-> None, uuid |-> r])]
        /\ spots' = [spots EXCEPT ![r] = @ \cup {list[i]}]
        /\ UNCHANGED now

\* Mutant of ReleaseWaitpoint: front_mut for back_mut.
ReleaseWaitpointFront(r, p) ==
    /\ p \in spots[r]
    /\ wait_points' = [wait_points EXCEPT ![p][1].time = now]
    /\ spots' = [spots EXCEPT ![r] = @ \ {p}]
    /\ UNCHANGED now

\* Mutant of ReleaseWaitpoint: the point stays blocked for a while longer.
ReleaseWaitpointLater(r, p) ==
    /\ p \in spots[r]
    /\ wait_points' = [wait_points EXCEPT ![p][Len(wait_points[p])].time = now + 2]
    /\ spots' = [spots EXCEPT ![r] = @ \ {p}]
    /\ UNCHANGED now

\* release_waitpoint_at_time: stamps the last occupation, whoever's it is.
ReleaseWaitpoint(r, p) ==
    /\ p \in spots[r]
    /\ wait_points[p] # <<>>
    /\ wait_points' = [wait_points EXCEPT ![p][Len(wait_points[p])].time = now]
    /\ spots' = [spots EXCEPT ![r] = @ \ {p}]
    /\ UNCHANGED now

\* Mutant of Expired: an occupation without a time counts as over.
ExpiredOrOpen(info) == info.time = None \/ info.time < now

\* The occupations flush_until drops: released, and before the given time.
Expired(info) == info.time # None /\ info.time < now

\* flush_until pops each queue up to its first occupation that must stay.
FlushUntil ==
    \E cut \in [Points -> 0..MaxQueue] :
        /\ \A p \in Points :
              /\ cut[p] <= Len(wait_points[p])
              /\ \A i \in 1..cut[p] : Expired(wait_points[p][i])
              /\ cut[p] < Len(wait_points[p]) => ~Expired(wait_points[p][cut[p] + 1])
        /\ wait_points' = [p \in Points |-> SubSeq(wait_points[p], cut[p] + 1, Len(wait_points[p]))]
        /\ UNCHANGED <<now, spots>>

\* Time passes between calls.
Tick ==
    /\ now < MaxTime
    /\ now' = now + 1
    /\ UNCHANGED <<wait_points, spots>>

Next ==
    \/ \E r \in Robots, list \in Lists : RequestWaitpoint(r, list)
    \/ \E r \in Robots, p \in Points : ReleaseWaitpoint(r, p)
    \/ FlushUntil
    \/ Tick

Spec == Init /\ [][Next]_vars
-----------------------------------------------------------------------------
(* Properties.                                                             *)

\* The queues remember exactly who stands where: a point is open if and only
\* if its last occupant has not released it (request, release and flush keep
\* the back of the queue and the map in step).
QueueMatchesMap ==
    \A r \in Robots, p \in Points :
        p \in spots[r] <=> Open(wait_points[p]) /\ Back(wait_points[p]).uuid = r

\* Occupations of one point follow each other in time, all but the last one
\* released: the history a queue holds never runs backwards.
HistoryOrdered ==
    \A p \in Points :
        \A i \in 1..(Len(wait_points[p]) - 1) :
            /\ wait_points[p][i].time < wait_points[p][i + 1].time
            /\ wait_points[p][i].time <= now

\* A robot without a spot finds one when no robot has more than one and there
\* are as many points as robots ("the same or more wait points than robots on
\* a map"), at the latest one tick after the last release.
EnoughPoints ==
    /\ Cardinality(Robots) <= Cardinality(Points)
    /\ \A r \in Robots : Cardinality(spots[r]) <= 1
    => \A r \in Robots : spots[r] = {} => \E p \in Points : IsFree(p, now + 1)

\* Points released at this very moment: they are not free again yet.
Resting == {p \in Points : wait_points[p] # <<>> /\ Back(wait_points[p]).time = now}

\* Seen from outside, the queues are a set of exclusively occupied points, of
\* which a request takes the first of its list that is neither occupied nor
\* released within the same clock reading.
Spots == INSTANCE SafeSpots WITH resting <- Resting
ImplementsSpots == Spots!SpotsSpec

\* No two robots are ever sent to hold at the same point, whatever requests,
\* releases and flushes come between.
SpotsExclusive == Spots!SpotsExclusive
=============================================================================
