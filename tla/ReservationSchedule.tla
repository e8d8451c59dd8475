-------------------------- MODULE ReservationSchedule --------------------------
(***************************************************************************)
(* ReservationSchedule, the schedule of one resource, and the comparisons  *)
(* of start ranges in src/lib.rs, as operators: at this commit no          *)
(* algorithm calls them.                                                   *)
(*                                                                         *)
(* A schedule is a function from starts to durations: the BTreeMap without *)
(* the indices that come with each duration.  A request has an earliest    *)
(* and a latest start and a duration, each of which may be None.           *)
(***************************************************************************)
EXTENDS Integers

CONSTANT None       \* not given; as a duration, for ever

\* satisfies_request: the start lies in the range, the duration is the one
\* asked for.
satisfies_request(r, start, duration) ==
    /\ r.earliest # None => r.earliest <= start
    /\ r.latest # None => start <= r.latest
    /\ duration = r.duration

\* is_always_after: r cannot start before `other`, which ends, has started.
is_always_after(r, other) ==
    /\ r.earliest # None
    /\ other.duration # None
    /\ other.latest # None
    /\ other.latest < r.earliest

\* insert: an assignment at the same start is overwritten.
insert(schedule, duration, start) ==
    [t \in DOMAIN schedule \cup {start} |-> IF t = start THEN duration ELSE schedule[t]]

\* garbage_collect: keeps what split_off(time) returns.
garbage_collect(schedule, time) ==
    [t \in {u \in DOMAIN schedule : u >= time} |-> schedule[t]]

\* A reservation from start on is not over at the time given.
RunsPast(start, duration, time) ==
    duration = None \/ start + duration > time

\* The last reservation that starts before the time, if it is not over then.
StillRunning(schedule, time) ==
    {t \in DOMAIN schedule :
        /\ t < time
        /\ \A u \in DOMAIN schedule : u < time => u <= t
        /\ RunsPast(t, schedule[t], time)}

\* check_potential_conflict: a range of starts.  Without an earliest start it
\* has no beginning; without a latest start or a duration it has no end.
check_potential_conflict(schedule, r) ==
    {t \in DOMAIN schedule :
        /\ r.earliest # None => t >= r.earliest \/ t \in StillRunning(schedule, r.earliest)
        /\ r.latest # None /\ r.duration # None => t < r.latest + r.duration}
-----------------------------------------------------------------------------
(* What the range should be.                                               *)

Durations == {d \in Int : d > 0} \cup {None}
MaybeTimes == Int \cup {None}
Requests == [earliest : MaybeTimes, latest : MaybeTimes, duration : Durations]
IsSchedule(schedule) ==
    /\ DOMAIN schedule \subseteq Int
    /\ \A t \in DOMAIN schedule : schedule[t] \in Durations

\* No reservation begins before an earlier one is over.
Apart(schedule) ==
    \A t, u \in DOMAIN schedule : t < u => ~RunsPast(t, schedule[t], u)

\* Two reservations use the resource at one time.
Overlap(t, d, u, e) == RunsPast(t, d, u) /\ RunsPast(u, e, t)

\* The reservations that overlap r if it starts at one of the starts it may.
Conflicting(schedule, r, starts) ==
    {t \in DOMAIN schedule :
        \E start \in starts :
            /\ satisfies_request(r, start, r.duration)
            /\ Overlap(start, r.duration, t, schedule[t])}
=============================================================================
