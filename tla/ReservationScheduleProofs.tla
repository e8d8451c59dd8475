----------------------- MODULE ReservationScheduleProofs -----------------------
(***************************************************************************)
(* What the range of check_potential_conflict is worth: in a schedule      *)
(* without overlaps it holds the reservations that a request can collide   *)
(* with, no more and no less.                                              *)
(***************************************************************************)
EXTENDS ReservationSchedule, TLAPS

\* A reservation that r would overlap at a start it may have is in the range.
LEMMA NoneMissed ==
    ASSUME None \notin Int, NEW S, IsSchedule(S), Apart(S), NEW r \in Requests,
           NEW t \in Conflicting(S, r, Int)
    PROVE  t \in check_potential_conflict(S, r)
<1>1. PICK start \in Int :
         satisfies_request(r, start, r.duration) /\ Overlap(start, r.duration, t, S[t])
  BY DEF Conflicting
<1>2. t \in DOMAIN S /\ t \in Int /\ S[t] \in Durations
  BY DEF Conflicting, IsSchedule
<1>3. ASSUME r.latest # None, r.duration # None PROVE t < r.latest + r.duration
  <2>1. r.latest \in Int /\ r.duration \in Int /\ start <= r.latest
    BY <1>1, <1>3 DEF satisfies_request, Requests, MaybeTimes, Durations
  <2>2. start + r.duration > t
    BY <1>1, <1>3 DEF Overlap, RunsPast
  <2> QED
    BY <1>2, <2>1, <2>2
<1>4. ASSUME r.earliest # None, ~(t >= r.earliest) PROVE t \in StillRunning(S, r.earliest)
  <2>1. r.earliest \in Int /\ r.earliest <= start
    BY <1>1, <1>4 DEF satisfies_request, Requests, MaybeTimes
  <2>2. RunsPast(t, S[t], r.earliest)
    BY <1>1, <1>2, <2>1 DEF Overlap, RunsPast, Durations
  <2>3. ASSUME NEW u \in DOMAIN S, u < r.earliest, ~(u <= t) PROVE FALSE
    <3>1. u \in Int /\ t < u
      BY <1>2, <2>3 DEF IsSchedule
    <3>2. ~RunsPast(t, S[t], u)
      BY <1>2, <3>1 DEF Apart
    <3> QED
      BY <1>2, <2>1, <2>2, <2>3, <3>1, <3>2 DEF RunsPast, Durations
  <2> QED
    BY <1>2, <1>4, <2>1, <2>2, <2>3 DEF StillRunning
<1> QED
  BY <1>2, <1>3, <1>4 DEF check_potential_conflict

\* A reservation in the range overlaps r at some start it may have.
LEMMA NoneInVain ==
    ASSUME None \notin Int, NEW S, IsSchedule(S), NEW r \in Requests,
           r.earliest # None /\ r.latest # None => r.earliest <= r.latest,
           NEW t \in check_potential_conflict(S, r)
    PROVE  t \in Conflicting(S, r, Int)
<1>1. t \in DOMAIN S /\ t \in Int /\ S[t] \in Durations
  BY DEF check_potential_conflict, IsSchedule
<1>2. r.earliest \in MaybeTimes /\ r.latest \in MaybeTimes /\ r.duration \in Durations
  BY DEF Requests
<1>3. SUFFICES \E start \in Int :
         satisfies_request(r, start, r.duration) /\ Overlap(start, r.duration, t, S[t])
  BY <1>1 DEF Conflicting
<1>4. CASE r.earliest # None /\ t < r.earliest
  <2>1. RunsPast(t, S[t], r.earliest) /\ r.earliest \in Int
    BY <1>1, <1>2, <1>4 DEF check_potential_conflict, StillRunning, MaybeTimes
  <2>2. RunsPast(r.earliest, r.duration, t)
    BY <1>1, <1>2, <1>4, <2>1 DEF RunsPast, Durations
  <2>3. satisfies_request(r, r.earliest, r.duration)
    BY <2>1, <1>4 DEF satisfies_request
  <2> QED
    BY <2>1, <2>2, <2>3 DEF Overlap
<1>5. CASE ~(r.earliest # None /\ t < r.earliest) /\ (r.latest = None \/ t <= r.latest)
  <2>1. satisfies_request(r, t, r.duration)
    BY <1>1, <1>2, <1>5 DEF satisfies_request, MaybeTimes
  <2>2. Overlap(t, r.duration, t, S[t])
    BY <1>1, <1>2 DEF Overlap, RunsPast, Durations
  <2> QED
    BY <1>1, <2>1, <2>2
<1>6. CASE r.latest # None /\ ~(t <= r.latest)
  <2>1. r.latest \in Int /\ satisfies_request(r, r.latest, r.duration)
    BY <1>2, <1>6 DEF satisfies_request, MaybeTimes
  <2>2. RunsPast(r.latest, r.duration, t)
    BY <1>6 DEF check_potential_conflict, RunsPast
  <2>3. RunsPast(t, S[t], r.latest)
    BY <1>1, <1>6, <2>1 DEF RunsPast, Durations
  <2> QED
    BY <2>1, <2>2, <2>3 DEF Overlap
<1> QED
  BY <1>4, <1>5, <1>6

\* In a schedule without overlaps the range of check_potential_conflict is
\* exactly what the request can collide with, for all schedules and requests:
\* looking at one reservation before the range is enough.
THEOREM RangeIsExact ==
    ASSUME None \notin Int, NEW S, IsSchedule(S), Apart(S), NEW r \in Requests,
           r.earliest # None /\ r.latest # None => r.earliest <= r.latest
    PROVE  check_potential_conflict(S, r) = Conflicting(S, r, Int)
<1>1. \A t : t \in Conflicting(S, r, Int) => t \in check_potential_conflict(S, r)
  BY NoneMissed
<1>2. \A t : t \in check_potential_conflict(S, r) => t \in Conflicting(S, r, Int)
  BY NoneInVain
<1> QED
  BY <1>1, <1>2

\* With an empty range a request may be inserted at any start it may have: no
\* two reservations overlap then, and no assignment is overwritten.
THEOREM InsertKeepsApart ==
    ASSUME None \notin Int, NEW S, IsSchedule(S), Apart(S), NEW r \in Requests,
           check_potential_conflict(S, r) = {},
           NEW start \in Int, satisfies_request(r, start, r.duration)
    PROVE  start \notin DOMAIN S /\ Apart(insert(S, r.duration, start))
<1>1. \A t \in DOMAIN S : t \in Int /\ ~Overlap(start, r.duration, t, S[t])
  BY NoneMissed DEF Conflicting, IsSchedule
<1>2. r.duration \in Durations /\ \A t \in DOMAIN S : S[t] \in Durations
  BY DEF Requests, IsSchedule
<1>3. start \notin DOMAIN S
  BY <1>1, <1>2 DEF Overlap, RunsPast, Durations
<1>4. ASSUME NEW t \in DOMAIN S
      PROVE  /\ t < start => ~RunsPast(t, S[t], start)
             /\ start < t => ~RunsPast(start, r.duration, t)
  BY <1>1, <1>2 DEF Overlap, RunsPast, Durations
<1>5. SUFFICES ASSUME NEW t \in DOMAIN S \cup {start}, NEW u \in DOMAIN S \cup {start}, t < u
               PROVE  ~RunsPast(t, insert(S, r.duration, start)[t], u)
  BY <1>3 DEF Apart, insert
<1>6. CASE t \in DOMAIN S /\ u \in DOMAIN S
  BY <1>3, <1>5, <1>6 DEF Apart, insert
<1>7. CASE t \in DOMAIN S /\ u = start
  BY <1>3, <1>4, <1>5, <1>7 DEF insert
<1>8. CASE t = start /\ u \in DOMAIN S
  BY <1>4, <1>5, <1>8 DEF insert
<1>9. CASE t = start /\ u = start
  BY <1>5, <1>9
<1> QED
  BY <1>6, <1>7, <1>8, <1>9

\* Where what is collected is over, no later request misses a conflict.  That
\* it is over is the caller's to know: garbage_collect looks at starts only.
THEOREM CollectingIsSafe ==
    ASSUME None \notin Int, NEW S, IsSchedule(S), NEW time \in Int,
           \A t \in DOMAIN S : t < time => ~RunsPast(t, S[t], time),
           NEW r \in Requests, r.earliest # None, r.earliest >= time
    PROVE  check_potential_conflict(garbage_collect(S, time), r) = check_potential_conflict(S, r)
<1> DEFINE C == garbage_collect(S, time)
<1>1. DOMAIN C = {u \in DOMAIN S : u >= time} /\ \A t \in DOMAIN C : C[t] = S[t]
  BY DEF garbage_collect
<1>2. r.earliest \in Int /\ \A t \in DOMAIN S : t \in Int /\ S[t] \in Durations
  BY DEF Requests, MaybeTimes, IsSchedule
<1> HIDE DEF C
<1>3. ASSUME NEW t \in DOMAIN S, t < time PROVE ~RunsPast(t, S[t], r.earliest)
  BY <1>2, <1>3 DEF RunsPast, Durations
<1>4. StillRunning(C, r.earliest) = StillRunning(S, r.earliest)
  <2>1. ASSUME NEW t \in StillRunning(S, r.earliest) PROVE t \in StillRunning(C, r.earliest)
    <3>1. t \in DOMAIN C
      BY <1>1, <1>2, <1>3 DEF StillRunning
    <3> QED
      BY <1>1, <3>1 DEF StillRunning
  <2>2. ASSUME NEW t \in StillRunning(C, r.earliest) PROVE t \in StillRunning(S, r.earliest)
    <3>1. t \in DOMAIN S /\ t >= time /\ t \in Int
      BY <1>1, <1>2 DEF StillRunning
    <3>2. ASSUME NEW u \in DOMAIN S, u < r.earliest PROVE u <= t
      BY <1>1, <1>2, <3>1, <3>2 DEF StillRunning
    <3> QED
      BY <1>1, <3>1, <3>2 DEF StillRunning
  <2> QED
    BY <2>1, <2>2
<1>5. \A t \in DOMAIN S : t >= r.earliest => t \in DOMAIN C
  BY <1>1, <1>2
<1>6. StillRunning(S, r.earliest) \subseteq DOMAIN C
  BY <1>4 DEF StillRunning
<1>7. check_potential_conflict(C, r) = check_potential_conflict(S, r)
  BY <1>1, <1>4, <1>5, <1>6 DEF check_potential_conflict
<1> QED
  BY <1>7 DEF C

\* is_always_after tells, of a request that ends, whether all its starts
\* precede all starts of another one, where both have a start at all.
THEOREM AlwaysAfterIsExact ==
    ASSUME None \notin Int, NEW r \in Requests, NEW other \in Requests, other.duration # None,
           r.earliest # None /\ r.latest # None => r.earliest <= r.latest,
           other.earliest # None /\ other.latest # None => other.earliest <= other.latest
    PROVE  is_always_after(r, other) <=>
             \A s, t \in Int :
                satisfies_request(r, s, r.duration) /\ satisfies_request(other, t, other.duration)
                  => t < s
<1>1. /\ r.earliest \in MaybeTimes /\ r.latest \in MaybeTimes
      /\ other.earliest \in MaybeTimes /\ other.latest \in MaybeTimes
  BY DEF Requests
<1> DEFINE Starts(q) == {s \in Int : satisfies_request(q, s, q.duration)}
<1>2. ASSUME is_always_after(r, other), NEW s \in Starts(r), NEW t \in Starts(other) PROVE t < s
  <2>1. r.earliest \in Int /\ other.latest \in Int
    BY <1>1, <1>2 DEF is_always_after, MaybeTimes
  <2> QED
    BY <1>2, <2>1 DEF is_always_after, satisfies_request
<1>3. ASSUME ~is_always_after(r, other)
      PROVE  \E s \in Starts(r), t \in Starts(other) : ~(t < s)
  <2>1. CASE r.earliest # None
    <3>1. r.earliest \in Int /\ r.earliest \in Starts(r)
      BY <1>1, <2>1 DEF satisfies_request, MaybeTimes
    <3>2. \E t \in Starts(other) : t >= r.earliest
      <4>1. CASE other.latest # None
        <5>1. other.latest \in Int /\ other.latest \in Starts(other)
          BY <1>1, <4>1 DEF satisfies_request, MaybeTimes
        <5> QED
          BY <1>3, <2>1, <3>1, <4>1, <5>1 DEF is_always_after
      <4>2. CASE other.latest = None /\ other.earliest # None
        <5>1. other.earliest \in Int
          BY <1>1, <4>2 DEF MaybeTimes
        <5>2. CASE other.earliest >= r.earliest
          BY <4>2, <5>1, <5>2 DEF satisfies_request
        <5>3. CASE ~(other.earliest >= r.earliest)
          <6>1. r.earliest \in Starts(other)
            BY <3>1, <4>2, <5>1, <5>3 DEF satisfies_request
          <6> QED
            BY <3>1, <6>1
        <5> QED
          BY <5>2, <5>3
      <4>3. CASE other.latest = None /\ other.earliest = None
        <5>1. r.earliest \in Starts(other)
          BY <3>1, <4>3 DEF satisfies_request
        <5> QED
          BY <3>1, <5>1
      <4> QED
        BY <4>1, <4>2, <4>3
    <3>3. PICK t \in Starts(other) : t >= r.earliest
      BY <3>2
    <3> QED
      BY <3>1, <3>3
  <2>2. CASE r.earliest = None
    <3>1. PICK t \in Int : t \in Starts(other)
      <4>1. CASE other.latest # None
        BY <1>1, <4>1 DEF satisfies_request, MaybeTimes
      <4>2. CASE other.latest = None /\ other.earliest # None
        BY <1>1, <4>2 DEF satisfies_request, MaybeTimes
      <4>3. CASE other.latest = None /\ other.earliest = None
        <5>1. 0 \in Starts(other)
          BY <4>3 DEF satisfies_request
        <5> QED
          BY <5>1
      <4> QED
        BY <4>1, <4>2, <4>3
    <3>2. CASE r.latest = None \/ t <= r.latest
      BY <2>2, <3>1, <3>2 DEF satisfies_request
    <3>3. CASE r.latest # None /\ ~(t <= r.latest)
      <4>1. r.latest \in Int /\ r.latest \in Starts(r)
        BY <1>1, <2>2, <3>3 DEF satisfies_request, MaybeTimes
      <4> QED
        BY <3>1, <3>3, <4>1
    <3> QED
      BY <3>2, <3>3
  <2> QED
    BY <2>1, <2>2
<1> QED
  BY <1>2, <1>3
=============================================================================
