--------------------------- MODULE WaitPointsProofs ---------------------------
(***************************************************************************)
(* Theorems about WaitPoints, for every set of points and robots, every    *)
(* set of preference lists and every bound.  QueueMatchesMap is what makes *)
(* exclusion inductive: each point has one queue, a queue has one last     *)
(* occupation, so at most one robot can be standing there.                 *)
(***************************************************************************)
EXTENDS WaitPoints, SequenceTheorems, FiniteSetTheorems, TLAPS

Inv == TypeOK /\ QueueMatchesMap

LEMMA NoneIsNoTime == None \notin Times
BY WaitPointsAssumption DEF None, Times

\* Request: the queue of the chosen point was not open, and ends in the new
\* occupation.
LEMMA AppendedQueue ==
    ASSUME NEW q \in Seq(WaitPointInfo), NEW info \in WaitPointInfo
    PROVE  /\ Append(q, info) \in Seq(WaitPointInfo)
           /\ Append(q, info) # <<>>
           /\ Back(Append(q, info)) = info
BY DEF Back

\* Release: only the last occupation changes, and only its time.
LEMMA ReleasedQueue ==
    ASSUME NEW q \in Seq(WaitPointInfo), q # <<>>, NEW t \in Times
    PROVE  LET r == [q EXCEPT ![Len(q)].time = t] IN
           /\ r \in Seq(WaitPointInfo)
           /\ r # <<>>
           /\ Back(r).time = t
           /\ Back(r).uuid = Back(q).uuid
<1> DEFINE new == [q[Len(q)] EXCEPT !.time = t]
           r == [q EXCEPT ![Len(q)] = new]
<1>1. Len(q) \in 1..Len(q) /\ q[Len(q)] \in WaitPointInfo
  OBVIOUS
<1>2. new \in WaitPointInfo /\ new.time = t /\ new.uuid = q[Len(q)].uuid
  BY <1>1 DEF WaitPointInfo
<1>3. r \in Seq(WaitPointInfo) /\ Len(r) = Len(q)
  BY <1>1, <1>2, ExceptSeq
<1>4. r[Len(q)] = new
  BY <1>1, <1>2, ExceptSeq
<1>5. r # <<>>
  BY <1>1, <1>3
<1> QED
  BY <1>2, <1>3, <1>4, <1>5 DEF Back

\* Flush: an open occupation is never dropped, and stays last; a queue that is
\* not open stays so.
LEMMA FlushedQueue ==
    ASSUME NEW q \in Seq(WaitPointInfo), NEW c \in Nat, c <= Len(q),
           \A i \in 1..c : Expired(q[i])
    PROVE  LET r == SubSeq(q, c + 1, Len(q)) IN
           /\ r \in Seq(WaitPointInfo)
           /\ Open(r) <=> Open(q)
           /\ Open(q) => Back(r) = Back(q)
<1> DEFINE r == SubSeq(q, c + 1, Len(q))
<1>1. r \in Seq(WaitPointInfo) /\ Len(r) = Len(q) - c
  BY SubSeqProperties
<1>2. CASE c = Len(q)
  <2>1. r = <<>>
    BY <1>1, <1>2, EmptySeq
  <2>2. ~Open(q)
    BY <1>2 DEF Open, Back, Expired
  <2>3. ~Open(r)
    BY <2>1 DEF Open
  <2> QED
    BY <1>1, <2>2, <2>3
<1>3. CASE c < Len(q)
  <2>1. \A i \in 1..(Len(q) - c) : r[i] = q[c + i]
    BY SubSeqProperties
  <2>2. Len(q) \in Nat /\ Len(<<>>) = 0 /\ Len(r) \in 1..(Len(q) - c) /\ c + Len(r) = Len(q)
    BY <1>1, <1>3
  <2>3. r # <<>> /\ q # <<>>
    <3> HIDE DEF r
    <3>1. Len(r) # Len(<<>>) /\ Len(q) # Len(<<>>)
      BY <1>3, <2>2
    <3> QED
      BY <3>1, Zenon
  <2>4. r[Len(r)] = q[Len(q)]
    BY <2>1, <2>2
  <2> QED
    BY <1>1, <2>3, <2>4 DEF Open, Back
<1> QED
  BY <1>2, <1>3

LEMMA InitInv == Init => Inv
<1> SUFFICES ASSUME Init PROVE Inv
  OBVIOUS
<1>1. TypeOK
  BY WaitPointsAssumption, EmptySeq DEF Init, TypeOK, Times
<1>2. QueueMatchesMap
  BY DEF Init, QueueMatchesMap, Open
<1> QED
  BY <1>1, <1>2 DEF Inv

LEMMA TypeStep == ASSUME Inv, [Next]_vars PROVE TypeOK'
<1> USE DEF Inv, TypeOK
<1>1. ASSUME NEW r \in Robots, NEW list \in Lists, RequestWaitpoint(r, list) PROVE TypeOK'
  <2>1. PICK i \in 1..Len(list) :
           /\ wait_points' = [wait_points EXCEPT ![list[i]] = Append(@, [time |-> None, uuid |-> r])]
           /\ spots' = [spots EXCEPT ![r] = @ \cup {list[i]}]
           /\ UNCHANGED now
    BY <1>1 DEF RequestWaitpoint
  <2>2. list[i] \in Points
    BY WaitPointsAssumption
  <2>3. Append(wait_points[list[i]], [time |-> None, uuid |-> r]) \in Seq(WaitPointInfo)
    BY <2>2, AppendedQueue DEF WaitPointInfo
  <2> QED
    BY <2>1, <2>2, <2>3
<1>2. ASSUME NEW r \in Robots, NEW p \in Points, ReleaseWaitpoint(r, p) PROVE TypeOK'
  <2>1. [wait_points[p] EXCEPT ![Len(wait_points[p])].time = now] \in Seq(WaitPointInfo)
    BY <1>2, ReleasedQueue DEF ReleaseWaitpoint
  <2> QED
    BY <1>2, <2>1 DEF ReleaseWaitpoint
<1>3. CASE FlushUntil
  <2>1. PICK cut \in [Points -> 0..MaxQueue] :
           /\ \A p \in Points : cut[p] <= Len(wait_points[p])
                                /\ \A i \in 1..cut[p] : Expired(wait_points[p][i])
           /\ wait_points' = [p \in Points |-> SubSeq(wait_points[p], cut[p] + 1, Len(wait_points[p]))]
           /\ UNCHANGED <<now, spots>>
    BY <1>3 DEF FlushUntil
  <2>2. \A p \in Points : SubSeq(wait_points[p], cut[p] + 1, Len(wait_points[p])) \in Seq(WaitPointInfo)
    BY <2>1, FlushedQueue, WaitPointsAssumption
  <2> QED
    BY <2>1, <2>2
<1>4. CASE Tick
  BY <1>4, WaitPointsAssumption DEF Tick, Times
<1>5. CASE UNCHANGED vars
  BY <1>5 DEF vars
<1> QED
  BY <1>1, <1>2, <1>3, <1>4, <1>5 DEF Next

LEMMA QueueMatchesMapStep == ASSUME Inv, [Next]_vars PROVE QueueMatchesMap'
<1> USE DEF Inv, TypeOK
<1>1. ASSUME NEW r \in Robots, NEW list \in Lists, RequestWaitpoint(r, list) PROVE QueueMatchesMap'
  <2> DEFINE info == [time |-> None, uuid |-> r]
  <2>1. PICK i \in 1..Len(list) :
           /\ IsFree(list[i], now)
           /\ wait_points' = [wait_points EXCEPT ![list[i]] = Append(@, info)]
           /\ spots' = [spots EXCEPT ![r] = @ \cup {list[i]}]
    BY <1>1 DEF RequestWaitpoint
  <2> DEFINE p == list[i]
  <2>2. p \in Points
    BY WaitPointsAssumption
  <2>3. \A x \in Robots : p \notin spots[x]
    BY <2>1, <2>2 DEF IsFree, QueueMatchesMap, Open
  <2>4. info \in WaitPointInfo /\ info.time = None /\ info.uuid = r
    BY DEF WaitPointInfo
  <2>5. wait_points'[p] = Append(wait_points[p], info)
    BY <2>1, <2>2
  <2>6. Open(wait_points'[p]) /\ Back(wait_points'[p]).uuid = r
    BY <2>2, <2>4, <2>5, AppendedQueue DEF Open
  <2>7. \A y \in Points : y # p => wait_points'[y] = wait_points[y]
    BY <2>1
  <2>8. \A x \in Robots, y \in Points : y # p => (y \in spots'[x] <=> y \in spots[x])
    BY <2>1
  <2>9. \A x \in Robots : p \in spots'[x] <=> x = r
    BY <2>1, <2>3
  <2> QED
    BY <2>6, <2>7, <2>8, <2>9 DEF QueueMatchesMap
<1>2. ASSUME NEW r \in Robots, NEW p \in Points, ReleaseWaitpoint(r, p) PROVE QueueMatchesMap'
  <2>1. /\ p \in spots[r]
        /\ wait_points[p] # <<>>
        /\ wait_points' = [wait_points EXCEPT ![p] = [wait_points[p] EXCEPT ![Len(wait_points[p])].time = now]]
        /\ spots' = [spots EXCEPT ![r] = @ \ {p}]
    BY <1>2 DEF ReleaseWaitpoint
  <2>2. Back(wait_points'[p]).time = now
    BY <2>1, ReleasedQueue
  <2>3. ~Open(wait_points'[p])
    BY <2>2, NoneIsNoTime DEF Open
  <2>4. \A x \in Robots : p \notin spots'[x]
    BY <2>1 DEF QueueMatchesMap
  <2>5. \A y \in Points : y # p => wait_points'[y] = wait_points[y]
    BY <2>1
  <2>6. \A x \in Robots, y \in Points : y # p => (y \in spots'[x] <=> y \in spots[x])
    BY <2>1
  <2> QED
    BY <2>3, <2>4, <2>5, <2>6 DEF QueueMatchesMap
<1>3. CASE FlushUntil
  <2>1. PICK cut \in [Points -> 0..MaxQueue] :
           /\ \A p \in Points : cut[p] <= Len(wait_points[p])
                                /\ \A i \in 1..cut[p] : Expired(wait_points[p][i])
           /\ wait_points' = [p \in Points |-> SubSeq(wait_points[p], cut[p] + 1, Len(wait_points[p]))]
           /\ UNCHANGED <<now, spots>>
    BY <1>3 DEF FlushUntil
  <2>2. \A p \in Points :
           /\ Open(wait_points'[p]) <=> Open(wait_points[p])
           /\ Open(wait_points[p]) => Back(wait_points'[p]) = Back(wait_points[p])
    BY <2>1, FlushedQueue, WaitPointsAssumption
  <2> QED
    BY <2>1, <2>2 DEF QueueMatchesMap
<1>4. CASE Tick
  BY <1>4 DEF Tick, QueueMatchesMap
<1>5. CASE UNCHANGED vars
  BY <1>5 DEF vars, QueueMatchesMap
<1> QED
  BY <1>1, <1>2, <1>3, <1>4, <1>5 DEF Next

\* The inductive invariant: types, and queues in step with the map.
THEOREM Invariant == Spec => []Inv
<1>1. Init => Inv
  BY InitInv
<1>2. Inv /\ [Next]_vars => Inv'
  BY TypeStep, QueueMatchesMapStep DEF Inv
<1> QED
  BY <1>1, <1>2, PTL DEF Spec

\* Clock, queues and spots keep their types.
THEOREM TypeCorrect == Spec => []TypeOK
<1>1. Inv => TypeOK
  BY DEF Inv
<1> QED
  BY <1>1, Invariant, PTL

\* The queues say who stands where.
THEOREM QueuesMatchMap == Spec => []QueueMatchesMap
<1>1. Inv => QueueMatchesMap
  BY DEF Inv
<1> QED
  BY <1>1, Invariant, PTL

LEMMA InvExclusive == Inv => SpotsExclusive
BY DEF Inv, QueueMatchesMap, TypeOK, SpotsExclusive, Spots!SpotsExclusive

\* No two robots are ever given the same wait point at the same time.
THEOREM PointsExclusive == Spec => []SpotsExclusive
BY InvExclusive, Invariant, PTL
-----------------------------------------------------------------------------
(* History and supply.                                                     *)

\* A queue at time t: its occupations follow each other, all but the last one
\* released before t, and the last one, unless it is open, by then.
Past(q, t) ==
    /\ \A i \in 1..(Len(q) - 1) : q[i].time < q[i + 1].time /\ q[i].time < t
    /\ q # <<>> => Back(q).time = None \/ Back(q).time <= t

HistoryInv == \A p \in Points : Past(wait_points[p], now)

LEMMA Occupation ==
    ASSUME NEW q \in Seq(WaitPointInfo), NEW i \in 1..Len(q)
    PROVE  q[i] \in WaitPointInfo /\ q[i].time \in Nat /\ q[i].time \in Times \cup {None} /\ q[i].uuid \in Robots
<1>1. q[i] \in WaitPointInfo
  OBVIOUS
<1>2. q[i].time \in Times \cup {None} /\ q[i].uuid \in Robots
  BY <1>1 DEF WaitPointInfo
<1> QED
  BY <1>1, <1>2, WaitPointsAssumption DEF Times, None

LEMMA LastOccupation ==
    ASSUME NEW q \in Seq(WaitPointInfo), q # <<>>
    PROVE  Back(q).time \in Nat /\ Back(q).time \in Times \cup {None} /\ Back(q).uuid \in Robots
<1>1. Len(q) \in 1..Len(q)
  OBVIOUS
<1> QED
  BY <1>1, Occupation DEF Back

LEMMA AppendedPast ==
    ASSUME NEW q \in Seq(WaitPointInfo), NEW info \in WaitPointInfo, info.time = None,
           NEW t \in Times, Past(q, t), q # <<>> => Back(q).time # None /\ Back(q).time < t
    PROVE  Past(Append(q, info), t)
<1> DEFINE r == Append(q, info)
<1>1. Len(r) = Len(q) + 1 /\ r[Len(r)] = info /\ \A i \in 1..Len(q) : r[i] = q[i]
  OBVIOUS
<1>2. t < None
  BY WaitPointsAssumption DEF Times, None
<1> HIDE DEF r
<1>3. ASSUME NEW i \in 1..(Len(r) - 1) PROVE r[i].time < r[i + 1].time /\ r[i].time < t
  <2>1. CASE i = Len(q)
    <3>1. q # <<>> /\ r[i] = Back(q) /\ r[i + 1] = info
      BY <1>1, <2>1 DEF Back
    <3>2. Back(q).time < t /\ Back(q).time \in Times
      BY <3>1, LastOccupation
    <3> QED
      BY <1>2, <3>1, <3>2, WaitPointsAssumption DEF Times, None
  <2>2. CASE i # Len(q)
    BY <1>1, <2>2 DEF Past
  <2> QED
    BY <2>1, <2>2
<1>4. Back(r).time = None
  BY <1>1 DEF Back
<1> QED
  BY <1>3, <1>4 DEF Past, r

LEMMA ReleasedPast ==
    ASSUME NEW q \in Seq(WaitPointInfo), q # <<>>, Back(q).time = None,
           NEW t \in Times, Past(q, t)
    PROVE  Past([q EXCEPT ![Len(q)].time = t], t)
<1> DEFINE new == [q[Len(q)] EXCEPT !.time = t]
           r == [q EXCEPT ![Len(q)] = new]
<1>1. Len(q) \in 1..Len(q) /\ q[Len(q)] \in WaitPointInfo
  OBVIOUS
<1>2. new \in WaitPointInfo /\ new.time = t
  BY <1>1 DEF WaitPointInfo
<1> HIDE DEF new
<1>3. /\ Len(r) = Len(q) /\ r \in Seq(WaitPointInfo)
      /\ r[Len(q)] = new
      /\ \A i \in 1..(Len(q) - 1) : r[i] = q[i]
  BY <1>1, <1>2, ExceptSeq
<1> HIDE DEF r
<1>4. ASSUME NEW i \in 1..(Len(r) - 1) PROVE r[i].time < r[i + 1].time /\ r[i].time < t
  <2>1. r[i] = q[i] /\ q[i].time < t
    BY <1>3, <1>4 DEF Past
  <2>2. CASE i + 1 = Len(q)
    BY <1>2, <1>3, <2>1, <2>2
  <2>3. CASE i + 1 # Len(q)
    <3>1. r[i + 1] = q[i + 1]
      BY <1>3, <2>3
    <3> QED
      BY <1>3, <2>1, <3>1 DEF Past
  <2> QED
    BY <2>2, <2>3
<1>5. Back(r).time = t
  BY <1>2, <1>3 DEF Back
<1>6. Past(r, t)
  BY <1>4, <1>5 DEF Past, Times
<1> QED
  BY <1>6 DEF r, new

LEMMA FlushedPast ==
    ASSUME NEW q \in Seq(WaitPointInfo), NEW c \in Nat, c <= Len(q), NEW t \in Times, Past(q, t)
    PROVE  Past(SubSeq(q, c + 1, Len(q)), t)
<1> DEFINE r == SubSeq(q, c + 1, Len(q))
<1>1. Len(r) = Len(q) - c /\ \A i \in 1..(Len(q) - c) : r[i] = q[c + i]
  BY SubSeqProperties
<1>2. r # <<>> => Len(r) # 0
  BY SubSeqProperties, EmptySeq
<1> HIDE DEF r
<1>3. ASSUME NEW i \in 1..(Len(r) - 1) PROVE r[i].time < r[i + 1].time /\ r[i].time < t
  <2>1. r[i] = q[c + i] /\ r[i + 1] = q[c + i + 1] /\ c + i \in 1..(Len(q) - 1)
    BY <1>1
  <2> QED
    BY <2>1 DEF Past
<1>4. ASSUME r # <<>> PROVE Back(r).time = None \/ Back(r).time <= t
  <2>1. r[Len(r)] = q[Len(q)] /\ q # <<>>
    BY <1>1, <1>2, <1>4
  <2> QED
    BY <2>1 DEF Past, Back
<1> QED
  BY <1>3, <1>4 DEF Past, r

LEMMA TickedPast ==
    ASSUME NEW q \in Seq(WaitPointInfo), NEW t \in Times, Past(q, t)
    PROVE  Past(q, t + 1)
<1>1. \A i \in 1..Len(q) : q[i].time \in Nat
  BY Occupation
<1>2. q # <<>> => Back(q).time \in Nat
  BY LastOccupation
<1> QED
  BY <1>1, <1>2 DEF Past, Times

LEMMA HistoryStep == ASSUME Inv, HistoryInv, [Next]_vars PROVE HistoryInv'
<1> USE DEF Inv, TypeOK, HistoryInv
<1>1. ASSUME NEW r \in Robots, NEW list \in Lists, RequestWaitpoint(r, list) PROVE HistoryInv'
  <2> DEFINE info == [time |-> None, uuid |-> r]
  <2>1. PICK i \in 1..Len(list) :
           /\ IsFree(list[i], now)
           /\ wait_points' = [wait_points EXCEPT ![list[i]] = Append(@, info)]
           /\ UNCHANGED now
    BY <1>1 DEF RequestWaitpoint
  <2>2. list[i] \in Points
    BY WaitPointsAssumption
  <2>3. info \in WaitPointInfo /\ info.time = None
    BY DEF WaitPointInfo
  <2>4. Past(Append(wait_points[list[i]], info), now)
    BY <2>1, <2>2, <2>3, AppendedPast DEF IsFree
  <2> QED
    BY <2>1, <2>2, <2>4
<1>2. ASSUME NEW r \in Robots, NEW p \in Points, ReleaseWaitpoint(r, p) PROVE HistoryInv'
  <2>1. Open(wait_points[p])
    BY <1>2 DEF ReleaseWaitpoint, QueueMatchesMap
  <2>2. Past([wait_points[p] EXCEPT ![Len(wait_points[p])].time = now], now)
    BY <2>1, ReleasedPast DEF Open
  <2> QED
    BY <1>2, <2>2 DEF ReleaseWaitpoint
<1>3. CASE FlushUntil
  <2>1. PICK cut \in [Points -> 0..MaxQueue] :
           /\ \A p \in Points : cut[p] <= Len(wait_points[p])
           /\ wait_points' = [p \in Points |-> SubSeq(wait_points[p], cut[p] + 1, Len(wait_points[p]))]
           /\ UNCHANGED <<now, spots>>
    BY <1>3 DEF FlushUntil
  <2>2. \A p \in Points : Past(SubSeq(wait_points[p], cut[p] + 1, Len(wait_points[p])), now)
    BY <2>1, FlushedPast, WaitPointsAssumption
  <2> QED
    BY <2>1, <2>2
<1>4. CASE Tick
  BY <1>4, TickedPast DEF Tick
<1>5. CASE UNCHANGED vars
  BY <1>5 DEF vars
<1> QED
  BY <1>1, <1>2, <1>3, <1>4, <1>5 DEF Next

LEMMA HistoryInvariant == Spec => []HistoryInv
<1>1. Init => HistoryInv
  BY EmptySeq DEF Init, HistoryInv, Past
<1>2. Inv /\ HistoryInv /\ [Next]_vars => HistoryInv'
  BY HistoryStep
<1> QED
  BY <1>1, <1>2, Invariant, PTL DEF Spec

\* The history a queue holds never runs backwards.
THEOREM QueuesInOrder == Spec => []HistoryOrdered
<1>1. ASSUME Inv, HistoryInv PROVE HistoryOrdered
  <2> SUFFICES ASSUME NEW p \in Points, NEW i \in 1..(Len(wait_points[p]) - 1)
               PROVE  /\ wait_points[p][i].time < wait_points[p][i + 1].time
                      /\ wait_points[p][i].time <= now
    BY DEF HistoryOrdered
  <2>1. Past(wait_points[p], now) /\ wait_points[p] \in Seq(WaitPointInfo) /\ now \in Nat
    BY <1>1 DEF HistoryInv, Inv, TypeOK, Times
  <2>2. wait_points[p][i].time \in Nat
    BY <2>1, Occupation
  <2> QED
    BY <2>1, <2>2 DEF Past
<1> QED
  BY <1>1, Invariant, HistoryInvariant, PTL

LEMMA AtMostOne ==
    ASSUME NEW S, IsFiniteSet(S), Cardinality(S) <= 1, NEW x \in S, NEW y \in S
    PROVE  x = y
<1>1. IsFiniteSet(S \ {x}) /\ Cardinality(S \ {x}) = Cardinality(S) - 1
  BY FS_RemoveElement
<1>2. Cardinality(S \ {x}) \in Nat /\ Cardinality(S) \in Nat
  BY <1>1, FS_CardinalityType
<1>3. Cardinality(S \ {x}) = 0
  BY <1>1, <1>2
<1>4. S \ {x} = {}
  BY <1>1, <1>3, FS_EmptySet
<1> QED
  BY <1>4

\* When every point is occupied there are fewer points than robots, if robots
\* have one spot each at most and one of them has none.
LEMMA OccupiedPoints ==
    ASSUME Inv,
           \A r \in Robots : Cardinality(spots[r]) <= 1,
           NEW robot \in Robots, spots[robot] = {},
           \A p \in Points : Open(wait_points[p])
    PROVE  Cardinality(Points) < Cardinality(Robots)
<1> DEFINE holder(p) == Back(wait_points[p]).uuid
           Others == Robots \ {robot}
           h == [p \in Points |-> holder(p)]
<1>1. ASSUME NEW p \in Points PROVE holder(p) \in Others /\ p \in spots[holder(p)]
  <2>1. wait_points[p] \in Seq(WaitPointInfo) /\ wait_points[p] # <<>>
    BY DEF Inv, TypeOK, Open
  <2>2. holder(p) \in Robots
    BY <2>1, LastOccupation
  <2> QED
    BY <2>2 DEF Inv, QueueMatchesMap
<1>2. ASSUME NEW p \in Points, NEW q \in Points, holder(p) = holder(q) PROVE p = q
  <2>1. p \in spots[holder(p)] /\ q \in spots[holder(p)] /\ holder(p) \in Robots
    BY <1>1, <1>2
  <2>2. spots[holder(p)] \subseteq Points /\ Cardinality(spots[holder(p)]) <= 1
    BY <2>1 DEF Inv, TypeOK
  <2> QED
    BY <2>1, <2>2, WaitPointsAssumption, FS_Subset, AtMostOne
<1>3. h \in Injection(Points, Others)
  <2> HIDE DEF holder
  <2>1. h \in [Points -> Others]
    BY <1>1
  <2>2. \A p, q \in Points : h[p] = h[q] => p = q
    BY <1>2
  <2> QED
    BY <2>1, <2>2 DEF Injection, IsInjective
<1>4. IsFiniteSet(Others) /\ Cardinality(Others) = Cardinality(Robots) - 1
  BY WaitPointsAssumption, FS_RemoveElement
<1>5. Cardinality(Points) <= Cardinality(Others)
  BY <1>3, <1>4, FS_Injection
<1>6. Cardinality(Robots) \in Nat /\ Cardinality(Points) \in Nat
  BY WaitPointsAssumption, FS_CardinalityType
<1> QED
  BY <1>4, <1>5, <1>6

\* "The same or more wait points than robots" is enough: a robot without a spot
\* finds one, for any number of points and robots.
THEOREM PointsSuffice == Spec => []EnoughPoints
<1>1. ASSUME Inv, HistoryInv PROVE EnoughPoints
  <2> SUFFICES ASSUME Cardinality(Robots) <= Cardinality(Points),
                      \A r \in Robots : Cardinality(spots[r]) <= 1,
                      NEW robot \in Robots, spots[robot] = {},
                      \A p \in Points : ~IsFree(p, now + 1)
               PROVE  FALSE
    BY DEF EnoughPoints
  <2>1. ASSUME NEW p \in Points PROVE Open(wait_points[p])
    <3>1. wait_points[p] # <<>> /\ wait_points[p] \in Seq(WaitPointInfo)
      BY <1>1 DEF IsFree, Inv, TypeOK
    <3>2. Back(wait_points[p]).time \in Nat /\ now \in Nat
      BY <1>1, <3>1, LastOccupation DEF Inv, TypeOK, Times
    <3>3. Back(wait_points[p]).time = None \/ Back(wait_points[p]).time <= now
      BY <1>1, <3>1 DEF HistoryInv, Past
    <3> QED
      BY <3>1, <3>2, <3>3 DEF IsFree, Open
  <2>2. Cardinality(Points) < Cardinality(Robots)
    BY <1>1, <2>1, OccupiedPoints
  <2>3. Cardinality(Robots) \in Nat /\ Cardinality(Points) \in Nat
    BY WaitPointsAssumption, FS_CardinalityType
  <2> QED
    BY <2>2, <2>3
<1> QED
  BY <1>1, Invariant, HistoryInvariant, PTL
-----------------------------------------------------------------------------
(* What the queues promise.                                                *)

\* Queues and SafeSpots agree on which points a request can get, so that they
\* also refuse the same lists.
FreeAlike ==
    /\ \A p \in Points : IsFree(p, now) <=> Spots!Free(p)
    /\ \A list \in Lists : (\A i \in 1..Len(list) : ~IsFree(list[i], now)) <=> Spots!Refused(list)

LEMMA InvFreeAlike == ASSUME Inv, HistoryInv PROVE FreeAlike
<1>1. ASSUME NEW p \in Points PROVE IsFree(p, now) <=> Spots!Free(p)
  <2>1. (\E r \in Robots : p \in spots[r]) => Open(wait_points[p])
    BY DEF Inv, QueueMatchesMap
  <2>2. Open(wait_points[p]) => \E r \in Robots : p \in spots[r]
    BY LastOccupation DEF Inv, QueueMatchesMap, TypeOK, Open
  <2>3. Spots!Free(p) <=> ~Open(wait_points[p]) /\ p \notin Resting
    BY <2>1, <2>2 DEF Spots!Free, Spots!Occupied
  <2>4. CASE wait_points[p] = <<>>
    BY <2>3, <2>4 DEF IsFree, Open, Resting
  <2>5. CASE wait_points[p] # <<>>
    <3>1. /\ Back(wait_points[p]).time \in Nat /\ now \in Nat
          /\ Back(wait_points[p]).time = None \/ Back(wait_points[p]).time <= now
      BY <2>5, LastOccupation DEF Inv, TypeOK, Times, HistoryInv, Past
    <3>2. now # None
      BY NoneIsNoTime DEF Inv, TypeOK
    <3> QED
      BY <2>3, <2>5, <3>1, <3>2 DEF IsFree, Open, Resting
  <2> QED
    BY <2>4, <2>5
<1>2. \A list \in Lists : \A i \in 1..Len(list) : list[i] \in Points
  BY WaitPointsAssumption
<1> QED
  BY <1>1, <1>2 DEF FreeAlike, Spots!Refused

\* A request for wait points succeeds on the queues exactly when SafeSpots has
\* a free point for it: its errors carry over as well as its grants.
THEOREM RefusesAlike == Spec => []FreeAlike
BY InvFreeAlike, Invariant, HistoryInvariant, PTL

\* A flush leaves alone what was released at this moment.
LEMMA FlushedBack ==
    ASSUME NEW q \in Seq(WaitPointInfo), NEW c \in Nat, c <= Len(q),
           \A i \in 1..c : Expired(q[i])
    PROVE  LET r == SubSeq(q, c + 1, Len(q)) IN
           (r # <<>> /\ Back(r).time = now) <=> (q # <<>> /\ Back(q).time = now)
<1> DEFINE r == SubSeq(q, c + 1, Len(q))
<1>1. Len(r) = Len(q) - c /\ \A i \in 1..(Len(q) - c) : r[i] = q[c + i]
  BY SubSeqProperties
<1>2. r \in Seq(WaitPointInfo)
  BY SubSeqProperties
<1> HIDE DEF r
<1>3. CASE c = Len(q)
  <2>1. r = <<>>
    BY <1>1, <1>2, <1>3, EmptySeq
  <2>2. ASSUME q # <<>> PROVE Back(q).time # now
    <3>1. Len(q) \in 1..c
      BY <1>3, <2>2
    <3>2. Expired(Back(q))
      BY <3>1 DEF Back
    <3>3. Back(q).time \in Nat
      BY <2>2, LastOccupation
    <3> QED
      BY <3>2, <3>3 DEF Expired
  <2> QED
    BY <2>1, <2>2 DEF r
<1>4. CASE c < Len(q)
  <2>1. r # <<>> /\ q # <<>> /\ Len(r) \in 1..(Len(q) - c) /\ c + Len(r) = Len(q)
    BY <1>1, <1>2, <1>4
  <2>2. Back(r) = Back(q)
    BY <1>1, <2>1 DEF Back
  <2> QED
    BY <2>1, <2>2 DEF r
<1> QED
  BY <1>3, <1>4

LEMMA SpotsStep == ASSUME Inv, HistoryInv, [Next]_vars PROVE [Spots!SpotsNext]_(Spots!spotVars)
<1> USE DEF Inv, TypeOK
<1>0. FreeAlike
  BY InvFreeAlike
<1>1. ASSUME NEW r \in Robots, NEW list \in Lists, RequestWaitpoint(r, list) PROVE Spots!SpotsNext
  <2> DEFINE info == [time |-> None, uuid |-> r]
  <2>1. PICK i \in 1..Len(list) :
           /\ IsFree(list[i], now)
           /\ \A j \in 1..(i - 1) : ~IsFree(list[j], now)
           /\ wait_points' = [wait_points EXCEPT ![list[i]] = Append(@, info)]
           /\ spots' = [spots EXCEPT ![r] = @ \cup {list[i]}]
           /\ UNCHANGED now
    BY <1>1 DEF RequestWaitpoint
  <2>2. list \in Seq(Points) /\ list[i] \in Points /\ \A j \in 1..(i - 1) : list[j] \in Points
    BY WaitPointsAssumption
  <2>3. Spots!Free(list[i]) /\ \A j \in 1..(i - 1) : ~Spots!Free(list[j])
    BY <1>0, <2>1, <2>2 DEF FreeAlike
  <2>4. UNCHANGED Resting
    <3>1. list[i] \notin Resting
      BY <2>3 DEF Spots!Free
    <3>2. wait_points'[list[i]] = Append(wait_points[list[i]], info) /\ info \in WaitPointInfo
      BY <2>1, <2>2 DEF WaitPointInfo
    <3>3. Back(wait_points'[list[i]]).time = None /\ None # now
      BY <2>2, <3>2, AppendedQueue, NoneIsNoTime
    <3>4. \A p \in Points : p # list[i] => wait_points'[p] = wait_points[p]
      BY <2>1
    <3> QED
      BY <2>1, <3>1, <3>3, <3>4 DEF Resting
  <2> QED
    BY <2>1, <2>3, <2>4 DEF Spots!Occupy, Spots!SpotsNext
<1>2. ASSUME NEW r \in Robots, NEW p \in Points, ReleaseWaitpoint(r, p) PROVE Spots!SpotsNext
  <2>1. /\ p \in spots[r]
        /\ wait_points[p] # <<>>
        /\ wait_points' = [wait_points EXCEPT ![p] = [wait_points[p] EXCEPT ![Len(wait_points[p])].time = now]]
        /\ spots' = [spots EXCEPT ![r] = @ \ {p}]
        /\ UNCHANGED now
    BY <1>2 DEF ReleaseWaitpoint
  <2>2. wait_points'[p] # <<>> /\ Back(wait_points'[p]).time = now
    BY <2>1, ReleasedQueue
  <2>3. \A y \in Points : y # p => wait_points'[y] = wait_points[y]
    BY <2>1
  <2>4. Resting' = Resting \cup {p}
    BY <2>1, <2>2, <2>3 DEF Resting
  <2> QED
    BY <2>1, <2>4 DEF Spots!Vacate, Spots!SpotsNext
<1>3. CASE FlushUntil
  <2>1. PICK cut \in [Points -> 0..MaxQueue] :
           /\ \A p \in Points : cut[p] <= Len(wait_points[p])
                                /\ \A i \in 1..cut[p] : Expired(wait_points[p][i])
           /\ wait_points' = [p \in Points |-> SubSeq(wait_points[p], cut[p] + 1, Len(wait_points[p]))]
           /\ UNCHANGED <<now, spots>>
    BY <1>3 DEF FlushUntil
  <2>2. \A p \in Points : (wait_points'[p] # <<>> /\ Back(wait_points'[p]).time = now)
                            <=> (wait_points[p] # <<>> /\ Back(wait_points[p]).time = now)
    BY <2>1, FlushedBack, WaitPointsAssumption
  <2> QED
    BY <2>1, <2>2 DEF Resting, Spots!spotVars
<1>4. CASE Tick
  <2>1. ASSUME NEW p \in Points, wait_points[p] # <<>> PROVE Back(wait_points[p]).time # now + 1
    <3>1. /\ Back(wait_points[p]).time \in Nat /\ now \in Nat
          /\ Back(wait_points[p]).time = None \/ Back(wait_points[p]).time <= now
      BY <2>1, LastOccupation DEF Times, HistoryInv, Past
    <3>2. now + 1 # None
      BY <1>4, WaitPointsAssumption DEF Tick, None, Times
    <3> QED
      BY <3>1, <3>2
  <2>2. Resting' = {}
    BY <1>4, <2>1 DEF Tick, Resting
  <2> QED
    BY <1>4, <2>2 DEF Tick, Spots!ClockMoves, Spots!SpotsNext
<1>5. CASE UNCHANGED vars
  BY <1>5 DEF vars, Resting, Spots!spotVars
<1> QED
  BY <1>1, <1>2, <1>3, <1>4, <1>5 DEF Next

\* The queues implement SafeSpots: a request gets the first free point of its
\* list, points rest until the clock has moved, and flushing shows nothing.
THEOREM QueuesImplementSpots == Spec => ImplementsSpots
<1>1. Init => Spots!SpotsInit
  BY DEF Init, Spots!SpotsInit, Resting
<1>2. Inv /\ HistoryInv /\ [Next]_vars => [Spots!SpotsNext]_(Spots!spotVars)
  BY SpotsStep
<1> QED
  BY <1>1, <1>2, Invariant, HistoryInvariant, PTL DEF Spec, ImplementsSpots, Spots!SpotsSpec
=============================================================================
