--------------------------- MODULE FlexibleSatProofs ---------------------------
(***************************************************************************)
(* Theorems about FlexibleSat, for every set of problems: whom a returned  *)
(* schedule serves, that the walk never panics, and that what the start    *)
(* ranges rule out is impossible.  Inv says what the walk keeps: how far   *)
(* it is (WalkPlace), that everybody with a start has ended before those   *)
(* still to come (Placed), and that somebody who gives an earliest start   *)
(* is only left out once a clause is learned (NobodyForgotten).            *)
(***************************************************************************)
EXTENDS FlexibleSat, FiniteSetTheorems, TLAPS

\* Who has been walked on the current resource does not stay for ever.
WalkPlace ==
    /\ \A x \in left : Alt(x).resource \notin todo
    /\ \A x, y \in left : Alt(x).resource = Alt(y).resource
    /\ \A x \in left, y \in chosen :
          Alt(x).resource = Alt(y).resource /\ Alt(y).duration = None => y \in left
    /\ last_reservation_end >= Now

Placed ==
    /\ \A e \in final_schedule :
          /\ e.id \notin left
          /\ Alt(e.id).resource \notin todo
          /\ Alt(e.id).duration # None
          /\ InWindow(e.id, e.start)
    /\ \A e \in final_schedule, x \in left :
          Alt(e.id).resource = Alt(x).resource
          => e.start + Alt(e.id).duration <= last_reservation_end
    /\ \A e, f \in final_schedule : e # f => e.id # f.id /\ Apart(e, f)

Walked(x) == x \in chosen /\ x \notin left /\ Alt(x).resource \notin todo

NobodyForgotten ==
    learned_clauses = {} =>
        \A x \in chosen : Walked(x) =>
            /\ Alt(x).duration # None /\ Alt(x).earliest # None
               => \E e \in final_schedule : e.id = x
            /\ Alt(x).duration = None /\ Alt(x).latest # None
               => \A e \in final_schedule :
                    Alt(e.id).resource = Alt(x).resource
                    => e.start + Alt(e.id).duration <= Alt(x).latest

\* What holds of the model in hand, and of a formula without one.
Ordered ==
    /\ OneOfEach(chosen)
    /\ before \in Orders
    /\ TotalOn(before, chosen)

Unsatisfiable == ~\E S \in Choices, o \in Orders : TotalOn(o, S)

Inv ==
    /\ FlexibleSatTypeOK
    /\ pc = "walk" => Ordered /\ WalkPlace /\ Placed /\ NobodyForgotten
    /\ pc = "NoSolution" => Unsatisfiable
    /\ FeasibleServes
-----------------------------------------------------------------------------
(* Alternatives.                                                           *)

LEMMA AltType ==
    ASSUME problem \in Problems, NEW x \in Slots
    PROVE  /\ Alt(x).resource \in Resources
           /\ Alt(x).earliest \in Nat \cup {None}
           /\ Alt(x).latest \in Nat \cup {None}
           /\ Alt(x).duration \in (Nat \ {0}) \cup {None}
           /\ Alt(x).earliest # None /\ Alt(x).latest # None
              => Alt(x).earliest <= Alt(x).latest
<1>1. PICK r \in DOMAIN problem : x \in {<<r, a>> : a \in DOMAIN problem[r]}
  BY DEF Slots, SlotsOf
<1>2. PICK a \in DOMAIN problem[r] : x = <<r, a>>
  BY <1>1
<1>3. Alt(x) = problem[r][a]
  BY <1>2 DEF Alt
<1>4. problem[r][a] \in [resource : Resources, earliest : Nat \cup {None},
                         latest : Nat \cup {None}, duration : (Nat \ {0}) \cup {None}]
  BY <1>1, <1>2, FlexibleSatAssumption
<1>5. problem[r][a].earliest # None /\ problem[r][a].latest # None
      => problem[r][a].earliest <= problem[r][a].latest
  BY <1>1, <1>2, FlexibleSatAssumption
<1> QED
  BY <1>3, <1>4, <1>5
-----------------------------------------------------------------------------
(* The order.                                                              *)

\* Among any of those chosen on one resource somebody is before all others.
LEMMA SomebodyIsFirst ==
    ASSUME problem \in Problems, NEW S \in SUBSET Slots, S # {},
           \A x, y \in S : Alt(x).resource = Alt(y).resource,
           NEW o \in Orders, TotalOn(o, S)
    PROVE  \E x \in S : \A y \in S \ {x} : <<x, y>> \in o
<1> DEFINE Earlier(x) == {y \in S \ {x} : <<y, x>> \in o}
           Sets == {Earlier(x) : x \in S}
           R == StrictSubsetOrdering(S)
<1>1. IsFiniteSet(S)
  BY FlexibleSatAssumption, FS_Subset DEF Slots
<1>2. IsWellFoundedOn(R, FiniteSubsetsOf(S))
  BY <1>1, FS_StrictSubsetOrderingWellFounded
<1>3. Sets \subseteq FiniteSubsetsOf(S)
  <2> SUFFICES ASSUME NEW x \in S PROVE Earlier(x) \in FiniteSubsetsOf(S)
    OBVIOUS
  <2>1. IsFiniteSet(Earlier(x))
    BY <1>1, FS_Subset
  <2> QED
    BY <2>1 DEF FiniteSubsetsOf
<1>4. PICK E \in Sets : \A F \in Sets : <<F, E>> \notin R
  <2>1. Sets # {}
    <3>1. PICK x \in S : TRUE
      OBVIOUS
    <3>2. Earlier(x) \in Sets
      OBVIOUS
    <3> QED
      BY <3>2
  <2> HIDE DEF Sets, R
  <2> QED
    BY <1>2, <1>3, <2>1, WFMin
<1>5. PICK x \in S : E = Earlier(x)
  OBVIOUS
<1>6. Earlier(x) = {}
  <2> SUFFICES ASSUME NEW y \in Earlier(x) PROVE FALSE
    OBVIOUS
  <2>1. y \in S /\ y # x /\ <<y, x>> \in o
    OBVIOUS
  <2>2. <<x, y>> \notin o
    BY <2>1 DEF TotalOn
  <2>3. Earlier(y) \subseteq Earlier(x)
    <3> SUFFICES ASSUME NEW z \in Earlier(y) PROVE z \in Earlier(x)
      OBVIOUS
    <3>1. z # x
      BY <2>2
    <3>2. \A e, f \in o : e[2] = f[1] /\ e[1] # f[2] => <<e[1], f[2]>> \in o
      BY DEF Orders
    <3>3. <<z, y>> \in o /\ <<y, x>> \in o
      BY <2>1
    <3>4. <<z, x>> \in o
      BY <3>1, <3>2, <3>3
    <3> QED
      BY <3>1, <3>4
  <2>4. y \notin Earlier(y)
    OBVIOUS
  <2>5. <<Earlier(y), Earlier(x)>> \in R
    BY <2>1, <2>3, <2>4 DEF StrictSubsetOrdering
  <2> QED
    BY <1>4, <1>5, <2>1, <2>5
<1>7. \A y \in S \ {x} : <<x, y>> \in o
  <2> SUFFICES ASSUME NEW y \in S \ {x} PROVE <<x, y>> \in o
    OBVIOUS
  <2>1. <<y, x>> \notin o
    BY <1>6
  <2> QED
    BY <2>1 DEF TotalOn
<1> QED
  BY <1>7

\* Who stays for ever is before nobody.
LEMMA OnlyTheLastStays ==
    ASSUME NEW o \in Orders, NEW x, NEW y, <<x, y>> \in o
    PROVE  Alt(x).duration # None
BY DEF Orders, OrderVars, can_be_scheduled_after

\* The order of a schedule's start times is one that the formula allows.
LEMMA ScheduleIsModel ==
    ASSUME problem \in Problems, NEW S \in SUBSET Slots,
           NEW start \in [S -> Nat], Slack(S, start)
    PROVE  \E o \in Orders : TotalOn(o, S)
<1> DEFINE Follows(x, y) == /\ x # y /\ Alt(x).resource = Alt(y).resource
                            /\ Alt(x).duration # None
                            /\ start[x] + Alt(x).duration <= start[y]
           o == {e \in S \X S : Follows(e[1], e[2])}
<1>1. \A x, y \in S : Follows(x, y) => can_be_scheduled_after(x, y)
  <2> SUFFICES ASSUME NEW x \in S, NEW y \in S, Follows(x, y),
                      Alt(y).latest # None, Alt(x).earliest # None
               PROVE  Alt(x).earliest + Alt(x).duration < Alt(y).latest
    BY DEF can_be_scheduled_after
  <2>1. Alt(x).earliest \in Nat /\ Alt(x).duration \in Nat /\ Alt(y).latest \in Nat
    BY AltType
  <2>2. Alt(x).earliest <= start[x] /\ start[y] < Alt(y).latest
    BY DEF Slack, InWindow
  <2>3. start[x] \in Nat /\ start[y] \in Nat
    OBVIOUS
  <2> QED
    BY <2>1, <2>2, <2>3
<1>2. \A x, y, z \in S : Follows(x, y) /\ Follows(y, z) /\ x # z => Follows(x, z)
  <2> SUFFICES ASSUME NEW x \in S, NEW y \in S, NEW z \in S,
                      Follows(x, y), Follows(y, z), x # z
               PROVE  Follows(x, z)
    OBVIOUS
  <2>1. Alt(x).duration \in Nat /\ Alt(y).duration \in Nat
    BY AltType
  <2>2. start[x] \in Nat /\ start[y] \in Nat /\ start[z] \in Nat
    OBVIOUS
  <2>3. start[x] + Alt(x).duration <= start[z]
    BY <2>1, <2>2
  <2> QED
    BY <2>3
<1>3. o \in Orders
  <2>1. o \in SUBSET OrderVars
    BY <1>1 DEF OrderVars
  <2>2. \A e, f \in o : e[2] = f[1] /\ e[1] # f[2] => <<e[1], f[2]>> \in o
    <3> SUFFICES ASSUME NEW e \in o, NEW f \in o, e[2] = f[1], e[1] # f[2]
                 PROVE  <<e[1], f[2]>> \in o
      OBVIOUS
    <3>1. e[1] \in S /\ e[2] \in S /\ f[2] \in S /\ Follows(e[1], e[2]) /\ Follows(e[2], f[2])
      OBVIOUS
    <3> HIDE DEF Follows
    <3>2. Follows(e[1], f[2])
      BY <1>2, <3>1
    <3> QED
      BY <3>1, <3>2
  <2> HIDE DEF o
  <2> QED
    BY <2>1, <2>2 DEF Orders
<1>4. TotalOn(o, S)
  <2> SUFFICES ASSUME NEW x \in S, NEW y \in S, x # y, Alt(x).resource = Alt(y).resource
               PROVE  Follows(x, y) <=> ~Follows(y, x)
    BY DEF TotalOn
  <2>1. \/ Alt(x).duration # None /\ start[x] + Alt(x).duration <= start[y]
        \/ Alt(y).duration # None /\ start[y] + Alt(y).duration <= start[x]
    BY DEF Slack
  <2>2. ~(Follows(x, y) /\ Follows(y, x))
    <3> SUFFICES ASSUME Follows(x, y), Follows(y, x) PROVE FALSE
      OBVIOUS
    <3>1. Alt(x).duration \in Nat \ {0} /\ Alt(y).duration \in Nat \ {0}
      BY AltType
    <3>2. start[x] \in Nat /\ start[y] \in Nat
      OBVIOUS
    <3> QED
      BY <3>1, <3>2
  <2> QED
    BY <2>1, <2>2
<1> QED
  BY <1>3, <1>4
-----------------------------------------------------------------------------
(* Types.                                                                  *)

LEMMA InitType == Init => FlexibleSatTypeOK
BY FlexibleSatAssumption DEF Init, FlexibleSatTypeOK

LEMMA NextType == FlexibleSatTypeOK /\ [Next]_vars => FlexibleSatTypeOK'
<1> SUFFICES ASSUME FlexibleSatTypeOK, [Next]_vars PROVE FlexibleSatTypeOK'
  OBVIOUS
<1> USE DEF FlexibleSatTypeOK
<1>0. Now \in Nat
  BY FlexibleSatAssumption
<1>1. CASE Solve
  <2>1. Slots' = Slots
    BY <1>1 DEF Solve, Slots
  <2>2. chosen' \subseteq Slots /\ before' \subseteq Slots \X Slots
    BY <1>1 DEF Solve, Choices, Orders, OrderVars
  <2>3. todo' \subseteq Resources
    BY <1>1, <2>2, AltType DEF Solve
  <2> QED
    BY <1>0, <1>1, <2>1, <2>2, <2>3 DEF Solve
<1>2. CASE PanicOnEdge
  BY <1>2 DEF PanicOnEdge, Slots, modelVars, walkVars
<1>3. CASE NoModel
  BY <1>3 DEF NoModel, Slots, modelVars, walkVars
<1>4. CASE Stop
  BY <1>4 DEF Stop, Slots, modelVars, walkVars
<1>5. ASSUME NEW res \in Resources, WalkResource(res) PROVE FlexibleSatTypeOK'
  BY <1>0, <1>5 DEF WalkResource, On, Slots, modelVars
<1>6. ASSUME NEW x \in Slots, StayForEver(x) PROVE FlexibleSatTypeOK'
  BY <1>6 DEF StayForEver, IsNext, Slots, modelVars
<1>7. ASSUME NEW x \in Slots, SkipUndated(x) PROVE FlexibleSatTypeOK'
  BY <1>7 DEF SkipUndated, IsNext, Slots, modelVars
<1>8. ASSUME NEW x \in Slots, StartEarliest(x) PROVE FlexibleSatTypeOK'
  <2>1. Alt(x).earliest \in Nat /\ Alt(x).duration \in Nat
    BY <1>8, AltType DEF StartEarliest
  <2>2. [id |-> x, start |-> Alt(x).earliest] \in [id : chosen, start : Nat]
    BY <1>8, <2>1 DEF StartEarliest, IsNext
  <2> QED
    BY <1>8, <2>1, <2>2 DEF StartEarliest, Starts, IsNext, Slots, modelVars
<1>9. ASSUME NEW x \in Slots, StartAfterLast(x) PROVE FlexibleSatTypeOK'
  <2>1. Alt(x).duration \in Nat
    BY <1>9, AltType DEF StartAfterLast
  <2>2. [id |-> x, start |-> last_reservation_end] \in [id : chosen, start : Nat]
    BY <1>9 DEF StartAfterLast, IsNext
  <2> QED
    BY <1>9, <2>1, <2>2 DEF StartAfterLast, Starts, IsNext, Slots, modelVars
<1>10. ASSUME NEW x \in Slots, LearnTooLate(x) PROVE FlexibleSatTypeOK'
  BY <1>10 DEF LearnTooLate, IsNext, Slots, modelVars
<1>11. CASE EndRound
  BY <1>11 DEF EndRound, Slots, modelVars, walkVars
<1>12. CASE UNCHANGED vars
  BY <1>12 DEF vars, Slots, modelVars, walkVars
<1> QED
  BY <1>1, <1>2, <1>3, <1>4, <1>5, <1>6, <1>7, <1>8, <1>9, <1>10, <1>11, <1>12
  DEF Next, Search, Walk

\* Every variable keeps its type: what is scheduled, left and learned is part
\* of the round's own choice, so nothing of an earlier round survives in it.
THEOREM TypeCorrect == Spec => []FlexibleSatTypeOK
BY InitType, NextType, PTL DEF Spec
-----------------------------------------------------------------------------
(* The walk.                                                               *)

LEMMA WindowAfterLast ==
    ASSUME FlexibleSatTypeOK, NEW x \in Slots, Alt(x).duration # None,
           Alt(x).earliest # None, Alt(x).earliest < last_reservation_end,
           ~TooLate(x), last_reservation_end >= Now
    PROVE  InWindow(x, last_reservation_end)
<1>1. Alt(x).earliest \in Nat /\ Alt(x).latest \in Nat \cup {None} /\ last_reservation_end \in Nat
  BY AltType DEF FlexibleSatTypeOK
<1> QED
  BY <1>1, FlexibleSatAssumption DEF InWindow, TooLate

LEMMA WindowEarliest ==
    ASSUME FlexibleSatTypeOK, NEW x \in Slots,
           Alt(x).earliest # None, Alt(x).earliest >= last_reservation_end,
           last_reservation_end >= Now
    PROVE  InWindow(x, Alt(x).earliest)
<1>1. /\ Alt(x).earliest \in Nat /\ last_reservation_end \in Nat
      /\ Alt(x).latest # None => Alt(x).latest \in Nat /\ Alt(x).earliest <= Alt(x).latest
  BY AltType DEF FlexibleSatTypeOK
<1> QED
  BY <1>1, FlexibleSatAssumption DEF InWindow

\* x starts when the last one on its resource is over, or later.
LEMMA PlaceNext ==
    ASSUME FlexibleSatTypeOK, FlexibleSatTypeOK', Placed, WalkPlace, NobodyForgotten,
           NEW x \in Slots, IsNext(x), Alt(x).duration # None,
           NEW time \in Nat, time >= last_reservation_end, InWindow(x, time),
           Starts(x, time), last_reservation_end' = time + Alt(x).duration,
           left' = left \ {x},
           UNCHANGED <<problem, chosen, todo, learned_clauses>>
    PROVE  Placed' /\ WalkPlace' /\ NobodyForgotten'
<1> DEFINE new == [id |-> x, start |-> time]
<1>1. /\ x \in left /\ x \in chosen
      /\ Alt(x).duration \in Nat /\ last_reservation_end \in Nat
  BY AltType DEF IsNext, FlexibleSatTypeOK
<1>2. final_schedule' = final_schedule \cup {new} /\ new.id = x /\ new.start = time
  BY DEF Starts
<1>3. \A y : Alt(y)' = Alt(y)
  BY DEF Alt
<1>4. \A e \in final_schedule : /\ e.start \in Nat
                                /\ Alt(e.id).duration \in Nat
  <2> SUFFICES ASSUME NEW e \in final_schedule
               PROVE  e.start \in Nat /\ Alt(e.id).duration \in Nat
    OBVIOUS
  <2>1. e.id \in Slots /\ e.start \in Nat
    BY DEF FlexibleSatTypeOK
  <2>2. problem \in Problems
    BY DEF FlexibleSatTypeOK
  <2>3. Alt(e.id).duration # None
    BY DEF Placed
  <2> QED
    BY <2>1, <2>2, <2>3, AltType
<1>5. \A e \in final_schedule : Alt(e.id).resource = Alt(x).resource
          => e.start + Alt(e.id).duration <= time
  <2> SUFFICES ASSUME NEW e \in final_schedule, Alt(e.id).resource = Alt(x).resource
               PROVE  e.start + Alt(e.id).duration <= time
    OBVIOUS
  <2>1. e.start + Alt(e.id).duration <= last_reservation_end
    BY <1>1 DEF Placed
  <2>2. e.start + Alt(e.id).duration \in Nat
    BY <1>4
  <2> QED
    BY <1>1, <2>1, <2>2
<1>6. Placed'
  <2>1. \A e \in final_schedule' :
          /\ e.id \notin left'
          /\ Alt(e.id).resource \notin todo'
          /\ Alt(e.id).duration # None
          /\ InWindow(e.id, e.start)
    BY <1>1, <1>2 DEF Placed, WalkPlace
  <2>2. \A e \in final_schedule', y \in left' :
          Alt(e.id).resource = Alt(y).resource
          => e.start + Alt(e.id).duration <= last_reservation_end'
    <3> SUFFICES ASSUME NEW e \in final_schedule', NEW y \in left',
                        Alt(e.id).resource = Alt(y).resource
                 PROVE  e.start + Alt(e.id).duration <= last_reservation_end'
      OBVIOUS
    <3>1. CASE e = new
      BY <1>1, <1>2, <3>1
    <3>2. CASE e \in final_schedule
      <4>1. Alt(e.id).resource = Alt(x).resource
        BY <1>1 DEF WalkPlace
      <4>2. e.start + Alt(e.id).duration <= time /\ e.start + Alt(e.id).duration \in Nat
        BY <1>4, <1>5, <3>2, <4>1
      <4> QED
        BY <1>1, <4>2
    <3> QED
      BY <1>2, <3>1, <3>2
  <2>3. \A e, f \in final_schedule' : e # f => e.id # f.id /\ Apart(e, f)
    <3> SUFFICES ASSUME NEW e \in final_schedule', NEW f \in final_schedule', e # f
                 PROVE  e.id # f.id /\ Apart(e, f)
      OBVIOUS
    <3>1. CASE e \in final_schedule /\ f \in final_schedule
      BY <3>1 DEF Placed
    <3>2. CASE e = new /\ f \in final_schedule
      BY <1>1, <1>2, <1>5, <3>2 DEF Apart, Placed
    <3>3. CASE f = new /\ e \in final_schedule
      BY <1>1, <1>2, <1>5, <3>3 DEF Apart, Placed
    <3> QED
      BY <1>2, <3>1, <3>2, <3>3
  <2>4. \A y, t : InWindow(y, t)' = InWindow(y, t)
    BY DEF InWindow, Alt
  <2>5. \A e, f : Apart(e, f)' = Apart(e, f)
    BY DEF Apart, Alt
  <2> QED
    BY <1>3, <2>1, <2>2, <2>3, <2>4, <2>5 DEF Placed
<1>7. WalkPlace'
  <2>1. last_reservation_end' >= Now
    BY <1>1, FlexibleSatAssumption DEF WalkPlace
  <2> QED
    BY <1>1, <1>3, <2>1 DEF WalkPlace
<1>8. NobodyForgotten'
  <2> SUFFICES ASSUME learned_clauses = {}, NEW y \in chosen, Walked(y)'
               PROVE  /\ Alt(y).duration # None /\ Alt(y).earliest # None
                         => \E e \in final_schedule' : e.id = y
                      /\ Alt(y).duration = None /\ Alt(y).latest # None
                         => \A e \in final_schedule' :
                              Alt(e.id).resource = Alt(y).resource
                              => e.start + Alt(e.id).duration <= Alt(y).latest
    BY <1>3 DEF NobodyForgotten
  <2>1. CASE y = x
    BY <1>2, <2>1
  <2>2. CASE y # x
    <3>1. Walked(y)
      BY <1>3, <2>2 DEF Walked
    <3>2. Alt(y).duration = None => Alt(y).resource # Alt(x).resource
      BY <1>1, <3>1 DEF WalkPlace, Walked
    <3> QED
      BY <1>2, <3>1, <3>2 DEF NobodyForgotten
  <2> QED
    BY <2>1, <2>2
<1> QED
  BY <1>6, <1>7, <1>8

\* x gets no entry; the walk goes on behind it.
LEMMA PassOver ==
    ASSUME Placed, WalkPlace, NEW x \in left,
           left' = left \ {x},
           UNCHANGED <<problem, chosen, todo, last_reservation_end, final_schedule>>
    PROVE  Placed' /\ (Alt(x).duration # None => WalkPlace')
<1>1. \A y : Alt(y)' = Alt(y)
  BY DEF Alt
<1>2. (\A y, t : InWindow(y, t)' = InWindow(y, t)) /\ (\A e, f : Apart(e, f)' = Apart(e, f))
  BY DEF InWindow, Apart, Alt
<1>3. Placed'
  BY <1>1, <1>2 DEF Placed
<1>4. Alt(x).duration # None => WalkPlace'
  BY <1>1 DEF WalkPlace
<1> QED
  BY <1>3, <1>4

\* What is left out of WalkPlace when nobody is left.
LEMMA NobodyLeft ==
    ASSUME left = {}, last_reservation_end >= Now
    PROVE  WalkPlace
BY DEF WalkPlace

LEMMA SameModel ==
    ASSUME Ordered, UNCHANGED <<problem, chosen, before>>
    PROVE  Ordered'
BY DEF Ordered, OneOfEach, Orders, OrderVars, Slots, TotalOn, Alt, can_be_scheduled_after

\* A choice has exactly one alternative of each request.
LEMMA OneChosen ==
    ASSUME OneOfEach(chosen), chosen \subseteq Slots
    PROVE  /\ \A x, y \in chosen : x[1] = y[1] => x = y
           /\ \A r \in DOMAIN problem : \E x \in chosen : x[1] = r
<1>1. \A x \in Slots : \E r \in DOMAIN problem : \E a \in DOMAIN problem[r] : x = <<r, a>>
  BY DEF Slots, SlotsOf
<1>2. ASSUME NEW x \in chosen, NEW y \in chosen, x[1] = y[1] PROVE x = y
  <2>1. PICK r \in DOMAIN problem : \E a \in DOMAIN problem[r] : x = <<r, a>>
    BY <1>1
  <2>2. PICK a \in DOMAIN problem[r] : x = <<r, a>>
    BY <2>1
  <2>3. PICK b \in DOMAIN problem[r] : y = <<r, b>>
    BY <1>1, <1>2, <2>2
  <2> QED
    BY <2>2, <2>3 DEF OneOfEach
<1>3. ASSUME NEW r \in DOMAIN problem PROVE \E x \in chosen : x[1] = r
  <2>1. PICK a \in DOMAIN problem[r] : <<r, a>> \in chosen
    BY DEF OneOfEach
  <2> QED
    BY <2>1
<1> QED
  BY <1>2, <1>3

\* When everybody chosen is walked and nothing was learned, those who stay for
\* ever do so where they were chosen to.
LEMMA WalkedIsServed ==
    ASSUME FlexibleSatTypeOK, Ordered, Placed, NobodyForgotten, learned_clauses = {},
           \A x \in chosen : Walked(x)
    PROVE  Served
<1> DEFINE stay == {x \in chosen : Endless(x)}
<1>1. OneOfEach(chosen) /\ chosen \subseteq Slots /\ \A e \in final_schedule : e.id \in chosen
  BY DEF Ordered, FlexibleSatTypeOK
<1>2. \A e \in final_schedule : ~Endless(e.id) /\ InWindow(e.id, e.start)
  BY DEF Placed, Endless
<1>3. \A e, f \in final_schedule : e # f => e.id[1] # f.id[1] /\ Apart(e, f)
  BY <1>1, OneChosen DEF Placed
<1>4. stay \in SUBSET {x \in Slots : Endless(x) /\ StaysInTime(x)}
  BY <1>1 DEF NobodyForgotten, Endless, StaysInTime
<1>5. \A x, y \in stay : x # y => Alt(x).resource # Alt(y).resource
  <2> SUFFICES ASSUME NEW x \in stay, NEW y \in stay, x # y, Alt(x).resource = Alt(y).resource
               PROVE  FALSE
    OBVIOUS
  <2>1. before \in Orders /\ (<<x, y>> \in before \/ <<y, x>> \in before)
    BY DEF Ordered, TotalOn
  <2> QED
    BY <2>1, OnlyTheLastStays DEF Endless
<1>6. ASSUME NEW r \in DOMAIN problem
      PROVE  \/ \E e \in final_schedule : e.id[1] = r
             \/ \E x \in stay : x[1] = r
             \/ \E x \in Slots : x[1] = r /\ ~Endless(x) /\ Alt(x).earliest = None
  <2>1. PICK x \in chosen : x[1] = r
    BY <1>1, OneChosen
  <2>2. CASE Endless(x)
    BY <2>1, <2>2
  <2>3. CASE ~Endless(x) /\ Alt(x).earliest = None
    BY <1>1, <2>1, <2>3
  <2>4. CASE ~Endless(x) /\ Alt(x).earliest # None
    BY <2>1, <2>4 DEF NobodyForgotten, Endless
  <2> QED
    BY <2>2, <2>3, <2>4
<1> QED
  BY <1>2, <1>3, <1>4, <1>5, <1>6 DEF Served

LEMMA SameServed ==
    ASSUME Served, UNCHANGED <<problem, final_schedule>>
    PROVE  Served'
<1>1. \A x : Alt(x)' = Alt(x)
  BY DEF Alt
<1>2. \A x : (Endless(x)' <=> Endless(x)) /\ (StaysInTime(x)' <=> StaysInTime(x))
  BY <1>1 DEF Endless, StaysInTime
<1>3. (\A x, t : InWindow(x, t)' <=> InWindow(x, t)) /\ (\A e, f : Apart(e, f)' <=> Apart(e, f))
  BY <1>1 DEF InWindow, Apart
<1>4. /\ \A e \in final_schedule' : ~Endless(e.id)' /\ InWindow(e.id, e.start)'
      /\ \A e, f \in final_schedule' : e # f => e.id[1] # f.id[1] /\ Apart(e, f)'
  BY <1>2, <1>3 DEF Served
<1>5. PICK stay \in SUBSET {x \in Slots : Endless(x) /\ StaysInTime(x)} :
          /\ \A x, y \in stay : x # y => Alt(x).resource # Alt(y).resource
          /\ \A r \in DOMAIN problem :
                \/ \E e \in final_schedule : e.id[1] = r
                \/ \E x \in stay : x[1] = r
                \/ \E x \in Slots : x[1] = r /\ ~Endless(x) /\ Alt(x).earliest = None
  BY DEF Served
<1>6. Slots' = Slots
  BY DEF Slots
<1>7. stay \in SUBSET {x \in Slots' : Endless(x)' /\ StaysInTime(x)'}
  BY <1>2, <1>6
<1>8. /\ \A x, y \in stay : x # y => Alt(x)'.resource # Alt(y)'.resource
      /\ \A r \in DOMAIN problem' :
            \/ \E e \in final_schedule' : e.id[1] = r
            \/ \E x \in stay : x[1] = r
            \/ \E x \in Slots' : x[1] = r /\ ~Endless(x)' /\ Alt(x)'.earliest = None
  BY <1>1, <1>2, <1>5, <1>6
<1> QED
  BY <1>4, <1>7, <1>8 DEF Served

LEMMA InitInv == Init => Inv
<1> SUFFICES ASSUME Init PROVE Inv
  OBVIOUS
<1>1. FlexibleSatTypeOK
  BY InitType
<1> QED
  BY <1>1 DEF Init, Inv, FeasibleServes

LEMMA SolveKeeps == Inv /\ Solve => Inv'
<1> SUFFICES ASSUME Inv, Solve PROVE Inv'
  OBVIOUS
<1>1. FlexibleSatTypeOK'
  BY NextType DEF Inv, Next, Search
<1>2. /\ pc' = "walk" /\ left' = {} /\ final_schedule' = {} /\ problem' = problem
      /\ todo' = {Alt(x).resource : x \in chosen'} /\ last_reservation_end' = Now
  BY DEF Solve
<1>3. Ordered'
  <2>1. OneOfEach(chosen') /\ before' \in Orders /\ TotalOn(before', chosen')
    BY DEF Solve, Choices
  <2> QED
    BY <1>2, <2>1
    DEF Ordered, OneOfEach, Orders, OrderVars, Slots, TotalOn, Alt, can_be_scheduled_after
<1>4. WalkPlace'
  BY <1>2, FlexibleSatAssumption DEF WalkPlace
<1>5. Placed'
  BY <1>2 DEF Placed
<1>6. NobodyForgotten'
  <2>1. \A x \in chosen' : Alt(x)'.resource \in todo'
    BY <1>2 DEF Alt
  <2> QED
    BY <2>1 DEF NobodyForgotten, Walked
<1> QED
  BY <1>1, <1>2, <1>3, <1>4, <1>5, <1>6 DEF Inv, FeasibleServes

LEMMA WalkResourceKeeps ==
    ASSUME Inv, NEW res \in Resources, WalkResource(res)
    PROVE  Inv'
<1>1. FlexibleSatTypeOK'
  BY NextType DEF Inv, Next, Search, Walk
<1>2. /\ pc = "walk" /\ pc' = "walk" /\ res \in todo /\ left = {}
      /\ todo' = todo \ {res} /\ left' = On(chosen, res) /\ last_reservation_end' = Now
      /\ UNCHANGED <<problem, chosen, before, learned_clauses, final_schedule>>
  BY DEF WalkResource, modelVars
<1>3. Ordered /\ WalkPlace /\ Placed /\ NobodyForgotten
  BY <1>2 DEF Inv
<1>4. Ordered'
  BY <1>2, <1>3, SameModel
<1>5. \A y : Alt(y)' = Alt(y)
  BY <1>2 DEF Alt
<1>6. (\A y, t : InWindow(y, t)' = InWindow(y, t)) /\ (\A e, f : Apart(e, f)' = Apart(e, f))
  BY <1>2 DEF InWindow, Apart, Alt
<1>7. \A x \in left' : x \in chosen /\ Alt(x).resource = res
  BY <1>2 DEF On
<1>8. WalkPlace'
  BY <1>2, <1>5, <1>7, FlexibleSatAssumption DEF WalkPlace, On
<1>9. \A e \in final_schedule : Alt(e.id).resource # res
  BY <1>2, <1>3 DEF Placed
<1>10. Placed'
  BY <1>2, <1>3, <1>5, <1>6, <1>7, <1>9 DEF Placed
<1>11. \A x \in chosen : Walked(x)' => Walked(x)
  BY <1>2, <1>5, <1>7 DEF Walked, On
<1>12. NobodyForgotten'
  BY <1>2, <1>3, <1>5, <1>11 DEF NobodyForgotten
<1> QED
  BY <1>1, <1>2, <1>4, <1>8, <1>10, <1>12 DEF Inv, FeasibleServes

LEMMA StayForEverKeeps ==
    ASSUME Inv, NEW x \in Slots, StayForEver(x)
    PROVE  Inv'
<1>1. FlexibleSatTypeOK'
  BY NextType DEF Inv, Next, Search, Walk
<1>2. /\ pc = "walk" /\ pc' = "walk" /\ x \in left /\ left = {x} /\ left' = {}
      /\ Alt(x).duration = None
      /\ learned_clauses' = learned_clauses \cup (IF TooLate(x) THEN {since_gap} ELSE {})
      /\ UNCHANGED <<problem, chosen, before, todo, last_reservation_end, final_schedule>>
  BY DEF StayForEver, IsNext, modelVars
<1>3. Ordered /\ WalkPlace /\ Placed /\ NobodyForgotten /\ FlexibleSatTypeOK
  BY <1>2 DEF Inv
<1>4. Ordered'
  BY <1>2, <1>3, SameModel
<1>5. WalkPlace'
  BY <1>2, <1>3, NobodyLeft DEF WalkPlace
<1>6. Placed'
  BY <1>2, <1>3, PassOver
<1>7. \A y : Alt(y)' = Alt(y)
  BY <1>2 DEF Alt
<1>8. NobodyForgotten'
  <2> SUFFICES ASSUME learned_clauses' = {}, NEW y \in chosen, Walked(y)'
               PROVE  /\ Alt(y).duration # None /\ Alt(y).earliest # None
                         => \E e \in final_schedule : e.id = y
                      /\ Alt(y).duration = None /\ Alt(y).latest # None
                         => \A e \in final_schedule :
                              Alt(e.id).resource = Alt(y).resource
                              => e.start + Alt(e.id).duration <= Alt(y).latest
    BY <1>2, <1>7 DEF NobodyForgotten
  <2>1. learned_clauses = {} /\ ~TooLate(x)
    BY <1>2
  <2>2. CASE y # x
    <3>1. Walked(y)
      BY <1>2, <1>7, <2>2 DEF Walked
    <3> QED
      BY <1>3, <2>1, <3>1 DEF NobodyForgotten
  <2>3. CASE y = x
    <3> SUFFICES ASSUME Alt(x).latest # None, NEW e \in final_schedule,
                        Alt(e.id).resource = Alt(x).resource
                 PROVE  e.start + Alt(e.id).duration <= Alt(x).latest
      BY <1>2, <2>3
    <3>1. e.start + Alt(e.id).duration <= last_reservation_end
      BY <1>2, <1>3 DEF Placed
    <3>2. last_reservation_end <= Alt(x).latest
      <4>1. Alt(x).latest \in Nat /\ last_reservation_end \in Nat
        BY <1>3, AltType DEF FlexibleSatTypeOK
      <4> QED
        BY <1>2, <2>1, <4>1 DEF TooLate
    <3>3. /\ e.start \in Nat /\ Alt(e.id).duration \in Nat
          /\ Alt(x).latest \in Nat /\ last_reservation_end \in Nat
      <4>1. e.id \in Slots /\ e.start \in Nat /\ Alt(e.id).duration # None
        BY <1>3 DEF Placed, FlexibleSatTypeOK
      <4> QED
        BY <1>3, <4>1, AltType DEF FlexibleSatTypeOK
    <3> QED
      BY <3>1, <3>2, <3>3
  <2> QED
    BY <2>2, <2>3
<1> QED
  BY <1>1, <1>2, <1>4, <1>5, <1>6, <1>8 DEF Inv, FeasibleServes

LEMMA SkipUndatedKeeps ==
    ASSUME Inv, NEW x \in Slots, SkipUndated(x)
    PROVE  Inv'
<1>1. FlexibleSatTypeOK'
  BY NextType DEF Inv, Next, Search, Walk
<1>2. /\ pc = "walk" /\ pc' = "walk" /\ x \in left /\ left' = left \ {x}
      /\ Alt(x).duration # None /\ Alt(x).earliest = None
      /\ UNCHANGED <<problem, chosen, before, todo, last_reservation_end,
                     learned_clauses, final_schedule>>
  BY DEF SkipUndated, IsNext, modelVars
<1>3. Ordered /\ WalkPlace /\ Placed /\ NobodyForgotten
  BY <1>2 DEF Inv
<1>4. Ordered'
  BY <1>2, <1>3, SameModel
<1>5. Placed' /\ WalkPlace'
  BY <1>2, <1>3, PassOver
<1>6. \A y : Alt(y)' = Alt(y)
  BY <1>2 DEF Alt
<1>7. \A y \in chosen : y # x /\ Walked(y)' => Walked(y)
  BY <1>2, <1>6 DEF Walked
<1>8. NobodyForgotten'
  BY <1>2, <1>3, <1>6, <1>7 DEF NobodyForgotten
<1> QED
  BY <1>1, <1>2, <1>4, <1>5, <1>8 DEF Inv, FeasibleServes

LEMMA StartEarliestKeeps ==
    ASSUME Inv, NEW x \in Slots, StartEarliest(x)
    PROVE  Inv'
<1>1. FlexibleSatTypeOK'
  BY NextType DEF Inv, Next, Search, Walk
<1>2. /\ pc = "walk" /\ pc' = "walk" /\ IsNext(x) /\ left' = left \ {x}
      /\ Alt(x).duration # None /\ Alt(x).earliest # None
      /\ Alt(x).earliest >= last_reservation_end
      /\ Starts(x, Alt(x).earliest)
      /\ last_reservation_end' = Alt(x).earliest + Alt(x).duration
      /\ UNCHANGED <<problem, chosen, before, todo, learned_clauses>>
  BY DEF StartEarliest, IsNext, modelVars
<1>3. Ordered /\ WalkPlace /\ Placed /\ NobodyForgotten /\ FlexibleSatTypeOK
  BY <1>2 DEF Inv
<1>4. Ordered'
  BY <1>2, <1>3, SameModel
<1>5. Alt(x).earliest \in Nat
  BY <1>2, <1>3, AltType DEF FlexibleSatTypeOK
<1>6. InWindow(x, Alt(x).earliest)
  BY <1>2, <1>3, WindowEarliest DEF WalkPlace
<1>7. Placed' /\ WalkPlace' /\ NobodyForgotten'
  BY <1>1, <1>2, <1>3, <1>5, <1>6, PlaceNext
<1> QED
  BY <1>1, <1>2, <1>4, <1>7 DEF Inv, FeasibleServes

LEMMA StartAfterLastKeeps ==
    ASSUME Inv, NEW x \in Slots, StartAfterLast(x)
    PROVE  Inv'
<1>1. FlexibleSatTypeOK'
  BY NextType DEF Inv, Next, Search, Walk
<1>2. /\ pc = "walk" /\ pc' = "walk" /\ IsNext(x) /\ left' = left \ {x}
      /\ Alt(x).duration # None /\ Alt(x).earliest # None
      /\ Alt(x).earliest < last_reservation_end /\ ~TooLate(x)
      /\ Starts(x, last_reservation_end)
      /\ last_reservation_end' = last_reservation_end + Alt(x).duration
      /\ UNCHANGED <<problem, chosen, before, todo, learned_clauses>>
  BY DEF StartAfterLast, IsNext, modelVars
<1>3. Ordered /\ WalkPlace /\ Placed /\ NobodyForgotten /\ FlexibleSatTypeOK
  BY <1>2 DEF Inv
<1>4. Ordered'
  BY <1>2, <1>3, SameModel
<1>5. last_reservation_end \in Nat /\ last_reservation_end >= last_reservation_end
  BY <1>3 DEF FlexibleSatTypeOK
<1>6. InWindow(x, last_reservation_end)
  BY <1>2, <1>3, WindowAfterLast DEF WalkPlace
<1>7. Placed' /\ WalkPlace' /\ NobodyForgotten'
  BY <1>1, <1>2, <1>3, <1>5, <1>6, PlaceNext
<1> QED
  BY <1>1, <1>2, <1>4, <1>7 DEF Inv, FeasibleServes

LEMMA LearnTooLateKeeps ==
    ASSUME Inv, NEW x \in Slots, LearnTooLate(x)
    PROVE  Inv'
<1>1. FlexibleSatTypeOK'
  BY NextType DEF Inv, Next, Search, Walk
<1>2. /\ pc = "walk" /\ pc' = "walk" /\ x \in left /\ left' = left \ {x}
      /\ Alt(x).duration # None
      /\ learned_clauses' # {}
      /\ UNCHANGED <<problem, chosen, before, todo, last_reservation_end, final_schedule>>
  BY DEF LearnTooLate, IsNext, modelVars
<1>3. Ordered /\ WalkPlace /\ Placed
  BY <1>2 DEF Inv
<1>4. Ordered'
  BY <1>2, <1>3, SameModel
<1>5. Placed' /\ WalkPlace'
  BY <1>2, <1>3, PassOver
<1>6. NobodyForgotten'
  BY <1>2 DEF NobodyForgotten
<1> QED
  BY <1>1, <1>2, <1>4, <1>5, <1>6 DEF Inv, FeasibleServes

LEMMA EndRoundKeeps == Inv /\ EndRound => Inv'
<1> SUFFICES ASSUME Inv, EndRound PROVE Inv'
  OBVIOUS
<1>1. FlexibleSatTypeOK'
  BY NextType DEF Inv, Next, Search, Walk
<1>2. /\ pc = "walk" /\ todo = {} /\ left = {}
      /\ pc' = IF learned_clauses = {} THEN "Feasible" ELSE "solve"
      /\ UNCHANGED <<problem, final_schedule>>
  BY DEF EndRound, modelVars, walkVars
<1>3. /\ Ordered /\ Placed /\ NobodyForgotten /\ FlexibleSatTypeOK
      /\ \A x \in chosen : Walked(x)
  BY <1>2 DEF Inv, Walked
<1>4. pc' = "Feasible" => Served'
  BY <1>2, <1>3, WalkedIsServed, SameServed
<1> QED
  BY <1>1, <1>2, <1>4 DEF Inv, FeasibleServes

LEMMA SameFormula ==
    ASSUME Unsatisfiable, UNCHANGED <<problem, clauses>>
    PROVE  Unsatisfiable'
<1>1. \A x, y : can_be_scheduled_after(x, y)' <=> can_be_scheduled_after(x, y)
  BY DEF can_be_scheduled_after, Alt
<1>2. OrderVars' = OrderVars
  BY <1>1 DEF OrderVars, Slots, Alt
<1>3. Orders' = Orders
  BY <1>2 DEF Orders
<1>4. Choices' = Choices
  BY DEF Choices, OneOfEach, Slots
<1>5. \A o, S : TotalOn(o, S)' <=> TotalOn(o, S)
  BY DEF TotalOn, Alt
<1> QED
  BY <1>3, <1>4, <1>5 DEF Unsatisfiable

\* The other ways a round ends leave everything but pc alone.
LEMMA EndingKeeps == Inv /\ (PanicOnEdge \/ NoModel \/ Stop) => Inv'
<1> SUFFICES ASSUME Inv, PanicOnEdge \/ NoModel \/ Stop PROVE Inv'
  OBVIOUS
<1>1. FlexibleSatTypeOK'
  BY NextType DEF Inv, Next, Search
<1>2. pc' \in {"panicked", "NoSolution", "TimedOut"}
  BY DEF PanicOnEdge, NoModel, Stop
<1>3. pc' = "NoSolution" => Unsatisfiable'
  <2>1. pc' = "NoSolution" => Unsatisfiable /\ UNCHANGED <<problem, clauses>>
    BY DEF PanicOnEdge, NoModel, Stop, Unsatisfiable
  <2> QED
    BY <2>1, SameFormula
<1> QED
  BY <1>1, <1>2, <1>3 DEF Inv, FeasibleServes

LEMMA StutterKeeps == Inv /\ UNCHANGED vars => Inv'
<1> SUFFICES ASSUME Inv, UNCHANGED vars PROVE Inv'
  OBVIOUS
<1>1. UNCHANGED <<problem, clauses, pc, chosen, before, todo, left,
                  last_reservation_end, learned_clauses, final_schedule>>
  BY DEF vars, modelVars, walkVars
<1>2. FlexibleSatTypeOK'
  BY NextType DEF Inv
<1>3. \A y : Alt(y)' = Alt(y)
  BY <1>1 DEF Alt
<1>4. (\A y, t : InWindow(y, t)' = InWindow(y, t)) /\ (\A e, f : Apart(e, f)' = Apart(e, f))
  BY <1>1 DEF InWindow, Apart, Alt
<1>5. Ordered => Ordered'
  BY <1>1, SameModel
<1>6. WalkPlace => WalkPlace'
  BY <1>1, <1>3 DEF WalkPlace
<1>7. Placed => Placed'
  BY <1>1, <1>3, <1>4 DEF Placed
<1>8. NobodyForgotten => NobodyForgotten'
  BY <1>1, <1>3 DEF NobodyForgotten, Walked
<1>9. Unsatisfiable => Unsatisfiable'
  BY <1>1, SameFormula
<1>10. FeasibleServes'
  BY <1>1, SameServed DEF Inv, FeasibleServes
<1> QED
  BY <1>1, <1>2, <1>5, <1>6, <1>7, <1>8, <1>9, <1>10 DEF Inv

LEMMA NextInv == Inv /\ [Next]_vars => Inv'
<1> SUFFICES ASSUME Inv, [Next]_vars PROVE Inv'
  OBVIOUS
<1> QED
  BY SolveKeeps, WalkResourceKeeps, StayForEverKeeps, SkipUndatedKeeps, StartEarliestKeeps,
     StartAfterLastKeeps, LearnTooLateKeeps, EndRoundKeeps, EndingKeeps, StutterKeeps
  DEF Next, Search, Walk

THEOREM Invariant == Spec => []Inv
BY InitInv, NextInv, PTL DEF Spec
-----------------------------------------------------------------------------
(* The properties.                                                         *)

\* A schedule that is returned serves every request that gives an earliest
\* start wherever it gives an end: with an entry, alone on the resource and in
\* its window, or with a place to stay for ever.
THEOREM FeasibleSchedules == Spec => []FeasibleServes
<1>1. Inv => FeasibleServes
  BY DEF Inv
<1> QED
  BY Invariant, <1>1, PTL

\* The walk always finds a next one, and one that stays for ever is last.
THEOREM NoPanicInTheWalk == Spec => []WalkNeverPanics
<1>1. Inv => WalkNeverPanics
  <2> SUFFICES ASSUME Inv, pc = "walk", left # {}
               PROVE  \E x \in left : IsNext(x) /\ (Alt(x).duration = None => left = {x})
    BY DEF WalkNeverPanics
  <2>1. /\ before \in Orders /\ TotalOn(before, left)
        /\ left \in SUBSET Slots /\ problem \in Problems
    BY DEF Inv, Ordered, TotalOn, FlexibleSatTypeOK
  <2>2. \A x, y \in left : Alt(x).resource = Alt(y).resource
    BY DEF Inv, WalkPlace
  <2>3. PICK x \in left : \A y \in left \ {x} : <<x, y>> \in before
    BY <2>1, <2>2, SomebodyIsFirst
  <2>4. IsNext(x)
    BY <2>3 DEF IsNext
  <2>5. ASSUME Alt(x).duration = None PROVE left = {x}
    <3> SUFFICES ASSUME NEW y \in left \ {x} PROVE FALSE
      OBVIOUS
    <3>1. <<x, y>> \in before
      BY <2>3
    <3> QED
      BY <2>1, <2>5, <3>1, OnlyTheLastStays
  <2> QED
    BY <2>4, <2>5
<1> QED
  BY Invariant, <1>1, PTL

\* Without a learned clause, no model means no schedule.
THEOREM RulesOutTheImpossible == Spec => []RuledOutIsImpossible
<1>1. Inv => RuledOutIsImpossible
  <2> SUFFICES ASSUME Inv, pc = "NoSolution", clauses = {},
                      NEW S \in SUBSET Slots, NEW start \in [S -> Times], Slack(S, start)
               PROVE  FALSE
    BY DEF RuledOutIsImpossible
  <2>1. S \in Choices
    BY DEF Choices, Slack
  <2>2. start \in [S -> Nat]
    BY FlexibleSatAssumption DEF Times
  <2>3. \E o \in Orders : TotalOn(o, S)
    BY <2>2, ScheduleIsModel DEF Inv, FlexibleSatTypeOK
  <2> QED
    BY <2>1, <2>3 DEF Inv, Unsatisfiable
<1> QED
  BY Invariant, <1>1, PTL
-----------------------------------------------------------------------------
(* What the walk learns.                                                   *)

\* start keeps to the order the model gives the chosen ones on a resource.
InOrder(start) ==
    \A x, y \in chosen : <<x, y>> \in before => start[x] + Alt(x).duration <= start[y]

\* Whatever keeps to the order of this round, and starts nobody at the last
\* moment, starts everybody no earlier than the walk does; when there is such
\* a schedule the round learns nothing.
EarliestInOrder ==
    \A start \in [chosen -> Nat] :
        Slack(chosen, start) /\ InOrder(start) =>
            /\ \A x \in left : last_reservation_end <= start[x]
            /\ \A e \in final_schedule : e.start <= start[e.id]
            /\ learned_clauses = {}

\* A step that leaves the model alone leaves alone what keeps to it.
LEMMA SameSchedules ==
    ASSUME UNCHANGED <<problem, chosen, before>>
    PROVE  /\ \A y : Alt(y)' = Alt(y)
           /\ \A start : Slack(chosen, start)' <=> Slack(chosen, start)
           /\ \A start : InOrder(start)' <=> InOrder(start)
BY DEF Alt, Slack, OneOfEach, InWindow, InOrder

\* Whoever the walk passes over starts before those that are left to walk.
LEMMA NextIsBefore ==
    ASSUME FlexibleSatTypeOK, NEW x \in Slots, IsNext(x), Alt(x).duration # None,
           NEW start \in [chosen -> Nat], InOrder(start)
    PROVE  /\ x \in chosen /\ start[x] \in Nat /\ Alt(x).duration \in Nat
           /\ \A y \in left \ {x} : start[y] \in Nat /\ start[x] + Alt(x).duration <= start[y]
<1>1. x \in chosen /\ left \subseteq chosen
  BY DEF IsNext, FlexibleSatTypeOK
<1>2. Alt(x).duration \in Nat
  BY AltType DEF FlexibleSatTypeOK
<1>3. \A y \in left \ {x} : <<x, y>> \in before
  BY DEF IsNext
<1> QED
  BY <1>1, <1>2, <1>3 DEF InOrder

\* Nobody is too late who could still start before the last moment.
LEMMA NotTooLate ==
    ASSUME FlexibleSatTypeOK, NEW x \in left,
           NEW start \in [chosen -> Nat], Slack(chosen, start),
           last_reservation_end <= start[x]
    PROVE  ~TooLate(x)
<1>1. x \in chosen /\ x \in Slots /\ start[x] \in Nat /\ last_reservation_end \in Nat
  BY DEF FlexibleSatTypeOK
<1>2. Alt(x).latest \in Nat \cup {None}
  BY <1>1, AltType DEF FlexibleSatTypeOK
<1>3. Alt(x).latest # None => start[x] < Alt(x).latest
  BY <1>1 DEF Slack
<1> QED
  BY <1>1, <1>2, <1>3 DEF TooLate

LEMMA SolveIsEarliest == Inv /\ Solve => EarliestInOrder'
BY DEF Solve, EarliestInOrder

LEMMA WalkResourceIsEarliest ==
    ASSUME Inv, EarliestInOrder, NEW res \in Resources, WalkResource(res)
    PROVE  EarliestInOrder'
<1>1. /\ left' \subseteq chosen /\ last_reservation_end' = Now
      /\ UNCHANGED <<problem, chosen, before, learned_clauses, final_schedule>>
  BY DEF WalkResource, On, modelVars
<1>2. \A start : Slack(chosen, start) => \A x \in left' : start[x] >= Now
  BY <1>1 DEF Slack, InWindow
<1> QED
  BY <1>1, <1>2, SameSchedules DEF EarliestInOrder

LEMMA StayForEverIsEarliest ==
    ASSUME Inv, EarliestInOrder, NEW x \in Slots, StayForEver(x)
    PROVE  EarliestInOrder'
<1>1. /\ left = {x} /\ left' = {}
      /\ learned_clauses' = learned_clauses \cup (IF TooLate(x) THEN {since_gap} ELSE {})
      /\ UNCHANGED <<problem, chosen, before, final_schedule>>
  BY DEF StayForEver, modelVars
<1>2. \A start \in [chosen -> Nat] : Slack(chosen, start) /\ InOrder(start) => ~TooLate(x)
  BY <1>1, NotTooLate DEF EarliestInOrder, Inv
<1> QED
  BY <1>1, <1>2, SameSchedules DEF EarliestInOrder

LEMMA SkipUndatedIsEarliest ==
    ASSUME Inv, EarliestInOrder, NEW x \in Slots, SkipUndated(x)
    PROVE  EarliestInOrder'
<1>1. /\ left' = left \ {x}
      /\ UNCHANGED <<problem, chosen, before, last_reservation_end, learned_clauses, final_schedule>>
  BY DEF SkipUndated, modelVars
<1> QED
  BY <1>1, SameSchedules DEF EarliestInOrder

\* x is given the time that is the earliest in this order.
LEMMA StartIsEarliest ==
    ASSUME FlexibleSatTypeOK, EarliestInOrder, NEW x \in Slots, IsNext(x), Alt(x).duration # None,
           NEW time \in Nat,
           \A start \in [chosen -> Nat] :
               Slack(chosen, start) /\ last_reservation_end <= start[x] => time <= start[x],
           Starts(x, time), last_reservation_end' = time + Alt(x).duration,
           left' = left \ {x},
           UNCHANGED <<problem, chosen, before, learned_clauses>>
    PROVE  EarliestInOrder'
<1> SUFFICES ASSUME NEW start \in [chosen -> Nat], Slack(chosen, start), InOrder(start)
             PROVE  /\ \A y \in left' : last_reservation_end' <= start[y]
                    /\ \A e \in final_schedule' : e.start <= start[e.id]
                    /\ learned_clauses' = {}
  BY SameSchedules DEF EarliestInOrder
<1>1. /\ \A y \in left : last_reservation_end <= start[y]
      /\ \A e \in final_schedule : e.start <= start[e.id]
      /\ learned_clauses = {}
  BY DEF EarliestInOrder
<1>2. /\ x \in chosen /\ start[x] \in Nat /\ Alt(x).duration \in Nat
      /\ \A y \in left \ {x} : start[y] \in Nat /\ start[x] + Alt(x).duration <= start[y]
  BY NextIsBefore
<1>3. time <= start[x]
  BY <1>1 DEF IsNext
<1>4. \A y \in left' : last_reservation_end' <= start[y]
  <2> SUFFICES ASSUME NEW y \in left \ {x} PROVE time + Alt(x).duration <= start[y]
    OBVIOUS
  <2>1. start[y] \in Nat /\ start[x] + Alt(x).duration <= start[y]
    BY <1>2
  <2> QED
    BY <1>2, <1>3, <2>1
<1>5. \A e \in final_schedule' : e.start <= start[e.id]
  BY <1>1, <1>3 DEF Starts
<1> QED
  BY <1>1, <1>4, <1>5

LEMMA StartEarliestIsEarliest ==
    ASSUME Inv, EarliestInOrder, NEW x \in Slots, StartEarliest(x)
    PROVE  EarliestInOrder'
<1>1. /\ IsNext(x) /\ Alt(x).duration # None /\ Alt(x).earliest # None
      /\ Starts(x, Alt(x).earliest)
      /\ last_reservation_end' = Alt(x).earliest + Alt(x).duration /\ left' = left \ {x}
      /\ UNCHANGED <<problem, chosen, before, learned_clauses>>
  BY DEF StartEarliest, modelVars
<1>2. FlexibleSatTypeOK /\ Alt(x).earliest \in Nat
  BY <1>1, AltType DEF Inv, FlexibleSatTypeOK
<1>3. \A start : Slack(chosen, start) => Alt(x).earliest <= start[x]
  BY <1>1, <1>2 DEF Slack, InWindow, IsNext, FlexibleSatTypeOK
<1> QED
  BY <1>1, <1>2, <1>3, StartIsEarliest

LEMMA StartAfterLastIsEarliest ==
    ASSUME Inv, EarliestInOrder, NEW x \in Slots, StartAfterLast(x)
    PROVE  EarliestInOrder'
<1>1. /\ IsNext(x) /\ Alt(x).duration # None
      /\ Starts(x, last_reservation_end)
      /\ last_reservation_end' = last_reservation_end + Alt(x).duration /\ left' = left \ {x}
      /\ UNCHANGED <<problem, chosen, before, learned_clauses>>
  BY DEF StartAfterLast, modelVars
<1>2. FlexibleSatTypeOK /\ last_reservation_end \in Nat
  BY DEF Inv, FlexibleSatTypeOK
<1> QED
  BY <1>1, <1>2, StartIsEarliest

LEMMA LearnTooLateIsEarliest ==
    ASSUME Inv, EarliestInOrder, NEW x \in Slots, LearnTooLate(x)
    PROVE  EarliestInOrder'
<1>1. /\ x \in left /\ TooLate(x)
      /\ UNCHANGED <<problem, chosen, before>>
  BY DEF LearnTooLate, IsNext, modelVars
<1>2. \A start \in [chosen -> Nat] : ~(Slack(chosen, start) /\ InOrder(start))
  BY <1>1, NotTooLate DEF EarliestInOrder, Inv
<1> QED
  BY <1>1, <1>2, SameSchedules DEF EarliestInOrder

\* The walk's start times are the earliest there are in the order it follows,
\* and it learns a clause only from an order nobody could keep to.  What it
\* then forbids is the choice, whatever its order: that is why a problem that
\* another order solves can be reported to have no solution.
THEOREM LearnsFromTheImpossible == Spec => []EarliestInOrder
<1>1. Init => EarliestInOrder
  BY DEF Init, EarliestInOrder
<1>2. Inv /\ EarliestInOrder /\ [Next]_vars => EarliestInOrder'
  <2> SUFFICES ASSUME Inv, EarliestInOrder, [Next]_vars PROVE EarliestInOrder'
    OBVIOUS
  <2>1. CASE EndRound \/ PanicOnEdge \/ NoModel \/ Stop \/ UNCHANGED vars
    <3>1. UNCHANGED <<problem, chosen, before, left, last_reservation_end, learned_clauses, final_schedule>>
      BY <2>1 DEF EndRound, PanicOnEdge, NoModel, Stop, vars, modelVars, walkVars
    <3> QED
      BY <3>1, SameSchedules DEF EarliestInOrder
  <2> QED
    BY <2>1, SolveIsEarliest, WalkResourceIsEarliest, StayForEverIsEarliest, SkipUndatedIsEarliest,
       StartEarliestIsEarliest, StartAfterLastIsEarliest, LearnTooLateIsEarliest
    DEF Next, Search, Walk
<1> QED
  BY <1>1, <1>2, Invariant, PTL DEF Spec
-----------------------------------------------------------------------------
(* Progress: what the end of the search rests on.                          *)

\* A round that ends without a schedule is over with its choice for good.
NoChoiceTwice ==
    [][/\ Choices' \subseteq Choices
       /\ pc = "walk" /\ pc' = "solve" => chosen \in Choices /\ chosen \notin Choices']_vars

ChosenIsChoice == pc = "walk" => chosen \in Choices

\* More clauses leave fewer choices.
LEMMA FewerChoices ==
    ASSUME UNCHANGED problem, clauses \subseteq clauses'
    PROVE  Choices' \subseteq Choices
BY DEF Choices, OneOfEach, Slots

LEMMA SameChoices ==
    ASSUME UNCHANGED <<problem, clauses>>
    PROVE  Choices' = Choices
BY DEF Choices, OneOfEach, Slots

\* Only EndRound learns.
LEMMA ClausesStay ==
    ASSUME [Next]_vars
    PROVE  /\ UNCHANGED problem
           /\ clauses' = clauses \/ EndRound
           /\ pc' = "walk" => Solve \/ (pc = "walk" /\ UNCHANGED chosen)
BY DEF Next, Search, Walk, Solve, PanicOnEdge, NoModel, Stop, WalkResource, StayForEver, SkipUndated,
       StartEarliest, StartAfterLast, LearnTooLate, EndRound, IsNext, vars, modelVars, walkVars

\* No choice is walked in vain twice, for every set of problems: whatever a
\* round learns is part of its own choice.  That the search ends follows, as
\* there are finitely many choices.
THEOREM NeverChoosesTwice == Spec => NoChoiceTwice
<1>1. Init => ChosenIsChoice
  BY DEF Init, ChosenIsChoice
<1>2. ChosenIsChoice /\ [Next]_vars => ChosenIsChoice'
  <2> SUFFICES ASSUME ChosenIsChoice, [Next]_vars, pc' = "walk" PROVE chosen' \in Choices'
    BY DEF ChosenIsChoice
  <2>1. UNCHANGED <<problem, clauses>>
    BY ClausesStay DEF EndRound
  <2>2. chosen' \in Choices
    BY ClausesStay DEF Solve, ChosenIsChoice
  <2> QED
    BY <2>1, <2>2, SameChoices
<1>3. FlexibleSatTypeOK /\ ChosenIsChoice /\ [Next]_vars
      => /\ Choices' \subseteq Choices
         /\ pc = "walk" /\ pc' = "solve" => chosen \in Choices /\ chosen \notin Choices'
  <2> SUFFICES ASSUME FlexibleSatTypeOK, ChosenIsChoice, [Next]_vars
               PROVE  /\ Choices' \subseteq Choices
                      /\ pc = "walk" /\ pc' = "solve" => chosen \in Choices /\ chosen \notin Choices'
    OBVIOUS
  <2>1. Choices' \subseteq Choices
    BY ClausesStay, FewerChoices DEF EndRound
  <2>2. ASSUME pc = "walk", pc' = "solve" PROVE chosen \notin Choices'
    <3>1. EndRound
      BY <2>2 DEF Next, Search, Walk, Solve, PanicOnEdge, NoModel, Stop, WalkResource, StayForEver, SkipUndated,
           StartEarliest, StartAfterLast, LearnTooLate, IsNext, vars
    <3>2. PICK clause \in learned_clauses : clause \in clauses'
      BY <2>2, <3>1 DEF EndRound
    <3>3. clause \subseteq chosen
      BY <3>2 DEF FlexibleSatTypeOK
    <3> QED
      BY <3>2, <3>3 DEF Choices
  <2> QED
    BY <2>1, <2>2 DEF ChosenIsChoice
<1> QED
  BY <1>1, <1>2, <1>3, TypeCorrect, PTL DEF Spec, NoChoiceTwice
=============================================================================
