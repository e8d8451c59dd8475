----------------------- MODULE FlexibleReservationsProofs -----------------------
(***************************************************************************)
(* What claims guarantee in FlexibleReservations, for every number of      *)
(* snapshots, clients and wait points and every order of the HashMap.      *)
(*                                                                         *)
(* The argument: a solve answers once, so that all goals of a solve come   *)
(* from one schedule, and while it is in the cell this is the schedule     *)
(* there (GoalsInCell); the mapping of a snapshot names every ticket once, *)
(* so that two tickets never look up one index of it, and one that has no  *)
(* alternatives is met wherever it stands (NoneBareBelow).                 *)
(***************************************************************************)
EXTENDS FlexibleReservations, FunctionTheorems, FiniteSetTheorems, TLAPS

\* A solve whose answer is in the cell, or was claimed from, has reported.
Answered ==
    /\ answer.kind = "Feasible" => answer.solve \in reported
    /\ \A t \in Tickets : HasGoal(t) => outcome[t].answered \in reported

\* Where a goal was looked up: at the index that the newest metadata of that
\* time have for the ticket.
Lookups ==
    \A t \in Tickets : HasGoal(t) =>
        /\ t < latest
        /\ outcome[t].metadata \in 1..latest
        /\ t < outcome[t].metadata
        /\ outcome[t].goal.idx = mapping[outcome[t].metadata][t]

\* A goal out of the schedule in the cell is still there.
GoalsInCell ==
    \A t \in Tickets : HasGoal(t) /\ outcome[t].answered = answer.solve =>
        /\ answer.kind = "Feasible"
        /\ outcome[t].goal.idx \in DOMAIN schedule
        /\ outcome[t].goal = schedule[outcome[t].goal.idx]

\* The newest mapping, and every other, names each ticket once.
MappingsOneToOne ==
    \A s \in 1..latest : \A i, j \in 0..(s - 1) : mapping[s][i] = mapping[s][j] => i = j

\* A schedule comes from a snapshot in which every ticket has alternatives.
NoneBareBelow ==
    /\ answer.kind = "Feasible" => \A u \in 0..(answer.solve - 1) : record[u + 1] # <<>>
    /\ \A t \in Tickets : HasGoal(t) =>
          \A u \in 0..(outcome[t].answered - 1) : record[u + 1] # <<>>

Inv ==
    /\ FlexibleTypeOK
    /\ mapping = [s \in Solves |-> mapping[s]]
    /\ outcome = [t \in Tickets |-> outcome[t]]
    /\ Consistent(schedule)
    /\ Answered
    /\ Lookups
    /\ GoalsInCell
    /\ MappingsOneToOne
    /\ MetadataNeverMalformed
    /\ NoneBareBelow
    /\ OneScheduleNoCollision
-----------------------------------------------------------------------------
LEMMA InitInv == ASSUME FlexibleInit PROVE Inv
<1> USE SolvesAssumption DEF FlexibleInit, CellInit, SpotsInit
<1>1. FlexibleTypeOK
  BY DEF FlexibleTypeOK, CellTypeOK, SpotsTypeOK, Answer, Kinds, NoAnswer
<1>2. \A t \in Tickets : ~HasGoal(t) /\ outcome[t].kind = "unclaimed"
  BY DEF HasGoal, NoGoal
<1>3. answer.kind = "NotFound" /\ latest = 0 /\ schedule = <<>>
  BY DEF NoAnswer
<1> QED
  BY <1>1, <1>2, <1>3 DEF Inv, Consistent, Answered, Lookups, GoalsInCell, MappingsOneToOne,
     MetadataNeverMalformed, NoneBareBelow, OneScheduleNoCollision

\* The types of what actions read.
LEMMA Types ==
    ASSUME FlexibleTypeOK
    PROVE  /\ latest \in Nat /\ MaxSolves \in Nat /\ latest <= MaxSolves
           /\ live \subseteq 1..latest
           /\ Solves = 1..MaxSolves
           /\ record \in Seq(Requests) /\ Len(record) = latest
BY SolvesAssumption DEF FlexibleTypeOK, CellTypeOK, Solves

\* request_resources adds a ticket, a snapshot and its mapping.
LEMMA RequestKeepsInv ==
    ASSUME Inv, NEW alternatives \in Requests, RequestResources(alternatives)
    PROVE  Inv'
<1>0. /\ Inv /\ FlexibleTypeOK /\ Lookups /\ MappingsOneToOne /\ NoneBareBelow
      /\ mapping = [s \in Solves |-> mapping[s]]
  BY DEF Inv
<1>1. /\ latest' = latest + 1 /\ latest + 1 \in Solves
      /\ live' = live \cup {latest + 1}
      /\ record' = Append(record, alternatives)
      /\ UNCHANGED <<answer, claims, reported, schedule, spots, resting, outcome, calls>>
  BY <1>0, Types DEF RequestResources, NewSnapshot
<1>2. PICK order \in Orders(latest + 1) : mapping' = [mapping EXCEPT ![latest + 1] = order]
  BY DEF RequestResources
<1>3. /\ \A s \in 1..latest : mapping'[s] = mapping[s]
      /\ mapping'[latest + 1] = order
      /\ order \in [0..latest -> 0..latest]
      /\ \A i, j \in 0..latest : order[i] = order[j] => i = j
  BY <1>0, <1>1, <1>2, Types DEF Orders
<1>4. \A s \in 1..latest' : s \in 1..latest \/ s = latest + 1
  BY <1>0, <1>1, Types
<1>5. FlexibleTypeOK'
  <2>1. CellTypeOK'
    <3>1. CellTypeOK /\ MaxSolves \in Nat /\ latest \in Nat
      BY <1>0, Types DEF FlexibleTypeOK
    <3>2. latest' \in 0..MaxSolves
      BY <1>0, <1>1, <3>1, Types
    <3>3. live' \subseteq 1..latest'
      BY <1>1, <3>1 DEF CellTypeOK
    <3> QED
      BY <1>1, <3>1, <3>2, <3>3 DEF CellTypeOK
  <2>2. SpotsTypeOK'
    BY <1>0, <1>1 DEF FlexibleTypeOK, SpotsTypeOK
  <2>3. record' \in Seq(Requests) /\ Len(record') = latest'
    BY <1>0, <1>1, Types
  <2>4. ASSUME NEW s \in 1..latest' PROVE mapping'[s] \in [0..(s - 1) -> 0..(s - 1)]
    <3>1. CASE s \in 1..latest
      BY <1>0, <1>3, <3>1 DEF FlexibleTypeOK
    <3>2. CASE s = latest + 1
      <4>1. s - 1 = latest
        BY <1>0, <3>2, Types
      <4> QED
        BY <1>3, <3>2, <4>1
    <3> QED
      BY <1>4, <3>1, <3>2
  <2>5. claims' \subseteq Tickets /\ reported' \subseteq 1..latest'
    BY <1>0, <1>1, Types DEF FlexibleTypeOK
  <2> QED
    BY <1>0, <1>1, <2>1, <2>2, <2>3, <2>4, <2>5 DEF FlexibleTypeOK
<1>6. mapping' = [s \in Solves |-> mapping'[s]]
  BY <1>0, <1>2
<1>7. Lookups'
  <2> SUFFICES ASSUME NEW t \in Tickets, HasGoal(t)'
               PROVE  /\ t < latest'
                      /\ outcome'[t].metadata \in 1..latest'
                      /\ t < outcome'[t].metadata
                      /\ outcome'[t].goal.idx = mapping'[outcome'[t].metadata][t]
    BY DEF Lookups
  <2>1. /\ t < latest
        /\ outcome[t].metadata \in 1..latest
        /\ t < outcome[t].metadata
        /\ outcome[t].goal.idx = mapping[outcome[t].metadata][t]
    BY <1>0, <1>1 DEF Lookups, HasGoal
  <2>2. t \in Nat /\ latest \in Nat
    BY <1>0, Types DEF Tickets
  <2>3. t < latest' /\ outcome[t].metadata \in 1..latest'
    BY <1>1, <2>1, <2>2
  <2>4. mapping'[outcome[t].metadata] = mapping[outcome[t].metadata] /\ outcome' = outcome
    BY <1>1, <1>3, <2>1
  <2> QED
    BY <2>1, <2>3, <2>4
<1>8. MappingsOneToOne'
  <2> SUFFICES ASSUME NEW s \in 1..latest', NEW i \in 0..(s - 1), NEW j \in 0..(s - 1),
                      mapping'[s][i] = mapping'[s][j]
               PROVE  i = j
    BY DEF MappingsOneToOne
  <2>1. CASE s \in 1..latest
    BY <1>0, <1>3, <2>1 DEF MappingsOneToOne
  <2>2. CASE s = latest + 1
    <3>1. i \in 0..latest /\ j \in 0..latest
      BY <1>0, <2>2, Types
    <3> QED
      BY <1>3, <2>2, <3>1
  <2> QED
    BY <1>4, <2>1, <2>2
<1>9. NoneBareBelow'
  <2>0. Answered /\ reported \subseteq 1..latest
    BY <1>0 DEF Inv, FlexibleTypeOK
  <2>1. ASSUME NEW s \in 1..latest, NEW u \in 0..(s - 1) PROVE record'[u + 1] = record[u + 1]
    <3>1. u + 1 \in 1..Len(record)
      BY <1>0, Types
    <3> QED
      BY <1>0, <1>1, <3>1, Types
  <2>2. answer.kind = "Feasible" => answer.solve \in 1..latest
    BY <2>0 DEF Answered
  <2>3. \A t \in Tickets : HasGoal(t) => outcome[t].answered \in 1..latest
    BY <2>0 DEF Answered
  <2> QED
    BY <1>0, <1>1, <2>1, <2>2, <2>3 DEF NoneBareBelow, HasGoal
<1> QED
  BY <1>1, <1>5, <1>6, <1>7, <1>8, <1>9
     DEF Inv, Consistent, Answered, GoalsInCell, HasGoal, MetadataNeverMalformed, OneScheduleNoCollision

\* A report replaces the schedule; nobody has claimed from the new one yet.
LEMMA ReportKeepsInv ==
    ASSUME Inv, NEW s \in Solves, s \in live \ reported,
           answer' \in Answer, answer'.solve = s, reported' = reported \cup {s},
           Consistent(schedule'),
           answer'.kind = "Feasible" => \A u \in 0..(s - 1) : record[u + 1] # <<>>,
           \A i \in DOMAIN schedule' : schedule'[i].idx = i /\ schedule'[i].slot \in Slots,
           UNCHANGED <<latest, live, record, claims, mapping, spots, resting, outcome>>
    PROVE  Inv'
<1>1. FlexibleTypeOK'
  <2>1. FlexibleTypeOK
    BY DEF Inv
  <2>2. CellTypeOK' /\ SpotsTypeOK'
    BY <2>1 DEF FlexibleTypeOK, CellTypeOK, SpotsTypeOK
  <2>3. s \in 1..latest
    BY <2>1, Types
  <2>4. reported' \subseteq 1..latest
    BY <2>1, <2>3 DEF FlexibleTypeOK
  <2> QED
    BY <2>1, <2>2, <2>4 DEF FlexibleTypeOK
<1> USE DEF Inv
<1>2. Answered' /\ GoalsInCell' /\ NoneBareBelow'
  BY DEF Answered, GoalsInCell, NoneBareBelow, HasGoal
<1> QED
  BY <1>1, <1>2 DEF Consistent, Lookups, HasGoal, MappingsOneToOne,
     MetadataNeverMalformed, NoneBareBelow, OneScheduleNoCollision

\* Every ticket of a snapshot stands somewhere in its problem.
LEMMA MappingOnto ==
    ASSUME FlexibleTypeOK, MappingsOneToOne, NEW s \in 1..latest, NEW u \in 0..(s - 1)
    PROVE  \E i \in 0..(s - 1) : mapping[s][i] = u
<1> DEFINE S == 0..(s - 1)
<1>1. mapping[s] \in [S -> S]
  BY DEF FlexibleTypeOK
<1>2. \A i, j \in S : mapping[s][i] = mapping[s][j] => i = j
  BY DEF MappingsOneToOne
<1>3. IsFiniteSet(S)
  BY Types, FS_Interval
<1> HIDE DEF S
<1>4. mapping[s] \in Injection(S, S)
  BY <1>1, <1>2, Fun_IsInj
<1>5. mapping[s] \in Surjection(S, S)
  BY <1>3, <1>4, FS_Injection
<1>6. \A v \in S : \E i \in S : mapping[s][i] = v
  BY <1>5, Fun_SurjectionProperties
<1> QED
  BY <1>6 DEF S

\* The schedule of a solve is consistent, and there is one only if no ticket of
\* its snapshot goes without alternatives.
LEMMA ScheduleKeepsInv ==
    ASSUME Inv, NEW s \in Solves, ReportSchedule(s)
    PROVE  Inv'
<1> DEFINE problem == Problem(s)
<1>1. PICK choice \in Choices(problem), start \in [0..(s - 1) -> Slots] :
        LET f == [i \in DOMAIN problem |->
                     Item(i, choice[i], problem[i][choice[i]].resource, start[i])]
        IN  /\ Consistent(f)
            /\ schedule' = [i \in {j \in DOMAIN f : problem[j][choice[j]].placed} |-> f[i]]
  BY DEF ReportSchedule
<1> DEFINE f == [i \in DOMAIN problem |->
                     Item(i, choice[i], problem[i][choice[i]].resource, start[i])]
           placed == {j \in DOMAIN f : problem[j][choice[j]].placed}
<1>2. DOMAIN f = 0..(s - 1)
  BY DEF Problem
<1>3. \A i \in placed : f[i].idx = i /\ f[i].slot \in Slots
  BY <1>2 DEF Item
<1>4. placed \subseteq DOMAIN f /\ Consistent(f) /\ schedule' = [i \in placed |-> f[i]]
  BY <1>1
<1> HIDE DEF f, placed
<1>5. Consistent(schedule')
  BY <1>4 DEF Consistent
<1>6. \A i \in DOMAIN schedule' : schedule'[i].idx = i /\ schedule'[i].slot \in Slots
  BY <1>3, <1>4
<1>7. answer' \in Answer /\ answer'.solve = s
  BY Types DEF ReportSchedule, Answer, Kinds, PublishedKinds, Inv, Solves
<1>8. ASSUME NEW u \in 0..(s - 1) PROVE record[u + 1] # <<>>
  <2>1. s \in 1..latest
    BY Types DEF ReportSchedule, Inv
  <2>2. PICK i \in 0..(s - 1) : mapping[s][i] = u
    BY <2>1, MappingOnto DEF Inv
  <2>3. choice[i] \in DOMAIN problem[i] /\ problem[i] = record[u + 1]
    BY <2>2 DEF Choices, Problem
  <2> QED
    BY <2>3
<1> QED
  BY <1>5, <1>6, <1>7, <1>8, ReportKeepsInv DEF ReportSchedule

LEMMA UnSolveableKeepsInv ==
    ASSUME Inv, NEW s \in Solves, ReportUnSolveable(s)
    PROVE  Inv'
<1>1. answer' \in Answer /\ answer'.solve = s
  BY Types DEF ReportUnSolveable, Answer, Kinds, PublishedKinds, Inv, Solves
<1>2. schedule' = <<>>
  BY DEF ReportUnSolveable
<1>3. Consistent(schedule')
  BY <1>2 DEF Consistent
<1>4. \A i \in DOMAIN schedule' : schedule'[i].idx = i /\ schedule'[i].slot \in Slots
  BY <1>2
<1> QED
  BY <1>1, <1>3, <1>4, ReportKeepsInv DEF ReportUnSolveable
-----------------------------------------------------------------------------
(* Claims and wait points.                                                 *)

\* Wait points change hands one at a time.
SpotTaken(t, list) == UNCHANGED <<spots, resting>> \/ Occupy(t, list)

LEMMA TakenSpotType ==
    ASSUME SpotsTypeOK, NEW t \in Tickets, NEW list \in SpotLists, SpotTaken(t, list)
    PROVE  SpotsTypeOK'
BY ListsAssumption DEF SpotsTypeOK, SpotTaken, Occupy

\* What a claim may return: no goal, or the item looked up in the cell.
Found(t, out) ==
    /\ record[t + 1] # <<>>
    /\ answer.kind = "Feasible"
    /\ RequestIdx(t) \in DOMAIN schedule
    /\ out.goal = schedule[RequestIdx(t)]
    /\ out.answered = answer.solve
    /\ out.metadata = latest

LEMMA ClaimEffect ==
    ASSUME Inv, NEW t \in Tickets, NEW list \in SpotLists, ClaimRequest(t, list)
    PROVE  /\ t < latest
           /\ SpotTaken(t, list)
           /\ UNCHANGED <<cellVars, record, claims, mapping, reported, schedule>>
           /\ \E out : /\ Return(t, out)
                       /\ out.kind # "malformed"
                       /\ out.goal = NoItem \/ Found(t, out)
<1>1. t < latest /\ ClaimBody(t, list) /\ UNCHANGED <<cellVars, record, claims, mapping, reported, schedule>>
  BY DEF ClaimRequest
<1>2. t \in DOMAIN Metadata
  <2>1. latest \in 1..latest /\ t \in 0..(latest - 1)
    BY <1>1, Types, SolvesAssumption DEF Inv, Tickets
  <2> QED
    BY <2>1 DEF Metadata, Inv, FlexibleTypeOK
<1>3. ASSUME NEW out, ClaimSpot(t, list, out)
      PROVE  SpotTaken(t, list) /\ (Return(t, out) \/ Return(t, NoGoal("no_spot")))
  BY <1>3 DEF ClaimSpot, SpotTaken
<1>4. \A k : NoGoal(k).kind = k /\ NoGoal(k).goal = NoItem
  BY DEF NoGoal
<1>5. CASE ClaimSpot(t, list, NoGoal("wait"))
  BY <1>1, <1>3, <1>4, <1>5
<1>6. CASE /\ record[t + 1] # <<>>
           /\ answer.kind = "Feasible"
           /\ RequestIdx(t) \in DOMAIN schedule
           /\ \/ ClaimSpot(t, list, Outcome("wait_then_go", schedule[RequestIdx(t)]))
              \/ Return(t, Outcome("go", schedule[RequestIdx(t)])) /\ UNCHANGED <<spots, resting>>
  <2>1. \A k : Outcome(k, schedule[RequestIdx(t)]).kind = k /\ Found(t, Outcome(k, schedule[RequestIdx(t)]))
    BY <1>6 DEF Outcome, Found
  <2> QED
    BY <1>1, <1>3, <1>4, <1>6, <2>1 DEF SpotTaken
<1>7. CASE Return(t, NoGoal("internal")) /\ UNCHANGED <<spots, resting>>
  BY <1>1, <1>4, <1>7 DEF SpotTaken
<1> QED
  BY <1>1, <1>2, <1>5, <1>6, <1>7 DEF ClaimBody

\* A goal is looked up in the schedule in the cell, by the newest mapping.
LEMMA ClaimKeepsInv ==
    ASSUME Inv, NEW t \in Tickets, NEW list \in SpotLists, ClaimRequest(t, list)
    PROVE  Inv'
<1> USE DEF Inv
<1>1. /\ t < latest /\ SpotTaken(t, list)
      /\ UNCHANGED <<latest, live, answer, record, claims, mapping, reported, schedule>>
  BY ClaimEffect DEF cellVars
<1>2. PICK out : Return(t, out) /\ out.kind # "malformed" /\ (out.goal = NoItem \/ Found(t, out))
  BY ClaimEffect
<1>3. /\ outcome'[t] = out
      /\ \A u \in Tickets : u # t => outcome'[u] = outcome[u]
      /\ outcome' = [u \in Tickets |-> outcome'[u]]
  BY <1>2 DEF Return
<1>4. FlexibleTypeOK'
  <2>1. SpotsTypeOK'
    BY <1>1, TakenSpotType DEF FlexibleTypeOK
  <2> QED
    BY <1>1, <2>1 DEF FlexibleTypeOK, CellTypeOK
<1>5. \A u \in Tickets : u # t => HasGoal(u)' = HasGoal(u)
  BY <1>3 DEF HasGoal
<1>6. HasGoal(t)' => Found(t, out)
  BY <1>2, <1>3 DEF HasGoal
<1>7. /\ t \in 0..(latest - 1) /\ latest \in 1..latest
      /\ RequestIdx(t) = mapping[latest][t]
  BY <1>1, Types, SolvesAssumption DEF Tickets, RequestIdx, Metadata
<1>8. HasGoal(t)' => out.goal.idx = RequestIdx(t)
  BY <1>6 DEF Found, FlexibleTypeOK
<1>9. Answered' /\ NoneBareBelow'
  BY <1>1, <1>3, <1>5, <1>6 DEF Answered, NoneBareBelow, Found
<1>10. Lookups'
  BY <1>1, <1>3, <1>5, <1>6, <1>7, <1>8 DEF Lookups, Found
<1>11. GoalsInCell'
  BY <1>1, <1>3, <1>5, <1>6, <1>8 DEF GoalsInCell, Found
<1>12. MetadataNeverMalformed'
  BY <1>2, <1>3 DEF MetadataNeverMalformed
<1>13. ASSUME NEW u \in Tickets, u # t, HasGoal(u), HasGoal(t)',
              outcome[u].answered = out.answered, outcome[u].metadata = out.metadata
       PROVE  <<out.goal.resource, out.goal.slot>> # <<outcome[u].goal.resource, outcome[u].goal.slot>>
  <2>1. Found(t, out)
    BY <1>6, <1>13
  <2>2. outcome[u].goal.idx = mapping[latest][u] /\ u \in 0..(latest - 1)
    BY <1>13, <2>1, Types, SolvesAssumption DEF Lookups, Found, Tickets
  <2>3. outcome[u].goal = schedule[outcome[u].goal.idx] /\ outcome[u].goal.idx \in DOMAIN schedule
    BY <1>13, <2>1 DEF GoalsInCell, Found
  <2>4. RequestIdx(t) # outcome[u].goal.idx
    BY <1>7, <1>13, <2>2 DEF MappingsOneToOne
  <2> QED
    BY <2>1, <2>3, <2>4 DEF Found, Consistent
<1>14. OneScheduleNoCollision'
  BY <1>3, <1>5, <1>13 DEF OneScheduleNoCollision
<1> QED
  BY <1>1, <1>3, <1>4, <1>9, <1>10, <1>11, <1>12, <1>14 DEF Consistent, MappingsOneToOne

LEMMA StepInv == ASSUME Inv, [FlexibleNext]_vars PROVE Inv'
<1>1. ASSUME NEW alternatives \in Requests, RequestResources(alternatives) PROVE Inv'
  BY <1>1, RequestKeepsInv
<1>2. ASSUME NEW s \in Solves, ReportSchedule(s) \/ ReportUnSolveable(s) PROVE Inv'
  BY <1>2, ScheduleKeepsInv, UnSolveableKeepsInv
<1>3. ASSUME NEW t \in Tickets, NEW list \in SpotLists, ClaimRequest(t, list) PROVE Inv'
  BY <1>3, ClaimKeepsInv
<1>4. ASSUME SpotsTypeOK',
             UNCHANGED <<cellVars, record, claims, mapping, reported, schedule, outcome>>
      PROVE  Inv'
  BY <1>4 DEF Inv, cellVars, FlexibleTypeOK, CellTypeOK, Consistent, Answered, Lookups, GoalsInCell, HasGoal,
     MappingsOneToOne, MetadataNeverMalformed, NoneBareBelow, OneScheduleNoCollision
<1>5. ASSUME NEW t \in Tickets, NEW list \in SpotLists, RequestWaitpoint(t, list) PROVE Inv'
  <2>1. SpotTaken(t, list)
    BY <1>5 DEF RequestWaitpoint, SpotTaken
  <2>2. SpotsTypeOK'
    BY <2>1, TakenSpotType DEF Inv, FlexibleTypeOK
  <2> QED
    BY <1>4, <1>5, <2>2 DEF RequestWaitpoint
<1>6. ASSUME NEW t \in Tickets, NEW p \in Points, ReleaseWaitpoint(t, p) PROVE Inv'
  <2>1. SpotsTypeOK'
    BY <1>6 DEF ReleaseWaitpoint, Vacate, Inv, FlexibleTypeOK, SpotsTypeOK
  <2> QED
    BY <1>4, <1>6, <2>1 DEF ReleaseWaitpoint
<1>7. CASE Now
  <2>1. SpotsTypeOK'
    BY <1>7 DEF Now, ClockMoves, Inv, FlexibleTypeOK, SpotsTypeOK
  <2> QED
    BY <1>4, <1>7, <2>1 DEF Now
<1>8. CASE UNCHANGED vars
  BY <1>4, <1>8 DEF vars, Inv, FlexibleTypeOK, SpotsTypeOK
<1> QED
  BY <1>1, <1>2, <1>3, <1>5, <1>6, <1>7, <1>8 DEF FlexibleNext

\* The inductive invariant.
THEOREM FlexibleInvariant == FlexibleSpec => []Inv
BY InitInv, StepInv, PTL DEF FlexibleSpec

\* Tickets, mappings and the schedule in the cell keep their types.
THEOREM FlexibleTypeCorrect == FlexibleSpec => []FlexibleTypeOK
<1>1. Inv => FlexibleTypeOK
  BY DEF Inv
<1> QED
  BY <1>1, FlexibleInvariant, PTL

\* claim_request never reaches the panic about malformed metadata.
THEOREM NeverMalformed == FlexibleSpec => []MetadataNeverMalformed
<1>1. Inv => MetadataNeverMalformed
  BY DEF Inv
<1> QED
  BY <1>1, FlexibleInvariant, PTL

\* Goals of one schedule, looked up with one mapping, never collide.
THEOREM NoCollision == FlexibleSpec => []OneScheduleNoCollision
<1>1. Inv => OneScheduleNoCollision
  BY DEF Inv
<1> QED
  BY <1>1, FlexibleInvariant, PTL

\* Once a ticket without alternatives is filed, no goal comes from a snapshot
\* taken then or later, whoever claims.
THEOREM BareTicketStopsAll == FlexibleSpec => []NoGoalPastBareTicket
<1>1. ASSUME Inv PROVE NoGoalPastBareTicket
  <2> SUFFICES ASSUME NEW t \in Tickets, NEW u \in Tickets, HasGoal(t), record[u + 1] = <<>>
               PROVE  outcome[t].answered <= u
    BY DEF NoGoalPastBareTicket
  <2>1. outcome[t].answered \in 1..latest /\ latest \in Nat /\ u \in Nat
    BY <1>1, Types DEF Inv, Answered, FlexibleTypeOK, Tickets
  <2>2. u \notin 0..(outcome[t].answered - 1)
    BY <1>1 DEF Inv, NoneBareBelow
  <2> QED
    BY <2>1, <2>2
<1> QED
  BY <1>1, FlexibleInvariant, PTL

\* Claiming again changes the goal only after a new answer or a new request.
THEOREM ClaimAgainSameGoal == FlexibleSpec => RepeatedClaimAgrees
<1> DEFINE Agrees(t) ==
        /\ HasGoal(t) /\ HasGoal(t)'
        /\ outcome'[t].answered = outcome[t].answered
        /\ outcome'[t].metadata = outcome[t].metadata
        => outcome'[t].goal = outcome[t].goal
<1>1. ASSUME Inv, NEW u \in Tickets, NEW list \in SpotLists, ClaimRequest(u, list), NEW t \in Tickets
      PROVE  Agrees(t)
  <2>1. PICK out : Return(u, out) /\ (out.goal = NoItem \/ Found(u, out))
    BY <1>1, ClaimEffect
  <2>2. outcome'[u] = out /\ (t # u => outcome'[t] = outcome[t])
    BY <1>1, <2>1 DEF Return, Inv
  <2>3. ASSUME t = u, HasGoal(t), HasGoal(t)',
               outcome'[t].answered = outcome[t].answered,
               outcome'[t].metadata = outcome[t].metadata
        PROVE  outcome'[t].goal = outcome[t].goal
    <3>1. Found(t, out) /\ out = outcome'[t]
      BY <2>1, <2>2, <2>3 DEF HasGoal
    <3>2. outcome[t].answered = answer.solve /\ outcome[t].metadata = latest
      BY <2>3, <3>1 DEF Found
    <3>3. outcome[t].goal = schedule[outcome[t].goal.idx] /\ outcome[t].goal.idx = mapping[latest][t]
      BY <1>1, <2>3, <3>2 DEF Inv, GoalsInCell, Lookups
    <3> QED
      BY <3>1, <3>3 DEF Found, RequestIdx, Metadata
  <2> QED
    BY <2>2, <2>3
<1>2. ASSUME NEW t \in Tickets, UNCHANGED outcome PROVE Agrees(t)
  BY <1>2
<1>3. ASSUME Inv, [FlexibleNext]_vars, NEW t \in Tickets PROVE Agrees(t)
  BY <1>1, <1>2, <1>3 DEF FlexibleNext, RequestResources, ReportSchedule, ReportUnSolveable,
     RequestWaitpoint, ReleaseWaitpoint, Now, vars
<1>4. Inv /\ [FlexibleNext]_vars => [\A t \in Tickets : Agrees(t)]_vars
  BY <1>3
<1> QED
  BY <1>4, FlexibleInvariant, PTL DEF FlexibleSpec, RepeatedClaimAgrees
=============================================================================
