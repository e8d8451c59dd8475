------------------------- MODULE FlexibleReservations -------------------------
(***************************************************************************)
(* FlexibleTimeReservationSystem of src/database/mod.rs: tickets, the      *)
(* snapshot each request takes, the claims, over the cell its executor     *)
(* promises (SolutionCell, which AsyncExecutor implements) and the wait    *)
(* points its WaitPointSystem promises (SafeSpots, which WaitPoints        *)
(* implements).                                                            *)
(*                                                                         *)
(* Every request takes one ticket and one snapshot, so ticket t exists     *)
(* from solve t + 1 on.  A time is a slot: two assignments of a resource   *)
(* never share one.                                                        *)
(***************************************************************************)
EXTENDS SolutionCell, Sequences, FiniteSets

CONSTANTS
    Requests,       \* the lists of alternatives clients ask for
    MaxAlternatives,\* the longest of them
    Slots,          \* the start times the solver can choose from
    Points,         \* wait points
    SpotLists,      \* the safe_spot lists clients pass
    MaxCalls        \* bound on the claims and requests for wait points

\* Lists name wait points only.
ASSUME ListsAssumption == SpotLists \subseteq Seq(Points)

Tickets == 0..(MaxSolves - 1)

VARIABLES
    record,     \* the alternatives of ticket t are record[t + 1]
    claims,     \* tickets whose claim has been recorded
    mapping,    \* per snapshot: the ticket at each index of its problem
    reported,   \* solves whose one answer is out
    schedule,   \* the schedule in the cell: index of the problem -> item
    spots,      \* wait points held for each ticket
    resting,    \* wait points released since the clock last moved
    outcome,    \* what the last claim of each ticket returned
    calls       \* claims and requests for wait points made

vars == <<cellVars, record, claims, mapping, reported, schedule, spots, resting, outcome, calls>>

INSTANCE SafeSpots WITH Robots <- Tickets, Lists <- SpotLists

\* ReservationRequestAlternative, as far as a claim can tell: its resource and
\* whether the solver puts it into the schedule it returns.  An alternative
\* without duration or without earliest start is chosen but left out.
Alternative(r, p) == [resource |-> r, placed |-> p]

\* Assignment, and the Goal made of it: index and alternative of the problem,
\* the resource and the start.
Item(i, a, r, s) == [idx |-> i, alt |-> a, resource |-> r, slot |-> s]
NoItem == [idx |-> 0, alt |-> 0, resource |-> "none"]

\* What claim_request returned; with a goal, for the record, the solve whose
\* schedule and the snapshot whose metadata it came from.
NoGoal(k) == [kind |-> k, goal |-> NoItem, answered |-> 0, metadata |-> 0]
Outcome(k, item) == [kind |-> k, goal |-> item, answered |-> answer.solve, metadata |-> latest]

FlexibleInit ==
    /\ CellInit
    /\ SpotsInit
    /\ record = <<>>
    /\ claims = {}
    /\ mapping = [s \in Solves |-> <<>>]
    /\ reported = {}
    /\ schedule = <<>>
    /\ outcome = [t \in Tickets |-> NoGoal("unclaimed")]
    /\ calls = 0
-----------------------------------------------------------------------------
\* Mutant of Orders: a ticket is filed under the number of requests pushed,
\* itself included.
OrdersFromOne(n) == {o \in [1..n -> 0..(n - 1)] : \A i, j \in 1..n : o[i] = o[j] => i = j}

\* get_snapshot walks a HashMap: the tickets come in any order.
Orders(n) ==
    {o \in [0..(n - 1) -> 0..(n - 1)] : \A i, j \in 0..(n - 1) : o[i] = o[j] => i = j}

\* request_resources: file the alternatives, take a snapshot of all records,
\* start its solve.
RequestResources(alternatives) ==
    /\ NewSnapshot
    /\ record' = Append(record, alternatives)
    /\ \E order \in Orders(latest + 1) : mapping' = [mapping EXCEPT ![latest + 1] = order]
    /\ UNCHANGED <<claims, reported, schedule, spots, resting, outcome, calls>>

\* Mutant of Problem: tickets without alternatives are left out.
ProblemWithoutBare(s) ==
    [i \in {j \in 0..(s - 1) : record[mapping[s][j] + 1] # <<>>} |-> record[mapping[s][i] + 1]]

\* The requests of snapshot s as the solver sees them, by index.
Problem(s) == [i \in 0..(s - 1) |-> record[mapping[s][i] + 1]]

\* Mutant of Consistent: alternatives of one resource may start together.
ConsistentAnyhow(f) == TRUE

\* No two items on one resource at one time.
Consistent(f) ==
    \A i, j \in DOMAIN f : i # j /\ f[i].resource = f[j].resource => f[i].slot # f[j].slot

\* One alternative per request.  A request without any puts the empty clause
\* into the formula, and there is no choice then.
Choices(problem) ==
    {c \in [DOMAIN problem -> 1..MaxAlternatives] :
        \A i \in DOMAIN problem : c[i] \in DOMAIN problem[i]}

\* Mutant of ReportSchedule: a solve goes on reporting schedules.
ReportScheduleAgain(s) ==
    LET problem == Problem(s) IN
    /\ s \in live
    /\ \E choice \in Choices(problem), start \in [0..(s - 1) -> Slots] :
          LET f == [i \in DOMAIN problem |->
                       Item(i, choice[i], problem[i][choice[i]].resource, start[i])]
          IN  /\ Consistent(f)
              /\ schedule' = [i \in {j \in DOMAIN f : problem[j][choice[j]].placed} |-> f[i]]
    /\ answer' = [kind |-> "Feasible", solve |-> s]
    /\ reported' = reported \cup {s}
    /\ UNCHANGED <<latest, live, record, claims, mapping, spots, resting, outcome, calls>>

\* A live solve reports a schedule, once.  (That a solve ends is not modelled
\* here: no claim can tell an ended solve from one that keeps silent.)
ReportSchedule(s) ==
    LET problem == Problem(s) IN
    /\ s \in live \ reported
    /\ \E choice \in Choices(problem), start \in [0..(s - 1) -> Slots] :
          LET f == [i \in DOMAIN problem |->
                       Item(i, choice[i], problem[i][choice[i]].resource, start[i])]
          IN  /\ Consistent(f)
              /\ schedule' = [i \in {j \in DOMAIN f : problem[j][choice[j]].placed} |-> f[i]]
    /\ answer' = [kind |-> "Feasible", solve |-> s]
    /\ reported' = reported \cup {s}
    /\ UNCHANGED <<latest, live, record, claims, mapping, spots, resting, outcome, calls>>

\* A live solve reports that there is none: none exists, the learned clauses
\* ruled it out, or the solve was told to stop.
ReportUnSolveable(s) ==
    /\ s \in live \ reported
    /\ answer' = [kind |-> "UnSolveable", solve |-> s]
    /\ schedule' = <<>>
    /\ reported' = reported \cup {s}
    /\ UNCHANGED <<latest, live, record, claims, mapping, spots, resting, outcome, calls>>

-----------------------------------------------------------------------------
(* Claims.                                                                 *)

Return(t, out) == outcome' = [outcome EXCEPT ![t] = out]

\* request_waitpoint inside a claim: a spot, or an error.
ClaimSpot(t, list, out) ==
    \/ Occupy(t, list) /\ Return(t, out)
    \/ Refused(list) /\ Return(t, NoGoal("no_spot")) /\ UNCHANGED <<spots, resting>>

\* Mutant of Metadata: the metadata travel with the answer.
MetadataOfAnswer == mapping[answer.solve]

\* self.metadata, replaced by every attempt_solve.
Metadata == mapping[latest]

\* The index claim_request looks for: metadata.mapping.get(&ticket.get_id()).
\* The map's keys are indices and its values tickets.
RequestIdx(t) == Metadata[t]

\* The branches of claim_request after the look at `claims`.
ClaimBody(t, list) ==
    \/ \* no alternatives requested, moving to waitpoint only
       /\ record[t + 1] = <<>>
       /\ ClaimSpot(t, list, NoGoal("wait"))
    \/ \* solver has not concluded any solution yet
       /\ record[t + 1] # <<>>
       /\ answer.kind # "Feasible"
       /\ ClaimSpot(t, list, NoGoal("wait"))
    \/ /\ record[t + 1] # <<>>
       /\ answer.kind = "Feasible"
       /\ \/ \* panic!("Metadata was malformed")
             /\ t \notin DOMAIN Metadata
             /\ Return(t, NoGoal("malformed"))
             /\ UNCHANGED <<spots, resting>>
          \/ /\ t \in DOMAIN Metadata
             /\ RequestIdx(t) \in DOMAIN schedule
             /\ \/ \* more than 20 seconds away: wait, then go
                   ClaimSpot(t, list, Outcome("wait_then_go", schedule[RequestIdx(t)]))
                \/ \* go immediately
                   /\ Return(t, Outcome("go", schedule[RequestIdx(t)]))
                   /\ UNCHANGED <<spots, resting>>
          \/ \* "We should never reach here"
             /\ t \in DOMAIN Metadata
             /\ RequestIdx(t) \notin DOMAIN schedule
             /\ Return(t, NoGoal("internal"))
             /\ UNCHANGED <<spots, resting>>

\* claim_request.  Nothing ever adds to `claims`, so "Ticket already claimed"
\* is not returned and a ticket can be claimed again.
ClaimRequest(t, list) ==
    /\ t < latest
    /\ calls < MaxCalls
    /\ t \notin claims
    /\ ClaimBody(t, list)
    /\ calls' = calls + 1
    /\ UNCHANGED <<cellVars, record, claims, mapping, reported, schedule>>

\* request_waitpoint called by itself.  Its error changes nothing.
RequestWaitpoint(t, list) ==
    /\ t < latest
    /\ calls < MaxCalls
    /\ Occupy(t, list)
    /\ calls' = calls + 1
    /\ UNCHANGED <<cellVars, record, claims, mapping, reported, schedule, outcome>>

\* release_waitpoint.
ReleaseWaitpoint(t, p) ==
    /\ Vacate(t, p)
    /\ UNCHANGED <<cellVars, record, claims, mapping, reported, schedule, outcome, calls>>

\* The ClockSource shows a later time from now on.
Now ==
    /\ resting # {}
    /\ ClockMoves
    /\ UNCHANGED <<cellVars, record, claims, mapping, reported, schedule, outcome, calls>>

FlexibleNext ==
    \/ \E alternatives \in Requests : RequestResources(alternatives)
    \/ \E s \in Solves : ReportSchedule(s) \/ ReportUnSolveable(s)
    \/ \E t \in Tickets, list \in SpotLists : ClaimRequest(t, list)
    \/ \E t \in Tickets, list \in SpotLists : RequestWaitpoint(t, list)
    \/ \E t \in Tickets, p \in Points : ReleaseWaitpoint(t, p)
    \/ Now

FlexibleSpec == FlexibleInit /\ [][FlexibleNext]_vars
-----------------------------------------------------------------------------
(* Properties.                                                             *)

HasGoal(t) == outcome[t].goal # NoItem

\* The goal of t was scheduled for t: its index belongs to t in the snapshot
\* the schedule was computed from.
Serves(t) == mapping[outcome[t].answered][outcome[t].goal.idx] = t

\* t's schedule is that of the snapshot its metadata come from.
Fresh(t) == outcome[t].answered = outcome[t].metadata

FlexibleTypeOK ==
    /\ CellTypeOK
    /\ SpotsTypeOK
    /\ record \in Seq(Requests) /\ Len(record) = latest
    /\ claims \subseteq Tickets
    /\ reported \subseteq 1..latest
    /\ \A s \in 1..latest : mapping[s] \in [0..(s - 1) -> 0..(s - 1)]
    /\ \A i \in DOMAIN schedule : schedule[i].idx = i /\ schedule[i].slot \in Slots

\* The panic of claim_request ("this should never happen") is never reached:
\* every ticket issued is a key of the newest mapping, however it is ordered.
MetadataNeverMalformed ==
    \A t \in Tickets : outcome[t].kind # "malformed"

\* Two tickets that claimed out of one schedule with one mapping are not sent
\* to one resource at one time, even where the goals are not their own.
OneScheduleNoCollision ==
    \A t, u \in Tickets :
        /\ t # u /\ HasGoal(t) /\ HasGoal(u)
        /\ outcome[t].answered = outcome[u].answered
        /\ outcome[t].metadata = outcome[u].metadata
        => <<outcome[t].goal.resource, outcome[t].goal.slot>>
              # <<outcome[u].goal.resource, outcome[u].goal.slot>>

\* One ticket without alternatives ends the service for everybody: whatever
\* goal is handed out after it was filed comes from a snapshot without it,
\* however often others are requested and claimed since.
NoGoalPastBareTicket ==
    \A t, u \in Tickets :
        HasGoal(t) /\ u < latest /\ record[u + 1] = <<>> => outcome[t].answered <= u

\* Claims are not recorded, so a ticket can claim again; it is sent elsewhere
\* than before only if a new answer or a new request has come in between.
RepeatedClaimAgrees ==
    [][\A t \in Tickets :
          /\ HasGoal(t) /\ HasGoal(t)'
          /\ outcome'[t].answered = outcome[t].answered
          /\ outcome'[t].metadata = outcome[t].metadata
          => outcome'[t].goal = outcome[t].goal]_vars

\* "For a given solution this refers to the alternative.  The first index
\* refers to the request ID": with the schedule of the newest snapshot in
\* hand, a claim hands a ticket the goal that was scheduled for it.
FreshGoalServesTicket ==
    \A t \in Tickets : HasGoal(t) /\ Fresh(t) => Serves(t)
=============================================================================
