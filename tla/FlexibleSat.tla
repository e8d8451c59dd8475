------------------------------ MODULE FlexibleSat ------------------------------
(***************************************************************************)
(* SATFlexibleTimeModel::feasibility_analysis of                           *)
(* src/algorithms/sat_flexible_time_model.rs.  Every round asks the SAT    *)
(* solver for a choice of alternatives and an order on each resource, then *)
(* walks the order and gives everybody a start time.  Where somebody would *)
(* start too late the walk learns a clause, and the next round begins.     *)
(*                                                                         *)
(* varisat, the SAT solver, is external: it returns any model there is.    *)
(***************************************************************************)
EXTENDS Naturals, FiniteSets

CONSTANTS
    Problems,   \* the problems to solve: per request, its alternatives
    Resources,
    Now,        \* clock_source.now()
    None,       \* a start, or a duration, that is not given
    MaxTime     \* schedules that the properties compare with start by then

\* The alternatives of a problem are named by request and position.
SlotsOf(p) == UNION {{<<r, a>> : a \in DOMAIN p[r]} : r \in DOMAIN p}

\* There are finitely many; durations are positive, start ranges not empty.
ASSUME FlexibleSatAssumption ==
    /\ Now \in Nat
    /\ None \notin Nat
    /\ MaxTime \in Nat
    /\ \A p \in Problems : IsFiniteSet(SlotsOf(p))
    /\ \A p \in Problems : \A r \in DOMAIN p : \A a \in DOMAIN p[r] :
          /\ p[r][a] \in [resource : Resources,
                          earliest : Nat \cup {None},
                          latest : Nat \cup {None},
                          duration : (Nat \ {0}) \cup {None}]
          /\ p[r][a].earliest # None /\ p[r][a].latest # None
             => p[r][a].earliest <= p[r][a].latest

Times == 0..MaxTime

VARIABLES
    problem,
    clauses,                \* learned: sets of alternatives not to choose all of
    pc,                     \* "solve" or "walk", then how the search ended
    chosen, before,         \* the model of this round: x_ij and X_ijkm
    todo,                   \* resources this round has not walked yet
    left,                   \* alternatives on the current one still to walk
    last_reservation_end,
    since_gap,              \* sched[last_gap..i]: walked since the last gap
    learned_clauses,
    final_schedule          \* who starts when

modelVars == <<chosen, before>>
walkVars == <<todo, left, last_reservation_end, since_gap, learned_clauses, final_schedule>>
vars == <<problem, clauses, pc, modelVars, walkVars>>

Slots == SlotsOf(problem)
Alt(x) == problem[x[1]][x[2]]
On(S, res) == {x \in S : Alt(x).resource = res}

\* Mutant of can_be_scheduled_after: x starts as late as it can.
CanBeScheduledAfterLatest(x, y) ==
    /\ Alt(x).duration # None
    /\ \/ Alt(y).latest = None
       \/ Alt(x).latest = None
       \/ Alt(x).latest + Alt(x).duration < Alt(y).latest

\* can_be_scheduled_after(x, y): y can follow x, which must end and, starting
\* as early as it can, do so before y has to start.
can_be_scheduled_after(x, y) ==
    /\ Alt(x).duration # None
    /\ \/ Alt(y).latest = None
       \/ Alt(x).earliest = None
       \/ Alt(x).earliest + Alt(x).duration < Alt(y).latest

\* The order variables: pairs of alternatives of one resource, without those
\* that the start ranges rule out.
OrderVars ==
    {e \in Slots \X Slots :
        /\ e[1] # e[2]
        /\ Alt(e[1]).resource = Alt(e[2]).resource
        /\ can_be_scheduled_after(e[1], e[2])}

\* Mutant of Orders: the transitivity clauses are left out.
OrdersAnyhow == SUBSET OrderVars

\* The orders are transitive.
Orders ==
    {o \in SUBSET OrderVars :
        \A e, f \in o : e[2] = f[1] /\ e[1] # f[2] => <<e[1], f[2]>> \in o}

\* S has one alternative of each request.
OneOfEach(S) ==
    \A r \in DOMAIN problem : \E a \in DOMAIN problem[r] :
        \A b \in DOMAIN problem[r] : <<r, b>> \in S <=> b = a

\* One alternative of each request, none of the learned sets in full, and an
\* order that is total on what is chosen.
Choices ==
    {S \in SUBSET Slots :
        /\ OneOfEach(S)
        /\ \A clause \in clauses : ~(clause \subseteq S)}
TotalOn(o, S) ==
    \A x, y \in S : x # y /\ Alt(x).resource = Alt(y).resource
                    => (<<x, y>> \in o <=> <<y, x>> \notin o)

Init ==
    /\ problem \in Problems
    /\ clauses = {}
    /\ pc = "solve"
    /\ chosen = {} /\ before = {}
    /\ todo = {} /\ left = {}
    /\ last_reservation_end = Now
    /\ since_gap = {}
    /\ learned_clauses = {}
    /\ final_schedule = {}

\* Mutant of Solve: the schedule of the last round is not cleared.
SolveOnOldSchedule ==
    /\ pc = "solve"
    /\ chosen' \in Choices
    /\ before' \in Orders
    /\ TotalOn(before', chosen')
    /\ before' \subseteq chosen' \X chosen'
    /\ pc' = "walk"
    /\ todo' = {Alt(x).resource : x \in chosen'}
    /\ left' = {}
    /\ last_reservation_end' = Now
    /\ since_gap' = {}
    /\ learned_clauses' = {}
    /\ UNCHANGED <<problem, clauses, final_schedule>>

\* A model: what is chosen and how it is ordered go into the dependency graph.
Solve ==
    /\ pc = "solve"
    /\ chosen' \in Choices
    /\ before' \in Orders
    /\ TotalOn(before', chosen')
    /\ before' \subseteq chosen' \X chosen'
    /\ pc' = "walk"
    /\ todo' = {Alt(x).resource : x \in chosen'}
    /\ left' = {}
    /\ last_reservation_end' = Now
    /\ since_gap' = {}
    /\ learned_clauses' = {}
    /\ final_schedule' = {}
    /\ UNCHANGED <<problem, clauses>>

\* A model may also set an order variable of an alternative it does not
\* choose: that edge has no node, and the lookup in node_map panics.
PanicOnEdge ==
    /\ pc = "solve"
    /\ \E S \in Choices, o \in Orders : TotalOn(o, S) /\ ~(o \subseteq S \X S)
    /\ pc' = "panicked"
    /\ UNCHANGED <<problem, clauses, modelVars, walkVars>>

NoModel ==
    /\ pc = "solve"
    /\ ~\E S \in Choices, o \in Orders : TotalOn(o, S)
    /\ pc' = "NoSolution"
    /\ UNCHANGED <<problem, clauses, modelVars, walkVars>>

\* The stop flag is looked at between rounds.
Stop ==
    /\ pc = "solve"
    /\ pc' = "TimedOut"
    /\ UNCHANGED <<problem, clauses, modelVars, walkVars>>

\* The walk takes up a resource.
WalkResource(res) ==
    /\ pc = "walk"
    /\ left = {}
    /\ res \in todo
    /\ todo' = todo \ {res}
    /\ left' = On(chosen, res)
    /\ last_reservation_end' = Now
    /\ since_gap' = {}
    /\ UNCHANGED <<problem, clauses, pc, modelVars, learned_clauses, final_schedule>>

\* x is the next one in the topological order of the current resource.
IsNext(x) ==
    /\ pc = "walk"
    /\ x \in left
    /\ \A y \in left \ {x} : <<x, y>> \in before

\* Somebody waits for the end of the last reservation until it is too late.
TooLate(x) ==
    /\ Alt(x).latest # None
    /\ \/ Alt(x).duration = None /\ last_reservation_end > Alt(x).latest
       \/ Alt(x).duration # None /\ last_reservation_end >= Alt(x).latest

Starts(x, time) == final_schedule' = final_schedule \cup {[id |-> x, start |-> time]}

\* The last one on a resource may stay for ever; it gets no entry.
StayForEver(x) ==
    /\ IsNext(x)
    /\ Alt(x).duration = None
    /\ left = {x}
    /\ learned_clauses' = learned_clauses \cup (IF TooLate(x) THEN {since_gap} ELSE {})
    /\ left' = {}
    /\ since_gap' = since_gap \cup {x}
    /\ UNCHANGED <<problem, clauses, pc, modelVars, todo, last_reservation_end, final_schedule>>

\* Nothing is done for a reservation without an earliest start.
SkipUndated(x) ==
    /\ IsNext(x)
    /\ Alt(x).duration # None
    /\ Alt(x).earliest = None
    /\ left' = left \ {x}
    /\ since_gap' = since_gap \cup {x}
    /\ UNCHANGED <<problem, clauses, pc, modelVars, todo, last_reservation_end, learned_clauses, final_schedule>>

\* The resource is free by the earliest start: there may be a gap before it.
StartEarliest(x) ==
    /\ IsNext(x)
    /\ Alt(x).duration # None
    /\ Alt(x).earliest # None
    /\ Alt(x).earliest >= last_reservation_end
    /\ Starts(x, Alt(x).earliest)
    /\ last_reservation_end' = Alt(x).earliest + Alt(x).duration
    /\ left' = left \ {x}
    /\ since_gap' = {x}
    /\ UNCHANGED <<problem, clauses, pc, modelVars, todo, learned_clauses>>

\* Mutant of StartAfterLast: the resource is taken to be free as before.
StartAfterLastTwice(x) ==
    /\ IsNext(x)
    /\ Alt(x).duration # None
    /\ Alt(x).earliest # None
    /\ Alt(x).earliest < last_reservation_end
    /\ ~TooLate(x)
    /\ Starts(x, last_reservation_end)
    /\ left' = left \ {x}
    /\ since_gap' = since_gap \cup {x}
    /\ UNCHANGED <<problem, clauses, pc, modelVars, todo, last_reservation_end, learned_clauses>>

\* It is not, but it will be in time.
StartAfterLast(x) ==
    /\ IsNext(x)
    /\ Alt(x).duration # None
    /\ Alt(x).earliest # None
    /\ Alt(x).earliest < last_reservation_end
    /\ ~TooLate(x)
    /\ Starts(x, last_reservation_end)
    /\ last_reservation_end' = last_reservation_end + Alt(x).duration
    /\ left' = left \ {x}
    /\ since_gap' = since_gap \cup {x}
    /\ UNCHANGED <<problem, clauses, pc, modelVars, todo, learned_clauses>>

\* It is not: whoever came since the last gap must not be chosen together
\* again.  The one that is late is not part of the clause.
LearnTooLate(x) ==
    /\ IsNext(x)
    /\ Alt(x).duration # None
    /\ Alt(x).earliest # None
    /\ Alt(x).earliest < last_reservation_end
    /\ TooLate(x)
    /\ learned_clauses' = learned_clauses \cup {since_gap}
    /\ left' = left \ {x}
    /\ since_gap' = since_gap \cup {x}
    /\ UNCHANGED <<problem, clauses, pc, modelVars, todo, last_reservation_end, final_schedule>>

\* Mutant of EndRound: the solver does not get the learned clauses.
EndRoundForgetting ==
    /\ pc = "walk"
    /\ todo = {} /\ left = {}
    /\ pc' = IF learned_clauses = {} THEN "Feasible" ELSE "solve"
    /\ UNCHANGED <<problem, clauses, modelVars, walkVars>>

\* All resources are walked: without a learned clause the schedule is returned.
EndRound ==
    /\ pc = "walk"
    /\ todo = {} /\ left = {}
    /\ clauses' = clauses \cup learned_clauses
    /\ pc' = IF learned_clauses = {} THEN "Feasible" ELSE "solve"
    /\ UNCHANGED <<problem, modelVars, walkVars>>

Walk ==
    \/ \E res \in Resources : WalkResource(res)
    \/ \E x \in Slots :
          \/ StayForEver(x) \/ SkipUndated(x)
          \/ StartEarliest(x) \/ StartAfterLast(x) \/ LearnTooLate(x)
    \/ EndRound

Search == Solve \/ PanicOnEdge \/ NoModel \/ Walk
Next == Search \/ Stop

Spec == Init /\ [][Next]_vars

\* The solver's thread runs; nobody need ever ask it to stop.
FairSpec == Spec /\ WF_vars(Search)
-----------------------------------------------------------------------------
(* Properties.                                                             *)

FlexibleSatTypeOK ==
    /\ problem \in Problems
    /\ clauses \subseteq SUBSET Slots
    /\ pc \in {"solve", "walk", "Feasible", "NoSolution", "TimedOut", "panicked"}
    /\ chosen \subseteq Slots
    /\ before \subseteq Slots \X Slots
    /\ todo \subseteq Resources
    /\ left \subseteq chosen
    /\ last_reservation_end \in Nat
    /\ since_gap \subseteq chosen
    /\ learned_clauses \subseteq SUBSET chosen
    /\ final_schedule \subseteq [id : chosen, start : Nat]

\* start lies in the window of x and is not in the past.
InWindow(x, start) ==
    /\ start >= Now
    /\ Alt(x).earliest # None => Alt(x).earliest <= start
    /\ Alt(x).latest # None => start <= Alt(x).latest

\* Two entries of one resource: one ends before the other starts.
Apart(e, f) ==
    Alt(e.id).resource = Alt(f.id).resource =>
        \/ e.start + Alt(e.id).duration <= f.start
        \/ f.start + Alt(f.id).duration <= e.start

\* x may stay for ever: whatever is scheduled on its resource ends in time.
Endless(x) == Alt(x).duration = None
StaysInTime(x) ==
    Alt(x).latest # None =>
        \A e \in final_schedule :
            Alt(e.id).resource = Alt(x).resource
            => e.start + Alt(e.id).duration <= Alt(x).latest

\* Entries start in their windows, share no resource and are of different
\* requests.  A request without an entry can be given a place to stay for ever,
\* at most one on a resource and after all entries there, or has an alternative
\* that ends but gives no earliest start.
Served ==
    /\ \A e \in final_schedule : ~Endless(e.id) /\ InWindow(e.id, e.start)
    /\ \A e, f \in final_schedule : e # f => e.id[1] # f.id[1] /\ Apart(e, f)
    /\ \E stay \in SUBSET {x \in Slots : Endless(x) /\ StaysInTime(x)} :
          /\ \A x, y \in stay : x # y => Alt(x).resource # Alt(y).resource
          /\ \A r \in DOMAIN problem :
                \/ \E e \in final_schedule : e.id[1] = r
                \/ \E x \in stay : x[1] = r
                \/ \E x \in Slots : x[1] = r /\ ~Endless(x) /\ Alt(x).earliest = None

\* What a returned schedule is worth, read from the schedule alone.  Of a
\* request with an alternative that gives no earliest start nothing more can be
\* said: that one may be what the model chose, and then there is no start for
\* it and nothing keeps its resource free.  "A solved problem will satisfy at
\* least one alternative within a request", the current time being the start
\* where none is given, is true of the other requests only.
FeasibleServes == pc = "Feasible" => Served

\* The order the solver hands out never makes the walk panic: there is always
\* a next one (the graph has no cycle), and one that stays for ever is last.
WalkNeverPanics ==
    pc = "walk" /\ left # {} =>
        \E x \in left : IsNext(x) /\ (Alt(x).duration = None => left = {x})

\* Every start of a schedule in which nobody starts at the last moment.
Slack(S, start) ==
    /\ OneOfEach(S)
    /\ \A x \in S :
          /\ InWindow(x, start[x])
          /\ Alt(x).latest # None => start[x] < Alt(x).latest
    /\ \A x, y \in S : x # y /\ Alt(x).resource = Alt(y).resource =>
          \/ Alt(x).duration # None /\ start[x] + Alt(x).duration <= start[y]
          \/ Alt(y).duration # None /\ start[y] + Alt(y).duration <= start[x]

\* The start ranges rule out no more than they must: when the formula has no
\* model before anything was learned, there is no schedule, unless somebody
\* starts at the very last moment.
RuledOutIsImpossible ==
    pc = "NoSolution" /\ clauses = {} =>
        \A S \in SUBSET Slots : \A start \in [S -> Times] : ~Slack(S, start)

\* The search ends: every clause excludes the choice it was learned from.
Terminates == <>(pc \notin {"solve", "walk"})

\* "Given a problem we see if there is a way to schedule the solution": when
\* there is one, the problem is not reported to have none.
NoSolutionMeansNone ==
    pc = "NoSolution" =>
        \A S \in SUBSET Slots : \A start \in [S -> Times] : ~Slack(S, start)
=============================================================================
