# A TLA+ model of rmf_reservation

`rmf_reservation` assigns robots to shared resources (chargers, lifts, docks) over
time. Robots ask for one of several alternatives, a pool of solvers works on a
snapshot of all requests in the background, and a robot later *claims* its ticket
and is told where to go, or where to wait. This directory models that library in
TLA+, checks the models with TLC and proves what matters most with TLAPS.

Line numbers below are those of the files under `src/`.

## 1. The system

| part | files | state | operations |
|---|---|---|---|
| fixed-time reservation system | `src/database/mod.rs` 53-130 | record, claims, next id | `request_resources`, `claim_request`, `get_snapshot` |
| flexible-time reservation system | `src/database/mod.rs` 164-384 | record, claims (never filled), next id, wait points | `request_resources`, `claim_request`, `request_waitpoint`, `release_waitpoint`, `get_snapshot` |
| asynchronous executor | `src/algorithms/mod.rs` 135-229 | current solve, shared solution cell, newest metadata | `attempt_solve`, two `retrieve_...` |
| algorithm pool | `src/algorithms/mod.rs` 33-133 | proposed solution, stop flag, channel, threads | `solve`, `stop` |
| fixed-time SAT solver | `src/algorithms/sat.rs` | bound, learned clauses | `from_hill_climber_with_optimality_proof` |
| greedy solver, conflict tracker | `src/algorithms/greedy_solver.rs` | requests and ids; priority queue of partial solutions | `request_resources`, `generate_literals_and_remap_requests`, `naive_greedy_solver` |
| flexible-time SAT model | `src/algorithms/sat_flexible_time_model.rs` | formula, learned clauses | `feasibility_analysis` (`time_optimality_solver` has no caller) |
| wait points | `src/wait_points/wait_points.rs` | per point a queue of occupations | request, release, flush |
| reservation schedule, start ranges | `src/lib.rs` | ordered map of assignments | insert, garbage-collect, conflict range |
| Kuhn-Munkres, discretization, work queue, costs | the remaining files | | in no pool, or stateless |

How they interact:

* The client's thread owns a reservation system and calls it. `request_resources`
  files the request, takes a snapshot of everything filed and calls
  `attempt_solve`: a **new pool thread** with a fresh stop flag and channel. The
  previous solve is only *asked* to stop, through its flag; it is not waited for.
* A pool thread starts **one thread per algorithm**, merges what they send and
  stores it in the **one cell** `solution` that all solves of the executor share,
  superseded ones included.
* `claim_request` reads the cell. The fixed-time system records the claim and
  pins it in later snapshots; the flexible-time system pairs the schedule with the
  mapping of the *newest* snapshot, and may take a wait point.

What is hard, therefore: a relaxed flag written by three parties (the client,
the pool, the next request); answers that are older than the newest request;
solvers that go silent or panic; messages of several solvers merged by arrival;
identifiers that depend on the order in which a `HashMap` is walked; and a pin
that only works for snapshots taken after the claim. `PROJECT.json` lists each
hazard at its line with the properties that cover it.

What makes each part correct:

* executor: a superseded solve is stopped for good and ends with all its threads;
  a solve gets a conclusion; answers stay with their solve; the cell holds what
  some live solve proposed last.
* fixed-time system: two claims never book one resource at one time; a legal
  sequence of calls never panics.
* fixed-time solvers: what the hill climb calls optimal is optimal, what the greedy
  search returns serves everybody, it gives up only where nothing does, and both end.
* flexible-time SAT model: a schedule serves each request in its window, nobody shares
  a resource, the walk never panics, the start ranges rule out no more than they must, and the
  rounds end.
* flexible-time system: a claim gets its own goal; a repeated claim gets the same one
  as long as nothing new has come in; no two claims are sent to one place at one time;
  no panic for a malformed mapping.
* wait points: one robot per point; enough points are enough.
* reservation schedule: the range of potential conflicts is what can conflict.

## 2. Modules

| module | models | state |
|---|---|---|
| `SolutionCell` | what an executor promises (abstract) | newest snapshot, live solves, contents of the cell |
| `AsyncExecutor` | executor, pool, solver threads | context, flags, pool program counters, proposals, channels, threads, bounds, cell |
| `AsyncExecutorProofs` | theorems about it | |
| `SafeSpots` | what a wait point system promises (abstract) | spots held per robot, points resting since the clock last moved |
| `WaitPoints` | the queues of occupations | clock, queues, spots |
| `WaitPointsProofs` | theorems about it | |
| `FlexibleReservations` | the flexible-time system over `SolutionCell` and `SafeSpots` | record, mappings, schedule, spots, outcomes |
| `FixedReservations` | the fixed-time system over `SolutionCell` | record, claims, ids, problems, assignment, claims granted |
| `FixedTimeSat` | the hill climb with its learned clauses | scores and conflicts of the problem, clauses, bound, best assignment, verdict |
| `FixedTimeSatProofs` | theorems about it | |
| `GreedySolver` | the greedy search, its heap and its shared vector of assignments | heap, nodes seen, node in hand, options left, assignments, outcome |
| `FixedSolvers` | both solver threads of the fixed-time pool on one problem | that of `FixedTimeSat` and `GreedySolver` |
| `FixedSolversProofs` | theorems about `GreedySolver` and `FixedSolvers` | |
| `FlexibleSat` | `feasibility_analysis`: formula, walk, learned clauses | clauses, model, place of the walk, schedule |
| `FlexibleSatProofs` | theorems about it | |
| `FlexibleReservationsProofs`, `FixedReservationsProofs` | theorems about the two reservation systems | |
| `ReservationSchedule` | the schedule of one resource and its range of potential conflicts | none: operators |
| `ReservationScheduleProofs` | theorems about it | |
| `MC...` | instances for TLC | |

The two reservation systems are composed with the **abstract** executor and wait
points. `AsyncExecutor` is shown to implement `SolutionCell`, and `WaitPoints` to
implement `SafeSpots`, by checked and proved refinement. What carries over to the
detailed parts is what the abstract ones state, and only that:

* of the executor, that the cell holds an answer of a solve that is or was live, and
  that superseded solves retire. That a flexible solve answers once, which the
  flexible-time system assumes, is `ConclusionIsFinal`; which schedules it may answer
  is taken from `feasibility_analysis`, not from `SolutionCell`;
* of the wait points, that a request gets the first point of its list that is free.
  Free means neither occupied nor `resting`, that is released since the clock last
  moved, as the code wants the last release to be strictly earlier than the request
  (`wait_points.rs` 57-61). `ImplementsSpots` covers the choice of the point and what
  each call changes; `RefusesAlike` that a request is refused by the queues exactly
  when it is by `SafeSpots`, so that the error of a claim carries over as well.

Both wait point modules take the clock to stand still within a call. The code reads it
once for each point of the list; a reading that moves on during the list can only make
a point free that was released at the first reading.

Operators named as the mutant of another one ("Mutant of ...") are not part of a
specification: each is a plausible bug in the definition it follows, kept to show
that the property it breaks can be broken.

### AsyncExecutor

One action per step that another thread can see. The pool's loop is the program
counter `pool[s]`: `receive` (`PoolReceive` merges a message, `PoolTimeout` is a
500 ms silence with the flag up), `publish` (writes the cell), `decide` (raises the
flag on a conclusion), `join`. Each solver thread is at `check` (it loads the
flag), in `search`, or `done`; `climb` is what a hill climb must beat and how many
candidates it may still visit. An answer is its variant, the solve it is about and
its cost. `running` keeps its name from the code although TRUE asks to stop.
`Retrieve` is both retrieve functions: each stores false in the newest flag.
`PoolTimeout` merges the timeout with the load of the flag that follows it: a message or
a store that comes between the two is taken to come before or after both.

Left out: the data of assignments, logging, lock poisoning (a lock is held only
around a clone), the failure of a thread to start. The `Disconnected` branch of
`solve` is dead, since it keeps the original sender alive, and is not an action.
Threads that panic are modelled where the solver can panic after it started
(`FlexiblePanics`).

### WaitPoints

`RequestWaitpoint`, `ReleaseWaitpoint` and `FlushUntil` are the three methods,
with the time of the call. `spots` is what the robots know: granted and not
released. Robots release only a point they hold: the code keeps no owner, and the
consequence of a late or repeated release is listed as a hazard that has no run
yet. `uuid_map` is written and never read, so it is left out. The reservation
system never calls `flush_until`; it is public, so it is an action. Calls come with a
time that does not go back; `Utc::now` and the methods that take a time do not force
that.

### FlexibleReservations

`RequestResources` appends to the record, picks any order for the walk of the
`HashMap` and starts a solve. `ReportSchedule` and `ReportUnSolveable` are the
writes of any live solve to the cell; each solve reports once, as
`ConclusionIsFinal` shows. A schedule picks one alternative per request and gives
the placed ones starts that do not clash. `ClaimRequest` is the whole handler: its
branches are the empty record, no feasible answer, the panic for a malformed
mapping, the two ways to return a goal, and "We should never reach here". A claim
that does not find a free point still returns an error and no goal. The wait points are
those of `SafeSpots`, and `Now` is the clock moving on between calls, after which the
points given back are free.

### FixedReservations

`RequestResources` checks the start ranges, files the request and takes the
snapshot: pinned claims, unknown resources skipped, ids in the order of the walk.
A claim out of bounds or an alternative without a time panics after the request
was filed; the model then stops calling the system. `ReportAssignment` may happen
any number of times per solve, since a hill climb improves on itself, and its
assignments never overlap (`Overlap` is what `conflict_sets` holds: two closed
intervals that share an instant). `ClaimRequest` looks the ticket up by id and
records the claim over an earlier one.

### FixedTimeSat

The loop of `from_hill_climber_with_optimality_proof`, one action per way through
its body: `Improve` (a model that beats the bound; a clause demands that some
request gets a cheaper alternative), `Eliminate` (a model that does not; a clause
excludes it), `Conclude` (no model left) and `Stop`. The formula built before the
loop is `Feasible`: one alternative per request and no two that conflict. varisat is
external and returns any model of the formula and the clauses. The problem is part
of the initial state, so one run covers every scoring. The total of an assignment
is the parameter `Total`, a sum in the instance. `AsyncExecutor` abstracts the same
loop to `climb`, the bound and the candidates left: `SatFindsBetter` is `Improve`,
`SatEliminates` is `Eliminate`, `SatConcludes` is `Conclude`.

### GreedySolver and FixedSolvers

A node of the search is what is insisted on, what is forbidden, and what
`greedy_allocate` makes of it; cost, conflicts and starvation groups follow from it
and are operators. The loop over the heap is two actions (`ReturnPopped`, `Expand`),
the loop over the options around the conflicts of the popped node two more
(`TryOption`, and `StepBack` for an option that starves somebody), in any order,
since the options are kept in a `HashSet`. `assignments` is the one vector all nodes write
to: a solution is returned by a flag, and the caller then reads the vector. `Best`
leaves out one tie-break of `Solution::cmp`: who has somebody unallocated comes
last, and only the root can be such. Nodes are compared as wholes. The code finds a node
it has seen by a hash over maps in the order they iterate in (238-249), which may differ for
equal maps that were filled in another order, so that it may queue a node again: this is more
work for the same answers. Scores are finite.

`FixedSolvers` runs the hill climb and the greedy search on the same problem. They
share nothing but the stop flag, which either may see at any time.

### FlexibleSat

Each round is `Solve` (any choice of alternatives and any order on each resource that
the formula and the learned clauses allow), then the walk: `WalkResource` takes up a
resource, and the next alternative in its order is given a start (`StartEarliest`,
`StartAfterLast`), stays for ever (`StayForEver`), has no earliest start and is
skipped (`SkipUndated`), or would start too late (`LearnTooLate`, which learns a
clause). `EndRound` returns the schedule or starts the next round. `NoModel`, `Stop`
and `PanicOnEdge` are the other ways out. The last one is real: the formula leaves
the order variables of alternatives that are not chosen free, and the lookup of such
an edge panics. varisat may return any model, and whether it ever returns such a one
is its own affair. The order variables that start ranges rule out are not made
(`can_be_scheduled_after`, `src/lib.rs` 154; its comment reads the other way round: the
argument is the one that follows).

### ReservationSchedule

The methods of `ReservationSchedule` and the comparisons of start ranges of
`src/lib.rs`, as operators. No code of the library calls them at this commit, so
there is no state machine to write. `Conflicting` is the reference: what overlaps the
request at some start it may have. The instance of `flexible_sat`, which shares the
start ranges of `src/lib.rs`, compares the two on all schedules of up to four
reservations, as an assumption that TLC evaluates.

## 3. Runs

| run | instance | shows |
|---|---|---|
| `async_fixed` | SAT and greedy threads, 2 snapshots, costs 1..2 | the safety invariants of the executor with racing solvers |
| `async_fixed_live` | the same with one cost, fair threads | superseded solves finish, solves conclude, refinement of `SolutionCell` with its fairness |
| `async_flexible` | one flexible solver that may panic or retry, 3 snapshots | superseded solves finish, the refinement, and that a conclusion is final |
| `async_stop` | 1 snapshot | **violated**: a concluded solve that is claimed within 500 ms never ends |
| `wait_points` | 2 robots, 2 points, all lists, 6 clock readings, queues of up to 4 | exclusive points, ordered histories, enough points, refinement of `SafeSpots` |
| `flexible_reservations` | 3 tickets, 2 claims, 1 wait point, 2 start slots | what claims and repeated claims guarantee whatever the mapping's order and the answer's age; what a ticket without alternatives does to all |
| `flexible_goal` | 3 tickets, 1 claim | **violated**: a claim returns another ticket's goal |
| `fixed_solvers` | 3 requests with 2 alternatives, scores 1 and 3, 5 conflict relations, both threads | learned clauses are sound, the optimum is one, the greedy answer serves everybody, it gives up only where nothing does, both end |
| `flexible_sat` | 84 problems of 3 requests out of 7 kinds, on a dock and a lift | whom a schedule serves, the walk never panics, start ranges rule out no more than they must, the rounds end |
| `flexible_sat_squeeze` | 1 problem of 3 requests on one resource | **violated**: a problem that has a schedule is reported to have none |
| `fixed_reservations` | 3 tickets, 2 claims, 2 chargers, 4 kinds of requests | what pins guarantee, and that ids in order keep requests from panicking |
| `fixed_double_booking` | 2 tickets, 2 claims | **violated**: one resource is booked twice at one time |

Why the bounds are enough to be interesting:

* Two snapshots make one superseded solve beside a live one; three make two
  superseded solves alive at once, with the newest flag lowered in between. Costs
  1..2 let a hill climb improve once after its first answer, and be beaten by, or
  beat, the greedy thread. One flexible retry lets the flag be seen between
  two rounds.
* Three tickets is the least number whose orders include one that is not its own
  inverse, which is when the lookup the wrong way round shows. Two claims are
  enough for every property that relates two bookings.
* In `fixed_reservations` requests compete for one charger at overlapping times,
  have an alternative elsewhere, name an unknown charger or lack an earliest start,
  so that skipping, pinning, re-claiming and both panics happen.
* Queues of three occupations have a front that is neither the back nor next to
  it, which is what a wrong end of the queue or a wrong cut shows on; `MaxQueue` 4
  and six clock readings fill them with releases and requests at one instant, at
  the next one, and flushes between them. Two robots are enough to compete for a
  point.
* In `fixed_solvers` the scores 1 and 3 give sums that tie and sums that differ by more
  than a step of one alternative. The conflict relations are a chain, one under which
  no assignment exists, one resource with three turns, a knot that must be undone by
  stepping back, and a request whose own alternatives overlap. Three requests let a
  better assignment be dearer for two of them, and let the greedy search starve one.
* In `flexible_sat` the kinds of requests are short and long stays, urgent ones with an
  alternative elsewhere, one with a gap before it, one without an earliest start, one
  that stays for ever and one that is over: every branch of the walk, and clauses
  learned after a gap and without one. `MaxTime` 9 is the latest start of all kinds.

Constants named `Max...` are these bounds; they appear only in guards. Symmetry is
used for robots and points in `wait_points` (the set of lists is closed under
renaming) and for slots in `flexible_reservations` (starts are only compared);
both check no liveness. Deadlock is not checked: at its bounds a model stops, and
in the code a finished solve does nothing more either.

### Fairness

`FairSpec` assumes that each pool thread and each solver thread that can take a
step eventually does: they are operating-system threads that are never paused, and
the pool's `recv_timeout` always returns. It assumes nothing of the client: no
request, claim or release need ever come. That searches end is not fairness but the
bound `MaxVisits`: candidates are finitely many, because every round of a search
adds a clause that excludes its assignment, or an explored solution. That this is so is
`SolversEnd` for the hill climb and the greedy search and `Terminates` for
`FlexibleSat`, where fairness is only that the threads run (`SolversSpec`, one
condition for each thread; `FlexibleSat!FairSpec`, for `Search`). Nobody need ever
raise the stop flag there.

### The violated runs

Each is listed under `findings` with the lines involved.

* `ConcludedFinishes`: the pool raises its flag on a conclusion and looks at it
  only after a timeout; both retrieve functions store false in it first.
* `FreshGoalServesTicket`: the mapping is filled index -> ticket and read ticket ->
  index. `OneScheduleNoCollision` and `RepeatedClaimAgrees` are what remains true: the
  goals of two tickets are different ones, and a ticket keeps the one it got.
* `NoSolutionMeansNone`: the clause learned when somebody is too late forbids the
  alternatives walked since the last gap to be chosen together, though only their
  order was at fault. `RuledOutIsImpossible`, before anything is learned, and
  `FeasibleServes` are what remains true.
* `BookingsDisjoint`: a claim reads whatever assignment is in the cell, and two
  claims may read two assignments, the second computed without the first claim.
  `PinsKeepBookingsApart` is what remains true.

### A disagreement inside a passing run

The walk of `feasibility_analysis` does nothing for an alternative that has a duration
and no earliest start (`sat_flexible_time_model.rs` 879 has no `else`). The model of the
formula may choose it all the same. Then the schedule that is returned has no entry for
its request, nothing keeps its resource free, and a claim of its ticket ends in "We
should never reach here" (`database/mod.rs` 331). The repository says otherwise: "A
solved problem will satisfy at least one "alternative" within a request"
(`sat_flexible_time_model.rs` 22-23), and the clock source is there because "in the event
no starting time is provided, we need to know the current time" (`docs/tutorial.md` 56,
and 107 of the model). `FeasibleServes` is therefore not that promise. It says of a
returned schedule, read from its entries alone, that every request is served except
those with such an undated alternative, and that these alone may be left out; the
instance has them. The hazard is listed at line 879.

### What else the models show

No statement of the repository that we know of contradicts these: an Optimal of the
pool may be replaced by the UnSolveable of a greedy thread that was stopped, since both
its stop and its failure are reported so (`greedy_solver.rs` 560-563, 760), so the
verdicts of the two threads may well differ; the greedy search calls optimal whatever
conflict-free assignment it meets first, which may be dearer than the climb's; without
any request the hill climb says UnSolveable and the greedy search Optimal; a ticket
without alternatives leaves everybody without a schedule from then on
(`NoGoalPastBareTicket`).

## 4. Proofs

All theorems hold for every value of the constants under the named assumptions of
the modules: sizes, times and scores are natural numbers (`PoolAssumption`,
`SolvesAssumption`, `WaitPointsAssumption`, `ProblemAssumption`,
`NumberAssumption`), a pool has finitely many solvers of three disjoint kinds, a
fixed-time problem has finitely many alternatives and enters each conflict under both
of its sides (`ConflictsAssumption`), lists are sequences of points (`ListsAssumption`),
requests number their alternatives from 1 to at most `MaxAlternatives` (`RequestsAssumption`), a flexible problem is finite, with positive
durations and start ranges that are not empty (`FlexibleSatAssumption`), and the total
of an assignment is finite and monotone in the scores of its alternatives
(`TotalAssumption`). The two reservation systems are proved over `SolutionCell` and
`SafeSpots`, which the detailed modules are proved to implement.

**AsyncExecutor.** The inductive invariant `Inv` is the type invariant with six
parts. `SupersededStopped` is inductive with the type and `Phases` (a solve is idle
exactly if it has not been started), which says that `attempt_solve` starts a pool
that was idle. `NoOrphanThreads` follows from the guard of the join and from the
fact that a thread never leaves `done`. `OwnAnswers` needs to know what every
solver step does to channels, which `SolverStep` states once for the thirteen
solver actions: one thread moves, at most one message about its own solve is sent.
`CellIsAProposal` needs `PublishReady` (a pool at `publish` proposes an answer of
its own), because the solve recorded in the cell is the one whose proposal it
compares with. From `Inv`:

* `TypeCorrect`, `SupersededStaysStopped`, `FinishedLeavesNoThread`,
  `AnswersStayWithTheirSolve`, `CellHoldsAProposal`: `Spec => []P` for the
  invariants of the same meaning;
* `ExecutorImplementsCell`: `Spec => Cell!CellSpec`, step by step;
* `FlexibleConclusionIsFinal`: for a pool that is one flexible solver. It rests on a
  second invariant, that a solve has at most one answer between its thread, its
  channel and its proposal;
* `NothingLost`: `NoImprovementLost` for a pool with one hill climb. Its invariant
  `ReportedSoFar` says that the bound of the climb is the cost of the last partial in
  the channel, or else of the one the pool holds. With two hill climbs it is false:
  the Optimal of one is replaced by a dearer partial of the other;
* `SupersededWindsDown`: what a superseded solve may still do is a natural number,
  `Rank`, made of what its threads, the messages in its channel and the pool have before
  them, and each of its own steps lowers it. It does not depend on `MaxVisits`: a
  thread that was told to stop starts no further search. This is the safety half of
  `SupersededFinishes`; the other half is that threads run;
* `NobodyEndsInSilence`: as long as a solve is the newest it stops, and its hill climb
  and greedy search end, only with an answer (`AnsweredFirst`). This is the safety half
  of `SolveConcludes`. A flexible solver that panics is why it leaves these out.

**WaitPoints.** `QueueMatchesMap` is inductive with the types. Lemmas on queues say
what appending, stamping the back and dropping a prefix do to the open occupation.
`PointsExclusive` is immediate from it: one back of the queue, one occupant.
`QueuesImplementSpots` maps every step to a step of `SafeSpots` or a stutter: what is
open is occupied, and what was released at the present time rests, since the last
occupation of a queue is the latest (`QueuesInOrder`). A flush takes nothing that rests
(`FlushedBack`). `RefusesAlike` is the same for requests that fail, which are no steps.
`QueuesInOrder` adds to the invariant that a queue is ordered and in the past.
`PointsSuffice` counts: if no point were free, each would have an occupant of its own,
and the robot without a spot would be one robot more than there are points.

**FixedTimeSat.** `Inv` is the type invariant, `BoundOfBest` (the bound is the score
of the best assignment, or infinite when there is none), `NothingBetterRuledOut` and
`ConcludedOptimal`. The heart is two lemmas. `CheaperIsSound`: an assignment cheaper
than `b` has a cheaper alternative somewhere, hence satisfies the clause learned from
`b`; this is where the total must be monotone. `EliminatedIsSound`: the clause
learned from `e` excludes nothing but `e`. When no model is left, every feasible
assignment violates some clause and so scores at least the bound. From `Inv`:
`ClausesAreSound` and `OptimalIsOptimal`. `NeverVisitsTwice` is the safety half of
termination: every round takes a model from the formula, at least the one it visited,
and none comes back. That a sum is monotone needs induction over
the requests, which is out of the prover's reach; it is assumed, and TLC evaluates
the assumption for the sum on the instance.

**FixedSolvers.** `ClimbGoesOn`: beside the greedy thread the hill climb still behaves
as `FixedTimeSat!Spec`, so that its theorems carry over (`OptimalBesideGreedy`).
`GreedyInv` says that all nodes are made by `greedy_allocate` of constraints that do not
clash, and that the vector of an answer serves everybody; the last holds because
each step that ends the search writes the vector of the node it ends on.

`GreedyGivesUpRightly` is the hardest of these proofs, since the search drops nodes:
those that starve somebody, and those it steps back to. Call a node promising when an
assignment that serves everybody keeps to its constraints. The invariant
`NothingDropped` says of every promising node that was generated that it is on the
heap, or is being expanded and an option that leads on is still to be tried, or has a
promising node beyond it, which insists on more.

* When a node is expanded there is such an option (`SomeOptionLeadsOn`). Take an
  assignment that serves everybody below the node, and an alternative that the node
  allocates and that conflicts with another one it allocates. If the assignment chooses
  it, or something it forbids, that is an option; if not, the alternative can be exchanged
  into the assignment, which still serves everybody, and is itself the option.
* What an option that leads on allocates starves nobody (`AllowedIsAllocated`), so it is
  never the one that is dropped. A node stepped back to which still insists on
  something also forbids it, so that nothing is left below it
  (`BackIsNotPromising`): not queueing it loses nothing. One that insists on nothing may be
  dropped, as what the invariant follows is what is insisted on.
* With an empty heap each promising node has another one beyond it, which cannot go on
  for ever with finitely many alternatives (`NothingLeft`).

`UnSolveableAgreed` combines this with the hill climb: when the greedy search has given
up, the climb has found nothing either. `PoppedIsOptimal` is about the name of the
other answer. A node returned as it is popped is the cheapest of all assignments, as
only the root can be such a node (`OnlyRootSolved`) and it gives everybody his cheapest
alternative; what is returned before it is queued is called optimal as well, and need
not be.

**FlexibleSat.** `Inv` says where the walk is (`WalkPlace`), that who has a start is in
its window, ends before those still to come on its resource and overlaps nobody
(`Placed`), and that nobody who gives an earliest start is left out before a clause is
learned (`NobodyForgotten`). `FeasibleSchedules` follows when all are walked: those who
stay for ever do so where the model chose them to, and no two of them on one resource,
since one would be before the other and only the last on a resource has no end.
`NoPanicInTheWalk` needs that a transitive and total order on a finite set has a first
element, and that no order variable leads from an alternative without end.
`RulesOutTheImpossible` builds a model of the formula out of a schedule: the order of
its starts. `LearnsFromTheImpossible` explains the run `flexible_sat_squeeze`: whatever
schedule keeps to the order of the round, and starts nobody at the last moment, starts
nobody earlier than the walk does (`EarliestInOrder`). A clause is therefore learned
only from an order that nobody can keep to, and what is wrong with it is only that it
forbids the choice in every other order too. `NeverChoosesTwice` is the safety half of
`Terminates`: a round that ends without a schedule is over with its choice for good.

**FlexibleReservations.** A solve answers once, so all goals of a solve come from one
schedule, which is the one in the cell as long as the cell is about that solve
(`GoalsInCell`). A goal was looked up at the index that the newest mapping had for the
ticket (`Lookups`), and mappings name each ticket once (`MappingsOneToOne`), so two
tickets never get one item of a schedule (`NoCollision`). For the same reasons a ticket
that claims again finds the same item, unless the cell or the newest mapping has changed
(`ClaimAgainSameGoal`). A mapping is onto (`MappingOnto`), so a ticket without
alternatives is in every problem since it was filed, and such a problem has no choice
(`NoneBareBelow`, `BareTicketStopsAll`).

**FixedReservations.** Each claim took its alternative from an assignment for the
snapshot it was computed from (`Grants`); a snapshot holds all alternatives of
tickets not claimed before it and only the claimed one of those that were, as long as
they were claimed once (`Snapshots`). Assignments never choose alternatives that
overlap, hence `PinsHold`. For `InOrderNeverPanics` the invariant `PinsExist` says that,
as long as ids are tickets, recorded claims are alternatives of their tickets.

**ReservationSchedule.** `RangeIsExact`: in a schedule without overlaps the range of
`check_potential_conflict` holds what a request can collide with, no more and no
less; looking at one reservation before the range is enough. `InsertKeepsApart`: with
an empty range any start in the request's range is free. `CollectingIsSafe` states
what a caller of `garbage_collect` must know. `AlwaysAfterIsExact` is about
`is_always_after`.

Only model-checked: everything with fairness (`SupersededFinishes`,
`SolveConcludes`, the fairness of `ImplementsCell`, `SolversEnd`, `Terminates`), since
liveness under fairness and anything that needs ENABLED are out of the prover's reach.
Of these the parts that a single step can break are proved, as said above: ranks that
fall, clauses that exclude what they came from, threads that leave an answer. Every
invariant that a passing run checks is stated by a theorem. A descent over finite sets,
as in `NothingLeft`, is made with well-founded minima, since induction theorems that
take an operator cannot be used.

## 5. Not modelled, and the plan

* `time_optimality_solver` (`sat_flexible_time_model.rs`), `without_optimality_check` and
  `from_hill_climber` (`sat.rs`): no pool runs them.
* `kuhn_munkres.rs`: a matching without times that neither reservation system uses.
  The matching itself is an external crate; the tables of requests and the masks
  around it are what would be modelled.
* `discretization/`, `utils/queue.rs`, `utils/multimap.rs`, `cost_function/`: pure
  conversions and containers that no modelled part calls. Costs are the scores of
  `FixedTimeSat`.
* `scenario_generation/`, the examples and benchmarks: they make inputs and take times.
* Serialisation, logging and the debug tables of the solvers.
* varisat and petgraph are external: any model of a formula, any topological order.

The order in which the project grows:

1. `AsyncExecutor` over `SolutionCell`, `WaitPoints` over `SafeSpots`, the two
   reservation systems over both abstractions, and the proofs above. *(done)*
2. `FixedTimeSat` and the theorem that its last answer is optimal. *(done)*
3. `FlexibleSat` against the definition of a consistent schedule, with its boundary
   cases. *(done)*
4. `GreedySolver` and `FixedSolvers`: the search, and the two threads together. *(done)*
5. Theorems about the reservation systems from the specification of the cell alone;
   `EnoughPoints` from cardinalities; `NoImprovementLost`. *(done)*
6. `ReservationSchedule` as operators with a reference definition. *(done)*
7. The tables and masks of `kuhn_munkres.rs`: what a request refused half way
   leaves behind, and what a smaller mask leaves of a larger one.
8. Repeated and late releases of wait points, and what repeated claims of a ticket add
   up to.
9. A proof of `GivesUpRightly`, and of the safety halves of what is otherwise checked
   under fairness. *(done)*
