---------------------------- MODULE AsyncExecutor ----------------------------
(***************************************************************************)
(* The background solver of src/algorithms/mod.rs: AsyncExecutor, the      *)
(* AlgorithmPool it clones for every snapshot, and the solver threads of   *)
(* sat.rs, greedy_solver.rs and sat_flexible_time_model.rs as far as they  *)
(* read the stop flag and talk on the channel.                             *)
(*                                                                         *)
(* Each call of attempt_solve starts solve number 1, 2, ...: one pool      *)
(* thread, one solver thread per algorithm, one stop flag and one channel. *)
(* All solves of an executor share the cell `solution`.                    *)
(***************************************************************************)
EXTENDS Naturals, Sequences, FiniteSets

CONSTANTS
    SatSolvers,       \* FixedTimeSATSolver entries of the pool template
    GreedySolvers,    \* GreedySolver entries
    FlexibleSolvers,  \* SATFlexibleTimeModel entries
    MaxSolves,        \* bound on the calls of attempt_solve
    MaxCost,          \* costs of assignments are 1..MaxCost
    MaxVisits         \* per algorithm: bound on the candidates a thread visits

Algorithms == SatSolvers \cup GreedySolvers \cup FlexibleSolvers

ASSUME PoolAssumption ==
    /\ MaxSolves \in Nat
    /\ MaxCost \in Nat
    /\ MaxVisits \in [Algorithms -> Nat]
    /\ IsFiniteSet(Algorithms)
    /\ SatSolvers \cap GreedySolvers = {}
    /\ SatSolvers \cap FlexibleSolvers = {}
    /\ GreedySolvers \cap FlexibleSolvers = {}

Solves == 1..MaxSolves
Infinity == MaxCost + 1     \* f64::INFINITY, the first bound of a hill climb

(* An answer is known by its variant, the solve whose requests it is about *)
(* and the cost a Partial carries (0 in the other variants).               *)
AlgorithmState ==
    [kind : {"Feasible", "Optimal", "Partial", "NotFound", "UnSolveable"},
     solve : 0..MaxSolves,
     cost : 0..MaxCost]

NotFound == [kind |-> "NotFound", solve |-> 0, cost |-> 0]
UnSolveable(s) == [kind |-> "UnSolveable", solve |-> s, cost |-> 0]
Feasible(s) == [kind |-> "Feasible", solve |-> s, cost |-> 0]
Optimal(s) == [kind |-> "Optimal", solve |-> s, cost |-> 0]
Partial(s, c) == [kind |-> "Partial", solve |-> s, cost |-> c]

VARIABLES
    execution_context,  \* the newest solve, 0 before the first attempt_solve
    running,            \* per solve: the AtomicBool.  Despite its name TRUE
                        \* asks the solve to stop
    pool,               \* per solve: where the pool thread is
    proposed_solution,  \* per solve: the pool's own best answer
    channel,            \* per solve: messages sent and not yet received
    thread,             \* per solve and algorithm: where the solver thread is
    climb,              \* per solve and algorithm: cost to beat (SAT), rounds left
    solution            \* the cell all solves of the executor share

poolVars == <<pool, proposed_solution>>
vars == <<execution_context, running, poolVars, channel, thread, climb, solution>>

TypeOK ==
    /\ execution_context \in 0..MaxSolves
    /\ running \in [Solves -> BOOLEAN]
    /\ pool \in [Solves -> {"idle", "receive", "publish", "decide", "join", "finished"}]
    /\ proposed_solution \in [Solves -> AlgorithmState]
    /\ channel \in [Solves -> Seq(AlgorithmState)]
    /\ thread \in [Solves -> [Algorithms -> {"idle", "check", "search", "done"}]]
    /\ climb \in [Solves -> [Algorithms -> [bound : 1..Infinity, visits : Nat]]]
    /\ solution \in AlgorithmState

\* AsyncExecutor::init.
Init ==
    /\ execution_context = 0
    /\ running = [s \in Solves |-> FALSE]
    /\ pool = [s \in Solves |-> "idle"]
    /\ proposed_solution = [s \in Solves |-> NotFound]
    /\ channel = [s \in Solves |-> <<>>]
    /\ thread = [s \in Solves |-> [a \in Algorithms |-> "idle"]]
    /\ climb = [s \in Solves |-> [a \in Algorithms |-> [bound |-> Infinity, visits |-> MaxVisits[a]]]]
    /\ solution = NotFound
-----------------------------------------------------------------------------
(* The executor, called by the reservation system's thread.                *)

\* Mutant of AttemptSolve: the previous solve is not told to stop.
AttemptSolveForgetsStop ==
    LET next == execution_context + 1 IN
    /\ execution_context < MaxSolves
    /\ execution_context' = next
    /\ pool' = [pool EXCEPT ![next] = "receive"]
    /\ thread' = [thread EXCEPT ![next] = [a \in Algorithms |-> "check"]]
    /\ UNCHANGED <<running, proposed_solution, channel, climb, solution>>

\* attempt_solve: ask the current solve to stop unless its thread has ended,
\* then start the next one on a fresh flag, channel and pool.  The previous
\* solve is not waited for, and it keeps its handle on `solution`.
AttemptSolve ==
    LET next == execution_context + 1 IN
    /\ execution_context < MaxSolves
    /\ running' = [s \in Solves |->
                      running[s] \/ (s = execution_context /\ pool[s] # "finished")]
    /\ execution_context' = next
    /\ pool' = [pool EXCEPT ![next] = "receive"]
    /\ thread' = [thread EXCEPT ![next] = [a \in Algorithms |-> "check"]]
    /\ UNCHANGED <<proposed_solution, channel, climb, solution>>

\* Mutant of Retrieve: one flag for all solves, lowered for all of them.
RetrieveLowersAll ==
    /\ execution_context # 0
    /\ running' = [s \in Solves |-> FALSE]
    /\ UNCHANGED <<execution_context, poolVars, channel, thread, climb, solution>>

\* retrieve_best_fixed_time_solution_and_stop and retrieve_feasible_schedule:
\* both store FALSE in the current solve's flag before they read the cell.
\* Without a context they return None at once.
Retrieve ==
    /\ execution_context # 0
    /\ running' = [running EXCEPT ![execution_context] = FALSE]
    /\ UNCHANGED <<execution_context, poolVars, channel, thread, climb, solution>>
-----------------------------------------------------------------------------
(* The pool thread of one solve: AlgorithmPool::solve.                     *)

\* Mutant of Merge: the comparison the wrong way round.
MergeKeepsDearer(current, soln) ==
    IF current.kind = "Partial" /\ soln.kind = "Partial" /\ current.cost >= soln.cost
    THEN current
    ELSE soln

\* A Partial gives way to a cheaper Partial only; anything else, an Optimal
\* included, is replaced by whatever arrives next.
Merge(current, soln) ==
    IF current.kind = "Partial" /\ soln.kind = "Partial" /\ current.cost <= soln.cost
    THEN current
    ELSE soln

ShouldContinue(answer) == answer.kind \in {"Partial", "NotFound"}

\* recv_timeout returns a message.
PoolReceive(s) ==
    /\ pool[s] = "receive"
    /\ channel[s] # <<>>
    /\ channel' = [channel EXCEPT ![s] = Tail(@)]
    /\ proposed_solution' = [proposed_solution EXCEPT ![s] = Merge(@, Head(channel[s]))]
    /\ pool' = [pool EXCEPT ![s] = "publish"]
    /\ UNCHANGED <<execution_context, running, thread, climb, solution>>

\* Mutant of PoolPublish: the first answer is never replaced.
PoolPublishOnce(s) ==
    /\ pool[s] = "publish"
    /\ solution' = IF solution = NotFound THEN proposed_solution[s] ELSE solution
    /\ pool' = [pool EXCEPT ![s] = "decide"]
    /\ UNCHANGED <<execution_context, running, proposed_solution, channel, thread, climb>>

\* *mtx.lock().unwrap() = self.proposed_solution.clone()
PoolPublish(s) ==
    /\ pool[s] = "publish"
    /\ solution' = proposed_solution[s]
    /\ pool' = [pool EXCEPT ![s] = "decide"]
    /\ UNCHANGED <<execution_context, running, proposed_solution, channel, thread, climb>>

\* if !self.should_continue() { self.stop() }
PoolDecide(s) ==
    /\ pool[s] = "decide"
    /\ running' = [running EXCEPT ![s] = @ \/ ~ShouldContinue(proposed_solution[s])]
    /\ pool' = [pool EXCEPT ![s] = "receive"]
    /\ UNCHANGED <<execution_context, proposed_solution, channel, thread, climb, solution>>

\* Mutant of PoolTimeout: the flag is not looked at.
PoolTimeoutUnasked(s) ==
    /\ pool[s] = "receive"
    /\ channel[s] = <<>>
    /\ pool' = [pool EXCEPT ![s] = "join"]
    /\ UNCHANGED <<execution_context, running, proposed_solution, channel, thread, climb, solution>>

\* Mutant of PoolTimeout: leaves only with a conclusion in hand.
PoolTimeoutConcluded(s) ==
    /\ pool[s] = "receive"
    /\ channel[s] = <<>>
    /\ running[s] /\ ~ShouldContinue(proposed_solution[s])
    /\ pool' = [pool EXCEPT ![s] = "join"]
    /\ UNCHANGED <<execution_context, running, proposed_solution, channel, thread, climb, solution>>

\* recv_timeout gives up after 500 ms without a message and the flag is up.
\* With the flag down the loop goes round again, which changes nothing.  The
\* Disconnected branch is dead: solve keeps the original sender alive.
PoolTimeout(s) ==
    /\ pool[s] = "receive"
    /\ channel[s] = <<>>
    /\ running[s]
    /\ pool' = [pool EXCEPT ![s] = "join"]
    /\ UNCHANGED <<execution_context, running, proposed_solution, channel, thread, climb, solution>>

\* Mutant of PoolJoin: the solver threads are detached instead of joined.
PoolJoinDetached(s) ==
    /\ pool[s] = "join"
    /\ pool' = [pool EXCEPT ![s] = "finished"]
    /\ channel' = [channel EXCEPT ![s] = <<>>]
    /\ UNCHANGED <<execution_context, running, proposed_solution, thread, climb, solution>>

\* The pool thread ends once it has joined every solver thread; messages
\* still in the channel are dropped with it.
PoolJoin(s) ==
    /\ pool[s] = "join"
    /\ \A a \in Algorithms : thread[s][a] = "done"
    /\ pool' = [pool EXCEPT ![s] = "finished"]
    /\ channel' = [channel EXCEPT ![s] = <<>>]
    /\ UNCHANGED <<execution_context, running, proposed_solution, thread, climb, solution>>

Pool(s) ==
    PoolReceive(s) \/ PoolPublish(s) \/ PoolDecide(s) \/ PoolTimeout(s) \/ PoolJoin(s)
-----------------------------------------------------------------------------
(* The solver threads of one solve.                                        *)

Move(s, a, to) == thread' = [thread EXCEPT ![s][a] = to]

\* Mutant of Send: the executor keeps one channel, its newest.
SendToNewest(s, msg) == channel' = [channel EXCEPT ![execution_context] = Append(@, msg)]
Send(s, msg) == channel' = [channel EXCEPT ![s] = Append(@, msg)]

\* Every loop of every solver opens by loading the stop flag.
StartSearch(s, a) ==
    /\ thread[s][a] = "check"
    /\ ~running[s]
    /\ Move(s, a, "search")
    /\ UNCHANGED <<execution_context, running, poolVars, channel, climb, solution>>

\* FixedTimeSATSolver leaves without a word when it sees the flag.
SatStopped(s, a) ==
    /\ thread[s][a] = "check"
    /\ running[s]
    /\ Move(s, a, "done")
    /\ UNCHANGED <<execution_context, running, poolVars, channel, climb, solution>>

\* The next assignment is cheaper than every one so far: it is reported.
SatFindsBetter(s, a) ==
    /\ thread[s][a] = "search"
    /\ climb[s][a].visits > 0
    /\ \E score \in 1..MaxCost :
          /\ score < climb[s][a].bound
          /\ climb' = [climb EXCEPT ![s][a] = [bound |-> score, visits |-> @.visits - 1]]
          /\ Send(s, Partial(s, score))
    /\ Move(s, a, "check")
    /\ UNCHANGED <<execution_context, running, poolVars, solution>>

\* It is not cheaper: it is ruled out and the search goes on.  The first
\* assignment always beats Infinity.
SatEliminates(s, a) ==
    /\ thread[s][a] = "search"
    /\ climb[s][a].visits > 0
    /\ climb[s][a].bound # Infinity
    /\ climb' = [climb EXCEPT ![s][a].visits = @ - 1]
    /\ Move(s, a, "check")
    /\ UNCHANGED <<execution_context, running, poolVars, channel, solution>>

\* Mutant of SatConcludes: what is left at the end is reported with its bound.
SatConcludesWithBound(s, a) ==
    /\ thread[s][a] = "search"
    /\ Send(s, Partial(s, climb[s][a].bound))
    /\ Move(s, a, "done")
    /\ UNCHANGED <<execution_context, running, poolVars, climb, solution>>

\* The formula has become unsatisfiable: the best assignment is optimal, or
\* there was none.
SatConcludes(s, a) ==
    /\ thread[s][a] = "search"
    /\ Send(s, IF climb[s][a].bound = Infinity THEN UnSolveable(s) ELSE Optimal(s))
    /\ Move(s, a, "done")
    /\ UNCHANGED <<execution_context, running, poolVars, climb, solution>>

\* GreedySolver reports the first conflict-free assignment it reaches as an
\* OptimalSolution whatever it costs, and UnSolveable when it runs out.
GreedyConcludes(s, a) ==
    /\ thread[s][a] = "search"
    /\ Send(s, Optimal(s)) \/ Send(s, UnSolveable(s))
    /\ Move(s, a, "done")
    /\ UNCHANGED <<execution_context, running, poolVars, climb, solution>>

\* Mutant of FlexibleConcludes: solved is set but the loop is not left.
FlexibleConcludesAndLoops(s, a) ==
    /\ thread[s][a] = "search"
    /\ climb[s][a].visits > 0
    /\ climb' = [climb EXCEPT ![s][a].visits = @ - 1]
    /\ Send(s, Feasible(s)) \/ Send(s, UnSolveable(s))
    /\ Move(s, a, "check")
    /\ UNCHANGED <<execution_context, running, poolVars, solution>>

\* SATFlexibleTimeModel: a schedule, or none.
FlexibleConcludes(s, a) ==
    /\ thread[s][a] = "search"
    /\ Send(s, Feasible(s)) \/ Send(s, UnSolveable(s))
    /\ Move(s, a, "done")
    /\ UNCHANGED <<execution_context, running, poolVars, climb, solution>>

\* A schedule that places a reservation of no duration before another one, or
\* orders an alternative that was not chosen, panics: nothing is sent.
FlexiblePanics(s, a) ==
    /\ thread[s][a] = "search"
    /\ Move(s, a, "done")
    /\ UNCHANGED <<execution_context, running, poolVars, channel, climb, solution>>

\* A candidate with conflicts, or a schedule that misses a start time: it is
\* ruled out and the loop goes round.  Candidates are finitely many.
SearchAgain(s, a) ==
    /\ thread[s][a] = "search"
    /\ climb[s][a].visits > 0
    /\ climb' = [climb EXCEPT ![s][a].visits = @ - 1]
    /\ Move(s, a, "check")
    /\ UNCHANGED <<execution_context, running, poolVars, channel, solution>>

\* The greedy and the flexible solver answer UnSolveable when they see the
\* flag: naive_greedy_solver returns None, feasibility_analysis TimedOut.
StoppedUnSolveable(s, a) ==
    /\ thread[s][a] = "check"
    /\ running[s]
    /\ Send(s, UnSolveable(s))
    /\ Move(s, a, "done")
    /\ UNCHANGED <<execution_context, running, poolVars, climb, solution>>

SatThread(s, a) ==
    StartSearch(s, a) \/ SatStopped(s, a) \/ SatFindsBetter(s, a)
        \/ SatEliminates(s, a) \/ SatConcludes(s, a)
GreedyThread(s, a) ==
    StartSearch(s, a) \/ StoppedUnSolveable(s, a) \/ SearchAgain(s, a) \/ GreedyConcludes(s, a)
FlexibleThread(s, a) ==
    StartSearch(s, a) \/ StoppedUnSolveable(s, a) \/ SearchAgain(s, a)
        \/ FlexibleConcludes(s, a) \/ FlexiblePanics(s, a)

Solver(s) ==
    \/ \E a \in SatSolvers : SatThread(s, a)
    \/ \E a \in GreedySolvers : GreedyThread(s, a)
    \/ \E a \in FlexibleSolvers : FlexibleThread(s, a)
-----------------------------------------------------------------------------
Next ==
    \/ AttemptSolve
    \/ Retrieve
    \/ \E s \in Solves : Pool(s) \/ Solver(s)

Spec == Init /\ [][Next]_vars

(* Every thread the operating system runs makes progress; attempt_solve and *)
(* the retrieve calls are the client's, and need never come.               *)
FairSpec ==
    /\ Spec
    /\ \A s \in Solves : WF_vars(Pool(s))
    /\ \A s \in Solves :
          /\ \A a \in SatSolvers : WF_vars(SatThread(s, a))
          /\ \A a \in GreedySolvers : WF_vars(GreedyThread(s, a))
          /\ \A a \in FlexibleSolvers : WF_vars(FlexibleThread(s, a))
-----------------------------------------------------------------------------
(* Properties.                                                             *)

Superseded(s) == s < execution_context
Concluded(s) == ~ShouldContinue(proposed_solution[s])

\* A superseded solve has been told to stop, and no later retrieve call takes
\* that back: the executor only ever lowers the flag of its newest solve.
\* (attempt_solve, AlgorithmPool::stop and the two retrieve functions.)
SupersededStopped ==
    \A s \in Solves : Superseded(s) => running[s] \/ pool[s] = "finished"

\* A finished pool thread leaves no solver thread behind, so a solve that
\* is_finished neither burns time nor sends (the joins at the end of solve).
NoOrphanThreads ==
    \A s \in Solves : pool[s] = "finished" => \A a \in Algorithms : thread[s][a] = "done"

\* Answers of one solve never travel through the channel or the pool of
\* another, whatever the order in which the solves run.
OwnAnswers ==
    \A s \in Solves :
        /\ \A i \in 1..Len(channel[s]) :
              channel[s][i].solve = s /\ channel[s][i].kind # "NotFound"
        /\ proposed_solution[s] # NotFound => proposed_solution[s].solve = s

\* A pool that waits with nothing unread and holds a partial assignment holds
\* the cheapest one its SAT threads have reported (the merge in solve).
NoImprovementLost ==
    \A s \in Solves :
        pool[s] = "receive" /\ channel[s] = <<>> /\ proposed_solution[s].kind = "Partial"
        => /\ \E a \in SatSolvers : climb[s][a].bound = proposed_solution[s].cost
           /\ \A a \in SatSolvers : proposed_solution[s].cost <= climb[s][a].bound

\* What the cell holds is what the pool that wrote it proposes, up to the one
\* answer that pool is about to publish.
CellIsAProposal ==
    LET s == solution.solve IN
    s # 0 => pool[s] = "publish" \/ solution = proposed_solution[s]

\* With a single solver that reports once, a conclusion is the pool's last
\* word: the flexible pool cannot trade a schedule for an UnSolveable.
ConclusionIsFinal ==
    [][\A s \in Solves : Concluded(s) => proposed_solution'[s] = proposed_solution[s]]_vars

\* A superseded solve comes to an end, with all its threads, even when its
\* solvers panicked and whatever the client calls.
SupersededFinishes ==
    \A s \in Solves : Superseded(s) ~> pool[s] = "finished"

\* A solve with no answer yet gets a conclusion unless it is superseded: no
\* solver of the fixed-time pool ends in silence except on the stop flag,
\* and a retrieve call cannot make one wait for the other for ever.
SolveConcludes ==
    \A s \in Solves :
        pool[s] # "idle" /\ proposed_solution[s] = NotFound ~> Superseded(s) \/ Concluded(s)

\* The name retrieve_best_fixed_time_solution_and_stop and the tutorial ("the
\* stop signal exists so other threads can tell the solver to cleanly exit"):
\* a solve that has concluded, and so was told to stop, ends.
ConcludedFinishes ==
    \A s \in Solves : Concluded(s) ~> pool[s] = "finished"

(* The cell with all threads hidden.                                       *)
Cell == INSTANCE SolutionCell WITH
    latest <- execution_context,
    live <- {s \in Solves : pool[s] \notin {"idle", "finished"}},
    answer <- [kind |-> solution.kind, solve |-> solution.solve]

\* The executor implements the shared cell, fairness included: superseded
\* solves retire, and a retired solve never writes again.
ImplementsCell == Cell!CellFairSpec
=============================================================================
