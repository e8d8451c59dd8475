--------------------------- MODULE MCAsyncExecutor ---------------------------
(* Instances of AsyncExecutor for TLC: the two pools the library builds.    *)
EXTENDS AsyncExecutor, TLC

CONSTANTS sat, greedy, flexible     \* one thread of each algorithm

\* Candidates a thread may visit.  The SAT thread of the fixed-time pool
\* (FixedTimeReservationSystem::create_with_resources) visits one per cost, so
\* it can improve on itself as often as the costs allow; the greedy thread
\* beside it takes its first.  The flexible thread (create_with_clock) retries
\* once.
Visits == [a \in Algorithms |-> CASE a = sat -> MaxCost [] a = greedy -> 0 [] a = flexible -> 1]
=============================================================================
