----------------------------- MODULE GreedySolver -----------------------------
(***************************************************************************)
(* Problem::naive_greedy_solver of src/algorithms/greedy_solver.rs: give   *)
(* every request its cheapest alternative; while some of these conflict,   *)
(* insist on one of the alternatives around a conflict and forbid what     *)
(* conflicts with it, cheapest first.                                      *)
(*                                                                         *)
(* A node of the search is what is insisted on, what is forbidden and what *)
(* this allocates; cost, conflicts and starvation groups follow from it.   *)
(* The vector of assignments is one for the whole search.  Fake resources  *)
(* are named after alternatives, so an alternative stands for its name.    *)
(* Scores are finite.  Nodes are compared as wholes; the code hashes their *)
(* maps in the order they iterate in, so that it may queue a node twice.   *)
(* Who instantiates this module says which problems there are.             *)
(***************************************************************************)
EXTENDS Naturals, FiniteSets

CONSTANTS
    Requests,       \* the requests of the problem
    Alternatives,   \* per request: its alternatives, numbered
    Total(_, _),    \* Total(score, c): the score of what c allocates
    None            \* what a request gets that gets nothing

Literals == UNION {{r} \X Alternatives[r] : r \in Requests}

VARIABLES
    score,              \* the problem: a score for each alternative,
    conflict_sets,      \* and the pairs that overlap, both ways
    priority_queue,     \* nodes to look at
    explored,           \* nodes generated before
    solution,           \* the node popped last
    options,            \* alternatives it has still to insist on
    assignments,        \* what greedy_allocate wrote last
    outcome             \* "pop" or "expand", then how the search ended

problemVars == <<score, conflict_sets>>
searchVars == <<priority_queue, explored, solution, options, assignments, outcome>>
vars == <<problemVars, searchVars>>

\* Mutant of Implications: an alternative forbids itself only.
ImplicationsOfItself(l) == {l}

\* get_implications: what insisting on l forbids, l included.  As conflicts go
\* both ways its backtrace is the same relation.
Implications(l) == {k \in Literals : <<l, k>> \in conflict_sets} \cup {l}

\* greedy_allocate: the alternative insisted on, or the first of the cheapest
\* that are not forbidden.
Of(r, S) == {l \in S : l[1] = r}
Cheapest(S) ==
    CHOOSE l \in S : \A k \in S : score[l] < score[k] \/ (score[l] = score[k] /\ l[2] <= k[2])

Allocated(r, p, n) ==
    IF Of(r, p) # {} THEN CHOOSE l \in Of(r, p) : TRUE
    ELSE IF Of(r, Literals) \ n # {} THEN Cheapest(Of(r, Literals) \ n)
    ELSE <<r, None>>

\* The Solution that greedy_allocate makes of these constraints.
Node(p, n) ==
    [positive_constraints |-> p,
     negative_constraints |-> n,
     allocation |-> [r \in Requests |-> Allocated(r, p, n)[2]]]

Given(n) == {<<r, n.allocation[r]>> : r \in Requests}
Cost(n) == Total(score, n.allocation)
Unallocated(n) == {r \in Requests : n.allocation[r] = None}

\* get_conflicts: both sides of every conflict in an allocation.
Conflicts(n) == {l \in Given(n) : \E k \in Given(n) : <<l, k>> \in conflict_sets}

\* Mutant of Solved: it is enough that everybody gets something.
SolvedWithConflicts(n) == Unallocated(n) = {}

Solved(n) == Conflicts(n) = {} /\ Unallocated(n) = {}

\* backtrack: what is insisted on and starves somebody is forbidden instead.
Starving(n) ==
    {k \in Literals : \E r \in Unallocated(n) : \E l \in Of(r, Literals) : l \in Implications(k)}

Backtrack(n) ==
    LET kept == n.positive_constraints \ Starving(n) IN
    Node(kept, (UNION {Implications(l) : l \in kept}) \cup (n.positive_constraints \ kept))

\* Mutant of Insist: two alternatives of a request are insisted on.
InsistBeside(n, l) ==
    Node(n.positive_constraints \cup {l},
         n.negative_constraints \cup (Implications(l) \ {l}))

\* The node that insists on l as well.
Insist(n, l) ==
    Node({k \in n.positive_constraints : k[1] # l[1]} \cup {l},
         n.negative_constraints \cup (Implications(l) \ {l}))

\* The top of the heap is cheapest, and has the fewest conflicts of these.
\* (Who has somebody unallocated comes last; only the root can be such.)
Best(n) ==
    \A m \in priority_queue \ {n} :
        \/ Cost(n) < Cost(m)
        \/ Cost(n) = Cost(m) /\ Cardinality(Conflicts(n)) <= Cardinality(Conflicts(m))

Root == Node({}, {})

GreedyInit ==
    /\ priority_queue = {Root}
    /\ explored = {}
    /\ solution = Root
    /\ options = {}
    /\ assignments = Root.allocation
    /\ outcome = "pop"

\* The node popped is solved: it is allocated once more, and returned.  (Only
\* the root can be: other nodes are looked at before they are queued.)
ReturnPopped ==
    /\ outcome = "pop"
    /\ \E n \in priority_queue :
          /\ Best(n)
          /\ Solved(n)
          /\ assignments' = n.allocation
    /\ outcome' = "Optimal"
    /\ UNCHANGED <<problemVars, priority_queue, explored, solution, options>>

\* It is not: whatever a conflict forbids may be insisted on.
Expand ==
    /\ outcome = "pop"
    /\ \E n \in priority_queue :
          /\ Best(n)
          /\ ~Solved(n)
          /\ solution' = n
          /\ priority_queue' = priority_queue \ {n}
          /\ options' = UNION {Implications(l) : l \in Conflicts(n)}
    /\ outcome' = "expand"
    /\ UNCHANGED <<problemVars, explored, assignments>>

\* An option under which everybody gets something.  If it is solved it is
\* returned at once, whatever is on the heap.
TryOption(l) ==
    /\ outcome = "expand"
    /\ l \in options
    /\ \E child \in {Insist(solution, l)} :
          /\ Unallocated(child) = {}
          /\ assignments' = child.allocation
          /\ priority_queue' = priority_queue \cup ({child} \ explored)
          /\ explored' = explored \cup {child}
          /\ outcome' = IF Solved(child) THEN "Optimal" ELSE "expand"
    /\ options' = options \ {l}
    /\ UNCHANGED <<problemVars, solution>>

\* An option that starves somebody.  What it goes back to is looked at, but
\* never put on the heap.
StepBack(l) ==
    /\ outcome = "expand"
    /\ l \in options
    /\ \E child \in {Insist(solution, l)} :
          /\ Unallocated(child) # {}
          /\ \E back \in {Backtrack(child)} :
                /\ assignments' = back.allocation
                /\ explored' = explored \cup {back, child}
                /\ outcome' = IF Solved(back) THEN "Optimal" ELSE "expand"
    /\ options' = options \ {l}
    /\ UNCHANGED <<problemVars, priority_queue, solution>>

NextNode ==
    /\ outcome = "expand"
    /\ options = {}
    /\ outcome' = "pop"
    /\ UNCHANGED <<problemVars, priority_queue, explored, solution, options, assignments>>

GiveUp ==
    /\ outcome = "pop"
    /\ priority_queue = {}
    /\ outcome' = "UnSolveable"
    /\ UNCHANGED <<problemVars, priority_queue, explored, solution, options, assignments>>

\* The stop flag is seen when a node is popped.  This too is reported as
\* UnSolveable; the model keeps the two apart.
Stop ==
    /\ outcome = "pop"
    /\ priority_queue # {}
    /\ outcome' = "stopped"
    /\ UNCHANGED <<problemVars, priority_queue, explored, solution, options, assignments>>

Search ==
    \/ ReturnPopped \/ Expand
    \/ \E l \in Literals : TryOption(l) \/ StepBack(l)
    \/ NextNode \/ GiveUp

Next == Search \/ Stop
-----------------------------------------------------------------------------
(* Properties.                                                             *)

\* Nodes are made by greedy_allocate, of constraints that do not clash: what is
\* insisted on is insisted on for one alternative, and is what is allocated.
Allocations == [Requests -> (UNION {Alternatives[r] : r \in Requests}) \cup {None}]

IsNode(n) ==
    /\ n.positive_constraints \subseteq Literals \cap Given(n)
    /\ n.negative_constraints \subseteq Literals
    /\ n.allocation \in Allocations
    /\ \A r \in Requests : n.allocation[r] \in Alternatives[r] \cup {None}

GreedyTypeOK ==
    /\ \A n \in priority_queue \cup explored \cup {solution} : IsNode(n)
    /\ options \subseteq Literals
    /\ assignments \in Allocations
    /\ outcome \in {"pop", "expand", "stopped", "Optimal", "UnSolveable"}

\* Everybody has an alternative, and no two conflict.
Serves(c) ==
    /\ \A r \in Requests : c[r] \in Alternatives[r]
    /\ \A r, q \in Requests : r # q => <<<<r, c[r]>>, <<q, c[q]>>>> \notin conflict_sets

\* The vector that is returned serves everybody without a conflict, although
\* every node of the search has written to it.
AnswerServesAll == outcome = "Optimal" => Serves(assignments)

\* The search gives up only when there is nothing to find, although the nodes
\* that starve somebody, and those it steps back to, are dropped.
GivesUpRightly ==
    outcome = "UnSolveable" => \A c \in Allocations : ~Serves(c)

\* The search ends, whatever it queues, and however often it steps back.
GreedyTerminates == <>(outcome \notin {"pop", "expand"})
=============================================================================
