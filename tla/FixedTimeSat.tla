----------------------------- MODULE FixedTimeSat -----------------------------
(***************************************************************************)
(* FixedTimeSATSolver::from_hill_climber_with_optimality_proof of          *)
(* src/algorithms/sat.rs: a hill climb over assignments of one alternative *)
(* per request.  Every assignment it visits adds a clause to the formula;  *)
(* when the formula has no model left, the best assignment so far is       *)
(* reported as optimal.                                                    *)
(*                                                                         *)
(* varisat, the SAT solver, is external: it returns any model there is.    *)
(* The total of an assignment is a parameter, Total: the code adds up the  *)
(* scores of its alternatives.  Scores are finite.                         *)
(***************************************************************************)
EXTENDS Naturals

CONSTANTS
    Requests,       \* the requests of the problem
    Alternatives,   \* per request: its alternatives
    Scores,         \* the scores alternatives can have
    ConflictSets,   \* the conflict relations a problem can have
    Infinity,       \* f64::INFINITY
    Total(_, _)     \* Total(score, c): the score of assignment c

Literals == UNION {{r} \X Alternatives[r] : r \in Requests}

\* One alternative per request, whether or not they conflict.
Assignments ==
    {c \in [Requests -> UNION {Alternatives[r] : r \in Requests}] :
        \A r \in Requests : c[r] \in Alternatives[r]}

\* What the sum of scores is used for: an assignment in which no alternative
\* is cheaper than its counterpart is not cheaper as a whole.
ASSUME TotalAssumption ==
    \A score \in [Literals -> Scores] : \A c \in Assignments :
        /\ Total(score, c) \in Nat
        /\ Total(score, c) < Infinity
        /\ \A d \in Assignments :
              (\A r \in Requests : score[<<r, c[r]>>] <= score[<<r, d[r]>>])
              => Total(score, c) <= Total(score, d)

ASSUME ProblemAssumption ==
    /\ Scores \subseteq Nat
    /\ Infinity \in Nat
    /\ \A conflicts \in ConflictSets : conflicts \subseteq Literals \X Literals

VARIABLES
    score,              \* the problem: a score for each alternative,
    conflicts,          \* and the pairs that must not be chosen together
    clauses,            \* the clauses learned so far
    bound,              \* score of the best assignment
    best_assignment,    \* empty before the first one
    verdict             \* "open" while the loop runs, then how it ended

problemVars == <<score, conflicts>>
vars == <<problemVars, clauses, bound, best_assignment, verdict>>

\* A clause: some literal of pos is chosen or some literal of neg is not.
Clause(p, n) == [pos |-> p, neg |-> n]

Chosen(c, l) == c[l[1]] = l[2]

Satisfies(c, clause) ==
    \/ \E l \in clause.pos : Chosen(c, l)
    \/ \E l \in clause.neg : ~Chosen(c, l)

\* The formula built before the loop: one alternative per request, and no two
\* of different requests that conflict.
Feasible(c) ==
    /\ c \in Assignments
    /\ \A r, q \in Requests : r # q => <<<<r, c[r]>>, <<q, c[q]>>>> \notin conflicts

Models == {c \in Assignments : Feasible(c) /\ \A clause \in clauses : Satisfies(c, clause)}

Init ==
    /\ score \in [Literals -> Scores]
    /\ conflicts \in ConflictSets
    /\ clauses = {}
    /\ bound = Infinity
    /\ best_assignment = <<>>
    /\ verdict = "open"

\* Mutant of Cheaper: only the next cheaper alternative is looked at.
CheaperNext(c) ==
    Clause({l \in Literals : score[l] + 1 = score[<<l[1], c[l[1]]>>]}, {})

\* "For the next solution at least one of the assignments has to be cheaper".
Cheaper(c) ==
    Clause({l \in Literals : score[l] < score[<<l[1], c[l[1]]>>]}, {})

\* Mutant of Eliminated: none of the alternatives may be chosen again.
EliminatedEach(c) == {Clause({}, {l}) : l \in {<<r, c[r]>> : r \in Requests}}

\* Mutant of Eliminated: the literals with the wrong sign.
EliminatedFlipped(c) == {Clause({<<r, c[r]>> : r \in Requests}, {})}

\* Eliminate option: not exactly this assignment again.
Eliminated(c) == {Clause({}, {<<r, c[r]>> : r \in Requests})}

\* A model that beats the bound: it is sent as a PartialSolution.
Improve ==
    /\ verdict = "open"
    /\ \E c \in Models :
          /\ Total(score, c) < bound
          /\ bound' = Total(score, c)
          /\ best_assignment' = c
          /\ clauses' = clauses \cup {Cheaper(c)}
    /\ UNCHANGED <<problemVars, verdict>>

\* A model that does not.
Eliminate ==
    /\ verdict = "open"
    /\ \E c \in Models :
          /\ Total(score, c) >= bound
          /\ clauses' = clauses \cup Eliminated(c)
    /\ UNCHANGED <<problemVars, bound, best_assignment, verdict>>

\* No model is left.  With an empty best assignment the answer is UnSolveable,
\* also for a problem without requests, whose only assignment is empty.
Conclude ==
    /\ verdict = "open"
    /\ Models = {}
    /\ verdict' = IF best_assignment = <<>> THEN "UnSolveable" ELSE "Optimal"
    /\ UNCHANGED <<problemVars, clauses, bound, best_assignment>>

\* The stop flag is seen at the head of the loop: it returns without a word.
Stop ==
    /\ verdict = "open"
    /\ verdict' = "stopped"
    /\ UNCHANGED <<problemVars, clauses, bound, best_assignment>>

Climb == Improve \/ Eliminate \/ Conclude
Next == Climb \/ Stop

Spec == Init /\ [][Next]_vars
-----------------------------------------------------------------------------
(* Properties.                                                             *)

SatTypeOK ==
    /\ score \in [Literals -> Scores]
    /\ conflicts \in ConflictSets
    /\ clauses \subseteq [pos : SUBSET Literals, neg : SUBSET Literals]
    /\ bound \in 0..Infinity
    /\ best_assignment \in Assignments \cup {<<>>}
    /\ verdict \in {"open", "stopped", "Optimal", "UnSolveable"}

\* The learned clauses never rule out an assignment that is cheaper than the
\* best one found: neither the demand that something be cheaper nor the
\* eliminations of dearer assignments cut off a better one.
NothingBetterRuledOut ==
    \A c \in Assignments :
        Feasible(c) /\ Total(score, c) < bound =>
            \A clause \in clauses : Satisfies(c, clause)

\* What is reported as an OptimalSolution is free of conflicts and as cheap as
\* any assignment that is; UnSolveable means that there is none.
ConcludedOptimal ==
    /\ verdict = "Optimal" =>
          /\ Feasible(best_assignment)
          /\ \A c \in Assignments : Feasible(c) => Total(score, best_assignment) <= Total(score, c)
    /\ verdict = "UnSolveable" /\ Requests # {} => \A c \in Assignments : ~Feasible(c)

\* The loop ends: every round rules out the assignment it visited.
Terminates == <>(verdict # "open")
=============================================================================
