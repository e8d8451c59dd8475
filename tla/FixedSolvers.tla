----------------------------- MODULE FixedSolvers -----------------------------
(***************************************************************************)
(* The two solver threads of the fixed-time pool, the hill climb and the   *)
(* greedy search, at work on the same problem.  They share nothing else    *)
(* but the stop flag, which either may see up at any time: who raises it   *)
(* is the subject of AsyncExecutor.                                        *)
(***************************************************************************)
EXTENDS FixedTimeSat, FiniteSets

CONSTANT None   \* what the greedy search gives to who gets nothing

\* Alternatives are numbered, as in the request; None is no number.
ASSUME NumberAssumption ==
    /\ \A r \in Requests : Alternatives[r] \subseteq Nat
    /\ None \notin Nat

\* A problem is finite, and generate_literals_and_remap_requests enters each
\* conflict under both of its sides, which are never the same alternative.
ASSUME ConflictsAssumption ==
    /\ IsFiniteSet(Literals)
    /\ \A C \in ConflictSets : \A l, k \in Literals :
          <<l, k>> \in C => l # k /\ <<k, l>> \in C

VARIABLES priority_queue, explored, solution, options, assignments, outcome

Greedy == INSTANCE GreedySolver WITH conflict_sets <- conflicts

climbVars == <<clauses, bound, best_assignment, verdict>>
greedyVars == <<priority_queue, explored, solution, options, assignments, outcome>>
solverVars == <<vars, greedyVars>>

SolversInit == Init /\ Greedy!GreedyInit

SatThread == Climb /\ UNCHANGED greedyVars
GreedyThread == Greedy!Search /\ UNCHANGED climbVars
Stopped ==
    \/ Stop /\ UNCHANGED greedyVars
    \/ Greedy!Stop /\ UNCHANGED climbVars

SolversNext == SatThread \/ GreedyThread \/ Stopped

\* Both threads run; nobody need ever ask them to stop.
SolversSpec ==
    /\ SolversInit /\ [][SolversNext]_solverVars
    /\ WF_solverVars(SatThread) /\ WF_solverVars(GreedyThread)
-----------------------------------------------------------------------------
(* Properties.                                                             *)

SolversTypeOK == SatTypeOK /\ Greedy!GreedyTypeOK

\* What the greedy thread sends serves everybody, without a conflict: the vector
\* of assignments, which all nodes share, is that of the node it ended on.
AnswerServesAll == Greedy!AnswerServesAll

\* It sends UnSolveable only when no assignment serves everybody.
GivesUpRightly == Greedy!GivesUpRightly

\* Each thread ends, whatever the other does.
SolversEnd == Terminates /\ Greedy!GreedyTerminates
=============================================================================
