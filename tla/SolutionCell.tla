---------------------------- MODULE SolutionCell ----------------------------
(***************************************************************************)
(* What an AsyncExecutor promises the reservation systems that own one     *)
(* (src/algorithms/mod.rs), without its threads, flags and channels.       *)
(*                                                                         *)
(* Every snapshot handed to attempt_solve starts a numbered solve.  The    *)
(* solves that are still alive share ONE cell, `solution`, which any of    *)
(* them may overwrite, whichever snapshot it works on.  A solve that has   *)
(* retired never writes again, and a solve whose snapshot has been         *)
(* superseded is obliged to retire.                                        *)
(***************************************************************************)
EXTENDS Naturals

CONSTANT MaxSolves      \* bound on the calls of attempt_solve

ASSUME SolvesAssumption == MaxSolves \in Nat

Solves == 1..MaxSolves

\* The variants of AlgorithmState; a solver thread publishes the first four.
PublishedKinds == {"Feasible", "Optimal", "Partial", "UnSolveable"}
Kinds == PublishedKinds \cup {"NotFound"}

\* What the cell holds: a kind of answer and the solve whose requests it
\* is about.
Answer == [kind : Kinds, solve : 0..MaxSolves]
NoAnswer == [kind |-> "NotFound", solve |-> 0]

VARIABLES
    latest,     \* number of the newest snapshot, 0 before the first one
    live,       \* the solves that may still write the cell
    answer      \* contents of the shared cell

cellVars == <<latest, live, answer>>

CellTypeOK ==
    /\ latest \in 0..MaxSolves
    /\ live \subseteq 1..latest
    /\ answer \in Answer

CellInit ==
    /\ latest = 0
    /\ live = {}
    /\ answer = NoAnswer

\* attempt_solve: a new snapshot is solved beside whatever is still alive.
\* The cell is neither cleared nor replaced.
NewSnapshot ==
    /\ latest < MaxSolves
    /\ latest' = latest + 1
    /\ live' = live \cup {latest + 1}
    /\ UNCHANGED answer

\* A live solve, superseded or not, overwrites the cell.
Publish(s) ==
    /\ s \in live
    /\ \E k \in PublishedKinds : answer' = [kind |-> k, solve |-> s]
    /\ UNCHANGED <<latest, live>>

\* A solve ends and drops its handle on the cell.
Retire(s) ==
    /\ s \in live
    /\ live' = live \ {s}
    /\ UNCHANGED <<latest, answer>>

CellNext ==
    \/ NewSnapshot
    \/ \E s \in Solves : Publish(s) \/ Retire(s)

CellSpec == CellInit /\ [][CellNext]_cellVars

\* A superseded solve must retire; the newest one need not.
CellFairSpec ==
    /\ CellSpec
    /\ \A s \in Solves : WF_cellVars(Retire(s) /\ s # latest)
=============================================================================
