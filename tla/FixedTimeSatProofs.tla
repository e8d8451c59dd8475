-------------------------- MODULE FixedTimeSatProofs --------------------------
(***************************************************************************)
(* The hill climb of FixedTimeSat is right for every problem: what it      *)
(* reports as optimal is optimal, and it reports UnSolveable only when     *)
(* there is no assignment.  The inductive invariant Inv adds to the        *)
(* properties what the bound stands for, BoundOfBest: the clauses are      *)
(* sound because every assignment they were learned from scores at least   *)
(* the bound.                                                              *)
(***************************************************************************)
EXTENDS FixedTimeSat, TLAPS

\* The bound is the score of the best assignment, once there is one.
BoundOfBest ==
    \/ bound = Infinity /\ best_assignment = <<>>
    \/ Feasible(best_assignment) /\ bound = Total(score, best_assignment)

Inv ==
    /\ SatTypeOK
    /\ BoundOfBest
    /\ NothingBetterRuledOut
    /\ ConcludedOptimal
-----------------------------------------------------------------------------
(* Literals and assignments.                                               *)

LEMMA ChosenLiteral ==
    ASSUME NEW c \in Assignments, NEW r \in Requests
    PROVE  <<r, c[r]>> \in Literals
<1>1. c[r] \in Alternatives[r]
  BY DEF Assignments
<1>2. <<r, c[r]>> \in {r} \X Alternatives[r]
  BY <1>1
<1> QED
  BY <1>2 DEF Literals

LEMMA ScoreOfLiteral ==
    ASSUME score \in [Literals -> Scores], NEW l \in Literals
    PROVE  score[l] \in Nat
BY ProblemAssumption

LEMMA TotalOfAssignment ==
    ASSUME score \in [Literals -> Scores], NEW c \in Assignments
    PROVE  Total(score, c) \in Nat /\ Total(score, c) < Infinity
BY TotalAssumption

\* The clause learned from b lets every cheaper assignment through.
LEMMA CheaperIsSound ==
    ASSUME score \in [Literals -> Scores],
           NEW b \in Assignments, NEW c \in Assignments,
           Total(score, c) < Total(score, b)
    PROVE  Satisfies(c, Cheaper(b))
<1>1. PICK r \in Requests : ~(score[<<r, b[r]>>] <= score[<<r, c[r]>>])
  <2>1. ~(Total(score, b) <= Total(score, c))
    BY TotalOfAssignment
  <2> QED
    BY <2>1, TotalAssumption
<1> DEFINE l == <<r, c[r]>>
<1>2. l \in Literals
  BY ChosenLiteral
<1>3. score[l] < score[<<r, b[r]>>]
  BY <1>1, ScoreOfLiteral, ChosenLiteral
<1>4. l \in Cheaper(b).pos
  BY <1>2, <1>3 DEF Cheaper, Clause
<1>5. Chosen(c, l)
  BY DEF Chosen
<1> QED
  BY <1>4, <1>5 DEF Satisfies

\* The clause learned from e lets every other assignment through.
LEMMA EliminatedIsSound ==
    ASSUME NEW e \in Assignments, NEW c \in Assignments, c # e,
           NEW clause \in Eliminated(e)
    PROVE  Satisfies(c, clause)
<1>1. PICK r \in Requests : c[r] # e[r]
  BY DEF Assignments
<1>2. <<r, e[r]>> \in clause.neg
  BY DEF Eliminated, Clause
<1>3. ~Chosen(c, <<r, e[r]>>)
  BY <1>1 DEF Chosen
<1> QED
  BY <1>2, <1>3 DEF Satisfies

LEMMA ClausesTyped ==
    ASSUME NEW c \in Assignments
    PROVE  /\ Cheaper(c) \in [pos : SUBSET Literals, neg : SUBSET Literals]
           /\ Eliminated(c) \subseteq [pos : SUBSET Literals, neg : SUBSET Literals]
<1>1. {<<r, c[r]>> : r \in Requests} \in SUBSET Literals
  BY ChosenLiteral
<1> QED
  BY <1>1 DEF Cheaper, Eliminated, Clause
-----------------------------------------------------------------------------
(* The invariant.                                                          *)

LEMMA InitInv == Init => Inv
<1> SUFFICES ASSUME Init PROVE Inv
  OBVIOUS
<1>1. SatTypeOK
  BY ProblemAssumption DEF Init, SatTypeOK
<1>2. BoundOfBest
  BY DEF Init, BoundOfBest
<1>3. NothingBetterRuledOut
  BY DEF Init, NothingBetterRuledOut
<1>4. ConcludedOptimal
  BY DEF Init, ConcludedOptimal
<1> QED
  BY <1>1, <1>2, <1>3, <1>4 DEF Inv

LEMMA ImproveStep == ASSUME Inv, Improve PROVE Inv'
<1> USE DEF Inv, problemVars
<1>1. PICK c \in Models :
         /\ Total(score, c) < bound
         /\ bound' = Total(score, c)
         /\ best_assignment' = c
         /\ clauses' = clauses \cup {Cheaper(c)}
  BY DEF Improve
<1>2. UNCHANGED <<score, conflicts, verdict>> /\ verdict = "open"
  BY DEF Improve
<1>3. c \in Assignments /\ Feasible(c)
  BY DEF Models
<1>4. score \in [Literals -> Scores]
  BY DEF SatTypeOK
<1>5. Total(score, c) \in Nat /\ Total(score, c) < Infinity
  BY <1>3, <1>4, TotalOfAssignment
<1>6. SatTypeOK'
  BY <1>1, <1>2, <1>3, <1>5, ClausesTyped, ProblemAssumption DEF SatTypeOK
<1>7. BoundOfBest'
  BY <1>1, <1>2, <1>3 DEF BoundOfBest, Feasible
<1>8. NothingBetterRuledOut'
  <2> SUFFICES ASSUME NEW d \in Assignments, Feasible(d), Total(score, d) < Total(score, c),
                      NEW clause \in clauses \cup {Cheaper(c)}
               PROVE  Satisfies(d, clause)
    BY <1>1, <1>2 DEF NothingBetterRuledOut, Feasible
  <2>1. CASE clause \in clauses
    <3>1. Total(score, d) \in Nat /\ bound \in Nat
      BY <1>4, TotalOfAssignment, ProblemAssumption DEF SatTypeOK
    <3>2. Total(score, d) < bound
      BY <3>1, <1>1, <1>5
    <3> QED
      BY <2>1, <3>2 DEF NothingBetterRuledOut
  <2>2. CASE clause = Cheaper(c)
    BY <2>2, <1>3, <1>4, CheaperIsSound
  <2> QED
    BY <2>1, <2>2
<1>9. ConcludedOptimal'
  BY <1>2 DEF ConcludedOptimal
<1> QED
  BY <1>6, <1>7, <1>8, <1>9

LEMMA EliminateStep == ASSUME Inv, Eliminate PROVE Inv'
<1> USE DEF Inv, problemVars
<1>1. PICK e \in Models :
         /\ Total(score, e) >= bound
         /\ clauses' = clauses \cup Eliminated(e)
  BY DEF Eliminate
<1>2. UNCHANGED <<score, conflicts, bound, best_assignment, verdict>> /\ verdict = "open"
  BY DEF Eliminate
<1>3. e \in Assignments
  BY DEF Models
<1>4. score \in [Literals -> Scores] /\ bound \in Nat
  BY ProblemAssumption DEF SatTypeOK
<1>5. SatTypeOK'
  BY <1>1, <1>2, <1>3, ClausesTyped DEF SatTypeOK
<1>6. BoundOfBest'
  BY <1>2 DEF BoundOfBest, Feasible
<1>7. NothingBetterRuledOut'
  <2> SUFFICES ASSUME NEW d \in Assignments, Feasible(d), Total(score, d) < bound,
                      NEW clause \in clauses \cup Eliminated(e)
               PROVE  Satisfies(d, clause)
    BY <1>1, <1>2 DEF NothingBetterRuledOut, Feasible
  <2>1. CASE clause \in clauses
    BY <2>1 DEF NothingBetterRuledOut
  <2>2. CASE clause \in Eliminated(e)
    <3>1. Total(score, d) \in Nat /\ Total(score, e) \in Nat
      BY <1>3, <1>4, TotalOfAssignment
    <3>2. d # e
      BY <3>1, <1>1, <1>4
    <3> QED
      BY <2>2, <3>2, <1>3, EliminatedIsSound
  <2> QED
    BY <2>1, <2>2
<1>8. ConcludedOptimal'
  BY <1>2 DEF ConcludedOptimal
<1> QED
  BY <1>5, <1>6, <1>7, <1>8

\* An assignment has its requests as domain.
LEMMA EmptyIsNoAssignment ==
    ASSUME Requests # {} PROVE <<>> \notin Assignments
<1>1. DOMAIN <<>> = {}
  OBVIOUS
<1>2. \A c \in Assignments : DOMAIN c = Requests
  BY DEF Assignments
<1> QED
  BY <1>1, <1>2

LEMMA ConcludeStep == ASSUME Inv, Conclude PROVE Inv'
<1> USE DEF Inv, problemVars
<1>1. UNCHANGED <<score, conflicts, clauses, bound, best_assignment>>
  BY DEF Conclude
<1>2. verdict' = IF best_assignment = <<>> THEN "UnSolveable" ELSE "Optimal"
  BY DEF Conclude
<1>3. score \in [Literals -> Scores] /\ bound \in Nat
  BY ProblemAssumption DEF SatTypeOK
<1>4. ASSUME NEW c \in Assignments, Feasible(c) PROVE bound <= Total(score, c)
  <2>1. ~(Total(score, c) < bound)
    BY <1>4 DEF Conclude, Models, NothingBetterRuledOut
  <2> QED
    BY <2>1, <1>3, TotalOfAssignment
<1>5. CASE best_assignment # <<>>
  <2>1. Feasible(best_assignment) /\ bound = Total(score, best_assignment)
    BY <1>5 DEF BoundOfBest
  <2> QED
    BY <2>1, <1>1, <1>2, <1>4, <1>5
    DEF SatTypeOK, BoundOfBest, NothingBetterRuledOut, ConcludedOptimal, Feasible
<1>6. CASE best_assignment = <<>>
  <2>1. ASSUME Requests # {}, NEW c \in Assignments, Feasible(c) PROVE FALSE
    <3>1. ~Feasible(best_assignment)
      BY <1>6, <2>1, EmptyIsNoAssignment DEF Feasible
    <3>2. bound = Infinity
      BY <3>1 DEF BoundOfBest
    <3>3. Infinity <= Total(score, c)
      BY <2>1, <1>4, <3>2
    <3> QED
      BY <3>3, <1>3, TotalOfAssignment, ProblemAssumption
  <2> QED
    BY <2>1, <1>1, <1>2, <1>6
    DEF SatTypeOK, BoundOfBest, NothingBetterRuledOut, ConcludedOptimal, Feasible
<1> QED
  BY <1>5, <1>6

LEMMA StopStep == ASSUME Inv, Stop PROVE Inv'
BY DEF Inv, Stop, problemVars, SatTypeOK, BoundOfBest, NothingBetterRuledOut, ConcludedOptimal, Feasible

\* The inductive invariant of the hill climb.
THEOREM SatInvariant == Spec => []Inv
<1>1. Inv /\ UNCHANGED vars => Inv'
  BY DEF Inv, vars, problemVars, SatTypeOK, BoundOfBest, NothingBetterRuledOut, ConcludedOptimal, Feasible
<1>2. Inv /\ [Next]_vars => Inv'
  BY <1>1, ImproveStep, EliminateStep, ConcludeStep, StopStep DEF Next, Climb
<1> QED
  BY <1>2, InitInv, PTL DEF Spec

\* Clauses, bound and best assignment keep their types.
THEOREM SatTypeCorrect == Spec => []SatTypeOK
<1>1. Inv => SatTypeOK
  BY DEF Inv
<1> QED
  BY <1>1, SatInvariant, PTL

\* The learned clauses never cut off an assignment better than the best found.
THEOREM ClausesAreSound == Spec => []NothingBetterRuledOut
<1>1. Inv => NothingBetterRuledOut
  BY DEF Inv
<1> QED
  BY <1>1, SatInvariant, PTL

\* An assignment reported as optimal is optimal, and a problem reported as
\* unsolveable has no assignment, for every problem and every score.
THEOREM OptimalIsOptimal == Spec => []ConcludedOptimal
<1>1. Inv => ConcludedOptimal
  BY DEF Inv
<1> QED
  BY <1>1, SatInvariant, PTL
-----------------------------------------------------------------------------
(* Progress: what the end of the loop rests on.                            *)

\* Every round that goes on learns something: a model it could visit is gone,
\* and none that was gone comes back.
NoModelTwice ==
    [][/\ Models' \subseteq Models
       /\ verdict' = "open" => Models' # Models]_vars

\* The clause learned from an assignment excludes that assignment.
LEMMA CheaperExcludes ==
    ASSUME score \in [Literals -> Scores], NEW c \in Assignments
    PROVE  ~Satisfies(c, Cheaper(c))
<1> SUFFICES ASSUME Satisfies(c, Cheaper(c)) PROVE FALSE
  OBVIOUS
<1>1. PICK l \in Literals : score[l] < score[<<l[1], c[l[1]]>>] /\ Chosen(c, l)
  BY DEF Satisfies, Cheaper, Clause
<1>2. l = <<l[1], c[l[1]]>>
  BY <1>1 DEF Literals, Chosen
<1>3. score[l] \in Nat
  BY ScoreOfLiteral
<1> QED
  BY <1>1, <1>2, <1>3

LEMMA EliminatedExcludes ==
    ASSUME NEW c \in Assignments
    PROVE  \A clause \in Eliminated(c) : ~Satisfies(c, clause)
BY DEF Satisfies, Eliminated, Clause, Chosen

\* More clauses leave fewer models.
LEMMA FewerModels ==
    ASSUME UNCHANGED <<score, conflicts>>, clauses \subseteq clauses'
    PROVE  Models' \subseteq Models
BY DEF Models, Feasible

\* No assignment is visited twice: improving on the best one excludes it as
\* well as eliminating one that is no better does, for every problem.  That
\* the loop ends follows, as there are finitely many assignments.
THEOREM NeverVisitsTwice == Spec => NoModelTwice
<1>1. ASSUME Inv, Next PROVE Models' \subseteq Models /\ (verdict' = "open" => Models' # Models)
  <2>1. CASE Improve
    <3>1. PICK c \in Models : clauses' = clauses \cup {Cheaper(c)}
      BY <2>1 DEF Improve
    <3>2. UNCHANGED <<score, conflicts>>
      BY <2>1 DEF Improve, problemVars
    <3>3. ~Satisfies(c, Cheaper(c))
      BY <1>1, CheaperExcludes DEF Models, Inv, SatTypeOK
    <3>4. c \notin Models'
      BY <3>1, <3>3 DEF Models
    <3> QED
      BY <3>1, <3>2, <3>4, FewerModels
  <2>2. CASE Eliminate
    <3>1. PICK c \in Models : clauses' = clauses \cup Eliminated(c)
      BY <2>2 DEF Eliminate
    <3>2. UNCHANGED <<score, conflicts>>
      BY <2>2 DEF Eliminate, problemVars
    <3>3. PICK clause \in Eliminated(c) : ~Satisfies(c, clause)
      BY EliminatedExcludes DEF Models, Eliminated
    <3>4. c \notin Models'
      BY <3>1, <3>3 DEF Models
    <3> QED
      BY <3>1, <3>2, <3>4, FewerModels
  <2>3. CASE Conclude \/ Stop
    <3>1. UNCHANGED <<score, conflicts, clauses>> /\ verdict' # "open"
      BY <2>3 DEF Conclude, Stop, problemVars
    <3> QED
      BY <3>1, FewerModels
  <2> QED
    BY <1>1, <2>1, <2>2, <2>3 DEF Next, Climb
<1> QED
  BY <1>1, SatInvariant, PTL DEF Spec, NoModelTwice
=============================================================================
