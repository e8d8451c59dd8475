--------------------------- MODULE FixedSolversProofs ---------------------------
(***************************************************************************)
(* The two solver threads of FixedSolvers, for every problem.  Together    *)
(* they still run the hill climb of FixedTimeSat, so that its theorems     *)
(* hold beside the greedy search; the greedy search answers only with      *)
(* assignments that serve everybody, and gives up only if there is none.   *)
(***************************************************************************)
EXTENDS FixedSolvers, FixedTimeSatProofs, FiniteSetTheorems, WellFoundedInduction

\* One alternative of a request at most.
Functional(p) == \A k, l \in p : k[1] = l[1] => k = l
-----------------------------------------------------------------------------
(* Numbers and literals.                                                   *)

\* There is a smallest number in a set of numbers that is not empty.
LEMMA Smallest ==
    ASSUME NEW T \in SUBSET Nat, T # {}
    PROVE  \E x \in T : \A y \in T : x <= y
<1>1. PICK n \in T : TRUE
  OBVIOUS
<1> DEFINE S == 0..n
           Sets == {0..x : x \in T \cap S}
           R == StrictSubsetOrdering(S)
<1>2. IsWellFoundedOn(R, FiniteSubsetsOf(S))
  BY FS_StrictSubsetOrderingWellFounded
<1>3. Sets \subseteq FiniteSubsetsOf(S)
  <2> SUFFICES ASSUME NEW x \in T \cap S PROVE 0..x \in FiniteSubsetsOf(S)
    OBVIOUS
  <2>1. IsFiniteSet(0..x)
    BY FS_Interval
  <2>2. 0..x \subseteq 0..n
    OBVIOUS
  <2> QED
    BY <2>1, <2>2 DEF FiniteSubsetsOf
<1>4. PICK E \in Sets : \A F \in Sets : <<F, E>> \notin R
  <2>1. 0..n \in Sets
    BY <1>1
  <2> HIDE DEF Sets, R, S
  <2> QED
    BY <1>2, <1>3, <2>1, WFMin
<1>5. PICK x \in T \cap S : E = 0..x
  OBVIOUS
<1>6. ASSUME NEW y \in T, y < x PROVE FALSE
  <2>1. y \in T \cap S /\ 0..y \in Sets
    BY <1>6
  <2>2. 0..y \subseteq 0..x /\ 0..x \subseteq S /\ 0..y # 0..x
    BY <1>6
  <2>3. <<0..y, 0..x>> \in R
    BY <2>2 DEF StrictSubsetOrdering
  <2> QED
    BY <1>4, <1>5, <2>1, <2>3
<1> QED
  BY <1>6

LEMMA LiteralType ==
    ASSUME NEW l \in Literals
    PROVE  l[1] \in Requests /\ l[2] \in Alternatives[l[1]] /\ l[2] \in Nat /\ l = <<l[1], l[2]>>
BY NumberAssumption DEF Literals

\* The greedy search and the hill climb speak of the same literals.
LEMMA SameLiterals == Greedy!Literals = Literals
BY DEF Greedy!Literals, Literals

\* The first of the cheapest alternatives of a request is one of them, and none
\* is cheaper.
LEMMA CheapestIsOne ==
    ASSUME score \in [Literals -> Scores], NEW r, NEW S \in SUBSET Literals, S # {},
           \A l \in S : l[1] = r
    PROVE  Greedy!Cheapest(S) \in S /\ \A j \in S : score[Greedy!Cheapest(S)] <= score[j]
<1> DEFINE Costs == {score[l] : l \in S}
<1>1. Costs \in SUBSET Nat /\ Costs # {}
  BY ProblemAssumption
<1>2. PICK l \in S : \A k \in S : score[l] <= score[k]
  <2> HIDE DEF Costs
  <2>1. PICK c \in Costs : \A d \in Costs : c <= d
    BY <1>1, Smallest
  <2> QED
    BY <2>1 DEF Costs
<1> DEFINE Firsts == {k[2] : k \in {j \in S : score[j] = score[l]}}
<1>3. Firsts \in SUBSET Nat /\ Firsts # {}
  BY LiteralType
<1>4. PICK k \in S : score[k] = score[l] /\ \A j \in S : score[j] = score[l] => k[2] <= j[2]
  <2> HIDE DEF Firsts
  <2>1. PICK c \in Firsts : \A d \in Firsts : c <= d
    BY <1>3, Smallest
  <2> QED
    BY <2>1 DEF Firsts
<1>5. \A j \in S : score[j] \in Nat
  BY ProblemAssumption
<1> DEFINE First(i) == \A j \in S : score[i] < score[j] \/ (score[i] = score[j] /\ i[2] <= j[2])
<1>6. First(k)
  BY <1>2, <1>4, <1>5
<1>7. Greedy!Cheapest(S) = CHOOSE i \in S : First(i)
  BY DEF Greedy!Cheapest
<1> HIDE DEF First
<1>8. Greedy!Cheapest(S) \in S /\ First(Greedy!Cheapest(S))
  BY <1>6, <1>7
<1> QED
  BY <1>5, <1>8 DEF First
-----------------------------------------------------------------------------
(* Nodes.                                                                  *)

\* What a request is allocated: what is insisted on for it, if anything is.
LEMMA AllocatedType ==
    ASSUME score \in [Literals -> Scores], NEW p \in SUBSET Literals, NEW n \in SUBSET Literals,
           NEW r \in Requests
    PROVE  /\ Greedy!Allocated(r, p, n)[1] = r
           /\ Greedy!Allocated(r, p, n)[2] \in Alternatives[r] \cup {None}
           /\ \A l \in p : l[1] = r => Greedy!Allocated(r, p, n) \in p
<1> DEFINE a == Greedy!Allocated(r, p, n)
           free == Greedy!Of(r, Literals) \ n
<1>1. CASE Greedy!Of(r, p) # {}
  <2>1. a = CHOOSE l \in Greedy!Of(r, p) : TRUE
    BY <1>1 DEF Greedy!Allocated
  <2>2. a \in Greedy!Of(r, p)
    BY <1>1, <2>1
  <2> QED
    BY <2>2, LiteralType DEF Greedy!Of
<1>2. CASE Greedy!Of(r, p) = {} /\ free # {}
  <2>1. a = Greedy!Cheapest(free)
    BY <1>2, SameLiterals DEF Greedy!Allocated
  <2>2. free \in SUBSET Literals /\ \A l \in free : l[1] = r
    BY DEF Greedy!Of
  <2>3. a \in free
    BY <1>2, <2>1, <2>2, CheapestIsOne
  <2> QED
    BY <1>2, <2>2, <2>3, LiteralType DEF Greedy!Of
<1>3. CASE Greedy!Of(r, p) = {} /\ free = {}
  <2>1. a = <<r, None>>
    BY <1>3, SameLiterals DEF Greedy!Allocated
  <2> QED
    BY <1>3, <2>1 DEF Greedy!Of
<1> QED
  BY <1>1, <1>2, <1>3

\* What greedy_allocate makes is a node.
LEMMA NodeIsNode ==
    ASSUME score \in [Literals -> Scores],
           NEW p \in SUBSET Literals, NEW n \in SUBSET Literals, Functional(p)
    PROVE  Greedy!IsNode(Greedy!Node(p, n))
<1> DEFINE node == Greedy!Node(p, n)
<1>1. /\ node.positive_constraints = p
      /\ node.negative_constraints = n
      /\ node.allocation = [r \in Requests |-> Greedy!Allocated(r, p, n)[2]]
  BY DEF Greedy!Node
<1> HIDE DEF node
<1>2. ASSUME NEW r \in Requests
      PROVE  node.allocation[r] \in Alternatives[r] \cup {None}
  <2>1. node.allocation[r] = Greedy!Allocated(r, p, n)[2]
    BY <1>1
  <2>2. Greedy!Allocated(r, p, n)[2] \in Alternatives[r] \cup {None}
    BY AllocatedType
  <2> QED
    BY <2>1, <2>2
<1>3. node.allocation \in Greedy!Allocations
  <2>1. ASSUME NEW r \in Requests
        PROVE  node.allocation[r] \in (UNION {Alternatives[q] : q \in Requests}) \cup {None}
    BY <1>2
  <2> QED
    BY <1>1, <2>1 DEF Greedy!Allocations
<1>4. p \subseteq Greedy!Given(node)
  <2> SUFFICES ASSUME NEW l \in p PROVE l \in Greedy!Given(node)
    OBVIOUS
  <2>1. l[1] \in Requests /\ l = <<l[1], l[2]>>
    BY LiteralType
  <2> DEFINE a == Greedy!Allocated(l[1], p, n)
  <2>2. a \in p /\ a[1] = l[1]
    BY <2>1, AllocatedType
  <2>3. a = l
    BY <2>2 DEF Functional
  <2>4. node.allocation[l[1]] = l[2]
    BY <1>1, <2>1, <2>3
  <2> QED
    BY <2>1, <2>4 DEF Greedy!Given
<1> QED
  BY <1>1, <1>2, <1>3, <1>4, SameLiterals DEF Greedy!IsNode, node

LEMMA NodeType ==
    ASSUME NEW n, Greedy!IsNode(n)
    PROVE  /\ n.positive_constraints \subseteq Literals
           /\ n.negative_constraints \subseteq Literals
           /\ Functional(n.positive_constraints)
           /\ n.allocation \in Greedy!Allocations
           /\ \A r \in Requests : n.allocation[r] \in Alternatives[r] \cup {None}
BY SameLiterals DEF Greedy!IsNode, Greedy!Given, Functional

LEMMA ImplicationsType == \A l \in Literals : Greedy!Implications(l) \subseteq Literals
BY SameLiterals DEF Greedy!Implications

LEMMA InsistIsNode ==
    ASSUME score \in [Literals -> Scores], NEW n, Greedy!IsNode(n), NEW l \in Literals
    PROVE  Greedy!IsNode(Greedy!Insist(n, l))
<1> DEFINE p == {k \in n.positive_constraints : k[1] # l[1]} \cup {l}
           m == n.negative_constraints \cup (Greedy!Implications(l) \ {l})
<1>1. p \in SUBSET Literals /\ Functional(p)
  BY NodeType DEF Functional
<1>2. m \in SUBSET Literals
  BY NodeType, ImplicationsType
<1>3. Greedy!Insist(n, l) = Greedy!Node(p, m)
  BY DEF Greedy!Insist
<1> HIDE DEF p, m
<1> QED
  BY <1>1, <1>2, <1>3, NodeIsNode

LEMMA BacktrackIsNode ==
    ASSUME score \in [Literals -> Scores], NEW n, Greedy!IsNode(n)
    PROVE  Greedy!IsNode(Greedy!Backtrack(n))
<1> DEFINE p == n.positive_constraints \ Greedy!Starving(n)
           m == (UNION {Greedy!Implications(l) : l \in p}) \cup (n.positive_constraints \ p)
<1>1. p \in SUBSET Literals /\ Functional(p)
  BY NodeType DEF Functional
<1>2. m \in SUBSET Literals
  <2>1. \A l \in p : Greedy!Implications(l) \subseteq Literals
    BY <1>1, ImplicationsType
  <2>2. n.positive_constraints \subseteq Literals
    BY NodeType
  <2>3. n.positive_constraints \ p \subseteq Literals
    BY <2>2
  <2> HIDE DEF p
  <2>4. UNION {Greedy!Implications(l) : l \in p} \subseteq Literals
    BY <2>1
  <2> QED
    BY <2>3, <2>4
<1>3. Greedy!Backtrack(n) = Greedy!Node(p, m)
  BY DEF Greedy!Backtrack
<1> HIDE DEF p, m
<1> QED
  BY <1>1, <1>2, <1>3, NodeIsNode

\* A node that is solved serves everybody.
LEMMA SolvedServes ==
    ASSUME NEW n, Greedy!IsNode(n), Greedy!Solved(n)
    PROVE  Greedy!Serves(n.allocation)
<1>1. \A r \in Requests : n.allocation[r] \in Alternatives[r]
  BY NodeType DEF Greedy!Solved, Greedy!Unallocated
<1>2. ASSUME NEW r \in Requests, NEW q \in Requests,
             <<<<r, n.allocation[r]>>, <<q, n.allocation[q]>>>> \in conflicts
      PROVE  FALSE
  <2>1. <<r, n.allocation[r]>> \in Greedy!Given(n) /\ <<q, n.allocation[q]>> \in Greedy!Given(n)
    BY DEF Greedy!Given
  <2>2. <<r, n.allocation[r]>> \in Greedy!Conflicts(n)
    BY <1>2, <2>1 DEF Greedy!Conflicts
  <2> QED
    BY <2>2 DEF Greedy!Solved
<1> QED
  BY <1>1, <1>2 DEF Greedy!Serves
-----------------------------------------------------------------------------
(* The greedy search.                                                      *)

\* Nodes are nodes, and the vector of an answer serves everybody.
GreedyInv ==
    /\ score \in [Literals -> Scores] /\ conflicts \in ConflictSets
    /\ Greedy!GreedyTypeOK
    /\ Greedy!AnswerServesAll

LEMMA GreedyInitInv == ASSUME SolversInit PROVE GreedyInv
<1>1. score \in [Literals -> Scores] /\ conflicts \in ConflictSets
  BY DEF SolversInit, Init
<1>2. Greedy!IsNode(Greedy!Root)
  BY <1>1, NodeIsNode DEF Greedy!Root, Functional
<1>3. Greedy!Root.allocation \in Greedy!Allocations
  BY <1>2, NodeType
<1> QED
  BY <1>1, <1>2, <1>3
  DEF SolversInit, Greedy!GreedyInit, GreedyInv, Greedy!GreedyTypeOK, Greedy!AnswerServesAll

\* What is a node does not depend on the search.
LEMMA NodesKeep ==
    ASSUME UNCHANGED <<score, conflicts>>, NEW n, Greedy!IsNode(n)
    PROVE  Greedy!IsNode(n)'
BY DEF Greedy!IsNode, Greedy!Given, Greedy!Literals, Greedy!Allocations

LEMMA ReturnPoppedStep == ASSUME GreedyInv, Greedy!ReturnPopped PROVE GreedyInv'
<1>1. PICK n \in priority_queue : Greedy!Solved(n) /\ assignments' = n.allocation
  BY DEF Greedy!ReturnPopped
<1>2. UNCHANGED <<score, conflicts, priority_queue, explored, solution, options>> /\ outcome' = "Optimal"
  BY DEF Greedy!ReturnPopped, Greedy!problemVars
<1>3. Greedy!IsNode(n)
  BY DEF GreedyInv, Greedy!GreedyTypeOK
<1>4. assignments' \in Greedy!Allocations
  BY <1>1, <1>3, NodeType
<1>5. Greedy!Serves(n.allocation)
  BY <1>1, <1>3, SolvedServes
<1>6. Greedy!GreedyTypeOK'
  BY <1>2, <1>4, NodesKeep DEF GreedyInv, Greedy!GreedyTypeOK, Greedy!Literals, Greedy!Allocations
<1>7. Greedy!AnswerServesAll'
  BY <1>1, <1>2, <1>5 DEF Greedy!AnswerServesAll, Greedy!Serves
<1> QED
  BY <1>2, <1>6, <1>7 DEF GreedyInv

LEMMA ExpandStep == ASSUME GreedyInv, Greedy!Expand PROVE GreedyInv'
<1>1. PICK n \in priority_queue :
         /\ solution' = n
         /\ priority_queue' = priority_queue \ {n}
         /\ options' = UNION {Greedy!Implications(l) : l \in Greedy!Conflicts(n)}
  BY DEF Greedy!Expand
<1>2. UNCHANGED <<score, conflicts, explored, assignments>> /\ outcome' = "expand"
  BY DEF Greedy!Expand, Greedy!problemVars
<1>3. options' \subseteq Literals
  <2> SUFFICES ASSUME NEW l \in Greedy!Conflicts(n) PROVE Greedy!Implications(l) \subseteq Literals
    BY <1>1
  <2>1. l \in Literals
    BY ProblemAssumption DEF Greedy!Conflicts, GreedyInv
  <2> QED
    BY <2>1, ImplicationsType
<1>4. Greedy!IsNode(n) /\ \A m \in priority_queue \cup explored : Greedy!IsNode(m)
  BY DEF GreedyInv, Greedy!GreedyTypeOK
<1>5. Greedy!GreedyTypeOK'
  BY <1>1, <1>2, <1>3, <1>4, NodesKeep, SameLiterals
  DEF GreedyInv, Greedy!GreedyTypeOK, Greedy!Literals, Greedy!Allocations
<1> QED
  BY <1>2, <1>5 DEF GreedyInv, Greedy!AnswerServesAll

LEMMA TryOptionStep ==
    ASSUME GreedyInv, NEW l \in Literals, Greedy!TryOption(l) PROVE GreedyInv'
<1> DEFINE child == Greedy!Insist(solution, l)
<1>1. /\ assignments' = child.allocation
      /\ priority_queue' = priority_queue \cup ({child} \ explored)
      /\ explored' = explored \cup {child}
      /\ outcome' = IF Greedy!Solved(child) THEN "Optimal" ELSE "expand"
      /\ options' = options \ {l}
      /\ UNCHANGED <<score, conflicts, solution>>
  BY DEF Greedy!TryOption, Greedy!problemVars
<1>2. Greedy!IsNode(solution) /\ \A m \in priority_queue \cup explored : Greedy!IsNode(m)
  BY DEF GreedyInv, Greedy!GreedyTypeOK
<1>3. Greedy!IsNode(child)
  BY <1>2, InsistIsNode DEF GreedyInv
<1>4. child.allocation \in Greedy!Allocations
  BY <1>3, NodeType
<1> HIDE DEF child
<1>5. Greedy!GreedyTypeOK'
  BY <1>1, <1>2, <1>3, <1>4, NodesKeep
  DEF GreedyInv, Greedy!GreedyTypeOK, Greedy!Literals, Greedy!Allocations
<1>6. Greedy!AnswerServesAll'
  <2>1. Greedy!Solved(child) => Greedy!Serves(child.allocation)
    BY <1>3, SolvedServes
  <2> QED
    BY <1>1, <2>1 DEF Greedy!AnswerServesAll, Greedy!Serves
<1> QED
  BY <1>1, <1>5, <1>6 DEF GreedyInv

LEMMA StepBackStep ==
    ASSUME GreedyInv, NEW l \in Literals, Greedy!StepBack(l) PROVE GreedyInv'
<1> DEFINE child == Greedy!Insist(solution, l)
           back == Greedy!Backtrack(child)
<1>1. /\ assignments' = back.allocation
      /\ explored' = explored \cup {back, child}
      /\ outcome' = IF Greedy!Solved(back) THEN "Optimal" ELSE "expand"
      /\ options' = options \ {l}
      /\ UNCHANGED <<score, conflicts, priority_queue, solution>>
  BY DEF Greedy!StepBack, Greedy!problemVars
<1>2. Greedy!IsNode(solution) /\ \A m \in priority_queue \cup explored : Greedy!IsNode(m)
  BY DEF GreedyInv, Greedy!GreedyTypeOK
<1>3. Greedy!IsNode(child)
  BY <1>2, InsistIsNode DEF GreedyInv
<1> HIDE DEF child
<1>4. Greedy!IsNode(back)
  BY <1>3, BacktrackIsNode DEF GreedyInv
<1>5. back.allocation \in Greedy!Allocations
  BY <1>4, NodeType
<1> HIDE DEF back
<1>6. Greedy!GreedyTypeOK'
  BY <1>1, <1>2, <1>3, <1>4, <1>5, NodesKeep
  DEF GreedyInv, Greedy!GreedyTypeOK, Greedy!Literals, Greedy!Allocations
<1>7. Greedy!AnswerServesAll'
  <2>1. Greedy!Solved(back) => Greedy!Serves(back.allocation)
    BY <1>4, SolvedServes
  <2> QED
    BY <1>1, <2>1 DEF Greedy!AnswerServesAll, Greedy!Serves
<1> QED
  BY <1>1, <1>6, <1>7 DEF GreedyInv

\* The other steps move between popping and expanding, or end without an answer.
LEMMA OtherSteps ==
    ASSUME GreedyInv,
           Greedy!NextNode \/ Greedy!GiveUp \/ Greedy!Stop \/ UNCHANGED <<problemVars, greedyVars>>
    PROVE  GreedyInv'
<1>1. /\ UNCHANGED <<score, conflicts, priority_queue, explored, solution, options, assignments>>
      /\ outcome' \in {outcome, "pop", "stopped", "UnSolveable"}
  BY DEF Greedy!NextNode, Greedy!GiveUp, Greedy!Stop, Greedy!problemVars, problemVars, greedyVars
<1>2. \A m \in priority_queue \cup explored \cup {solution} : Greedy!IsNode(m)
  BY DEF GreedyInv, Greedy!GreedyTypeOK
<1>3. Greedy!GreedyTypeOK'
  BY <1>1, <1>2, NodesKeep
  DEF GreedyInv, Greedy!GreedyTypeOK, Greedy!Literals, Greedy!Allocations
<1>4. Greedy!AnswerServesAll'
  BY <1>1 DEF GreedyInv, Greedy!AnswerServesAll, Greedy!Serves
<1> QED
  BY <1>1, <1>3, <1>4 DEF GreedyInv

THEOREM GreedyInvariant == SolversSpec => []GreedyInv
<1>1. SolversInit => GreedyInv
  BY GreedyInitInv
<1>2. ASSUME GreedyInv, SolversNext PROVE GreedyInv'
  <2>1. ASSUME SatThread \/ (Stop /\ UNCHANGED greedyVars)
        PROVE  UNCHANGED <<problemVars, greedyVars>>
    BY <2>1 DEF SatThread, Climb, Improve, Eliminate, Conclude, Stop
  <2>2. CASE GreedyThread
    <3>1. Greedy!Search
      BY <2>2 DEF GreedyThread
    <3> QED
      BY <3>1, <1>2, ReturnPoppedStep, ExpandStep, TryOptionStep, StepBackStep, OtherSteps, SameLiterals
      DEF Greedy!Search
  <2> QED
    BY <1>2, <2>1, <2>2, OtherSteps DEF SolversNext, Stopped
<1>3. ASSUME GreedyInv, UNCHANGED solverVars PROVE GreedyInv'
  BY <1>3, OtherSteps DEF solverVars, vars
<1>4. GreedyInv /\ [SolversNext]_solverVars => GreedyInv'
  BY <1>2, <1>3
<1> QED
  BY <1>1, <1>4, PTL DEF SolversSpec

\* What the greedy thread sends serves everybody without a conflict, for every
\* problem, whatever its search wrote to the vector before.
THEOREM GreedyAnswers == SolversSpec => []AnswerServesAll
<1>1. GreedyInv => AnswerServesAll
  BY DEF GreedyInv, AnswerServesAll
<1> QED
  BY <1>1, GreedyInvariant, PTL
-----------------------------------------------------------------------------
(* The greedy search drops nothing it needs.  A node is promising when an    *)
(* assignment that serves everybody is left below it.  A promising node that *)
(* was generated is on the heap, or the option that leads on is still to be  *)
(* tried, or was tried: then it has a promising child, which insists on more.*)

Choice(c) == {<<r, c[r]>> : r \in Requests}

\* Everybody is allocated what is insisted on, or something that is not
\* forbidden; who gets nothing has nothing left.
Sensible(n) ==
    \A r \in Requests :
        \/ <<r, n.allocation[r]>> \in n.positive_constraints
        \/ <<r, n.allocation[r]>> \in Literals \ n.negative_constraints
        \/ Greedy!Of(r, Literals) \subseteq n.negative_constraints

\* c has what n insists on and nothing that n forbids, and n forbids all that
\* conflicts with what it insists on.
Allows(n, c) ==
    /\ n.positive_constraints \subseteq Choice(c)
    /\ n.negative_constraints \cap Choice(c) = {}
    /\ Sensible(n)
    /\ \A l \in n.positive_constraints : Greedy!Implications(l) \ {l} \subseteq n.negative_constraints

Promising(n) == \E c \in Greedy!Allocations : Greedy!Serves(c) /\ Allows(n, c)

\* m insists on all that n insists on, and on more.
Beyond(m, n) ==
    /\ n.positive_constraints \subseteq m.positive_constraints
    /\ n.positive_constraints # m.positive_constraints

\* Insisting on l as well leads from n to an assignment that serves everybody.
LeadsOn(n, l) ==
    /\ l \notin n.positive_constraints
    /\ \E c \in Greedy!Allocations : Greedy!Serves(c) /\ Allows(n, c) /\ l \in Choice(c)

\* n is on the heap, was led on from, or has an option to try that leads on.
Pending(n) ==
    \/ n \in priority_queue
    \/ \E m \in explored : Promising(m) /\ Beyond(m, n)
    \/ /\ outcome = "expand" /\ n = solution
       /\ \E l \in options : LeadsOn(n, l)

\* As long as nothing is returned, there is a promising node that is pending,
\* if any assignment serves everybody, and none that was generated is dropped.
\* (A node that was stepped back to, and insists on nothing, may be.)
NothingDropped ==
    outcome \in {"pop", "expand", "UnSolveable"} =>
        /\ (\E c \in Greedy!Allocations : Greedy!Serves(c)) => \E n : Promising(n) /\ Pending(n)
        /\ \A n \in explored :
              Promising(n) /\ n.positive_constraints # {} => Pending(n)

\* What greedy_allocate gives a request: what is insisted on, something that is
\* not forbidden, or nothing, when all it asked for is forbidden.
LEMMA AllocatedSensibly ==
    ASSUME score \in [Literals -> Scores], NEW p \in SUBSET Literals, NEW n \in SUBSET Literals,
           NEW r \in Requests
    PROVE  \/ Greedy!Allocated(r, p, n) \in p
           \/ Greedy!Allocated(r, p, n) \in Literals \ n
           \/ Greedy!Of(r, Literals) \subseteq n
<1> DEFINE a == Greedy!Allocated(r, p, n)
           free == Greedy!Of(r, Literals) \ n
<1>1. CASE Greedy!Of(r, p) # {}
  <2>1. a = CHOOSE l \in Greedy!Of(r, p) : TRUE
    BY <1>1 DEF Greedy!Allocated
  <2>2. a \in Greedy!Of(r, p)
    BY <1>1, <2>1
  <2> QED
    BY <2>2 DEF Greedy!Of
<1>2. CASE Greedy!Of(r, p) = {} /\ free # {}
  <2>1. a = Greedy!Cheapest(free)
    BY <1>2, SameLiterals DEF Greedy!Allocated
  <2>2. free \in SUBSET Literals /\ \A l \in free : l[1] = r
    BY DEF Greedy!Of
  <2>3. a \in free
    BY <1>2, <2>1, <2>2, CheapestIsOne
  <2> QED
    BY <2>2, <2>3
<1>3. CASE free = {}
  BY <1>3
<1> QED
  BY <1>1, <1>2, <1>3

LEMMA NodeIsSensible ==
    ASSUME score \in [Literals -> Scores], NEW p \in SUBSET Literals, NEW n \in SUBSET Literals
    PROVE  Sensible(Greedy!Node(p, n))
<1> DEFINE node == Greedy!Node(p, n)
<1>1. /\ node.positive_constraints = p
      /\ node.negative_constraints = n
      /\ node.allocation = [r \in Requests |-> Greedy!Allocated(r, p, n)[2]]
  BY DEF Greedy!Node
<1> HIDE DEF node
<1>2. ASSUME NEW r \in Requests
      PROVE  \/ <<r, node.allocation[r]>> \in p
             \/ <<r, node.allocation[r]>> \in Literals \ n
             \/ Greedy!Of(r, Literals) \subseteq n
  <2> DEFINE a == Greedy!Allocated(r, p, n)
  <2>1. a[1] = r /\ node.allocation[r] = a[2]
    BY <1>1, AllocatedType
  <2>2. a \in p \/ a \in Literals \ n \/ Greedy!Of(r, Literals) \subseteq n
    BY AllocatedSensibly
  <2> HIDE DEF a
  <2>3. a \in Literals => a = <<r, node.allocation[r]>>
    BY <2>1, LiteralType
  <2> QED
    BY <2>2, <2>3
<1> QED
  BY <1>1, <1>2 DEF Sensible, node

\* Under a node that allows an assignment everybody gets something, and nobody
\* something forbidden, unless it is insisted on.
LEMMA AllowedIsAllocated ==
    ASSUME NEW n, Greedy!IsNode(n), NEW c, Greedy!Serves(c), Allows(n, c)
    PROVE  /\ Greedy!Unallocated(n) = {}
           /\ \A l \in Greedy!Given(n) :
                 l \in n.positive_constraints \/ l \in Literals \ n.negative_constraints
<1>1. ASSUME NEW r \in Requests
      PROVE  /\ n.allocation[r] # None
             /\ \/ <<r, n.allocation[r]>> \in n.positive_constraints
                \/ <<r, n.allocation[r]>> \in Literals \ n.negative_constraints
  <2>1. <<r, c[r]>> \in Literals /\ <<r, c[r]>> \in Choice(c)
    BY DEF Greedy!Serves, Literals, Choice
  <2>2. <<r, c[r]>> \in Greedy!Of(r, Literals)
    BY <2>1 DEF Greedy!Of
  <2>3. ~(Greedy!Of(r, Literals) \subseteq n.negative_constraints)
    BY <2>1, <2>2 DEF Allows
  <2>4. \/ <<r, n.allocation[r]>> \in n.positive_constraints
        \/ <<r, n.allocation[r]>> \in Literals \ n.negative_constraints
    BY <2>3 DEF Allows, Sensible
  <2>5. <<r, n.allocation[r]>> \in Literals
    BY <2>4, NodeType
  <2>6. <<r, n.allocation[r]>>[2] \in Nat
    BY <2>5, LiteralType
  <2> QED
    BY <2>4, <2>6, NumberAssumption
<1>2. Greedy!Unallocated(n) = {}
  BY <1>1 DEF Greedy!Unallocated
<1>3. \A l \in Greedy!Given(n) :
         l \in n.positive_constraints \/ l \in Literals \ n.negative_constraints
  BY <1>1 DEF Greedy!Given
<1> QED
  BY <1>2, <1>3

\* Insisting on an alternative of an assignment still allows the assignment.
LEMMA InsistAllows ==
    ASSUME score \in [Literals -> Scores], NEW n, Greedy!IsNode(n),
           NEW c, Greedy!Serves(c), Allows(n, c), NEW o \in Choice(c)
    PROVE  /\ Allows(Greedy!Insist(n, o), c)
           /\ Greedy!Insist(n, o).positive_constraints = n.positive_constraints \cup {o}
<1> DEFINE p == {k \in n.positive_constraints : k[1] # o[1]} \cup {o}
           m == n.negative_constraints \cup (Greedy!Implications(o) \ {o})
<1>1. o \in Literals
  BY DEF Choice, Greedy!Serves, Literals
<1>2. p \in SUBSET Literals /\ m \in SUBSET Literals
  BY <1>1, NodeType, ImplicationsType
<1>3. p = n.positive_constraints \cup {o}
  BY DEF Allows, Choice
<1>4. (Greedy!Implications(o) \ {o}) \cap Choice(c) = {}
  <2> SUFFICES ASSUME NEW r \in Requests, NEW q \in Requests, r # q,
                      <<<<r, c[r]>>, <<q, c[q]>>>> \in conflicts
               PROVE  FALSE
    BY DEF Greedy!Implications, Choice
  <2> QED
    BY DEF Greedy!Serves
<1>5. Greedy!Insist(n, o) = Greedy!Node(p, m)
  BY DEF Greedy!Insist
<1>6. /\ Greedy!Node(p, m).positive_constraints = p
      /\ Greedy!Node(p, m).negative_constraints = m
  BY DEF Greedy!Node
<1>7. Sensible(Greedy!Node(p, m))
  BY <1>2, NodeIsSensible
<1>8. p \subseteq Choice(c) /\ m \cap Choice(c) = {}
  BY <1>3, <1>4 DEF Allows
<1>9. \A l \in p : Greedy!Implications(l) \ {l} \subseteq m
  BY <1>3 DEF Allows
<1> HIDE DEF p, m
<1> QED
  BY <1>3, <1>5, <1>6, <1>7, <1>8, <1>9 DEF Allows

LEMMA ChildLeadsOn ==
    ASSUME score \in [Literals -> Scores], NEW n, Greedy!IsNode(n), NEW l, LeadsOn(n, l)
    PROVE  Promising(Greedy!Insist(n, l)) /\ Beyond(Greedy!Insist(n, l), n)
<1>1. PICK c \in Greedy!Allocations : Greedy!Serves(c) /\ Allows(n, c) /\ l \in Choice(c)
  BY DEF LeadsOn
<1>2. /\ Allows(Greedy!Insist(n, l), c)
      /\ Greedy!Insist(n, l).positive_constraints = n.positive_constraints \cup {l}
  BY <1>1, InsistAllows
<1> QED
  BY <1>1, <1>2 DEF Promising, Beyond, LeadsOn

\* A promising node that is not solved has an option that leads on.  Around a
\* conflict of l with k, either the assignment below n has an alternative that
\* l forbids, which is the option, or it may have l instead of what it has.
LEMMA SomeOptionLeadsOn ==
    ASSUME score \in [Literals -> Scores], conflicts \in ConflictSets,
           NEW n, Greedy!IsNode(n), Promising(n), ~Greedy!Solved(n)
    PROVE  \E o \in UNION {Greedy!Implications(l) : l \in Greedy!Conflicts(n)} : LeadsOn(n, o)
<1> DEFINE P == n.positive_constraints
           N == n.negative_constraints
<1>1. PICK c \in Greedy!Allocations : Greedy!Serves(c) /\ Allows(n, c)
  BY DEF Promising
<1>2. /\ Greedy!Unallocated(n) = {}
      /\ \A l \in Greedy!Given(n) : l \in P \/ l \in Literals \ N
  BY <1>1, AllowedIsAllocated
<1>3. PICK l \in Greedy!Given(n), k \in Greedy!Given(n) : <<l, k>> \in conflicts
  BY <1>2 DEF Greedy!Solved, Greedy!Conflicts
<1>4. l \in Literals /\ k \in Literals
  BY <1>2, NodeType
<1>5. l # k /\ <<k, l>> \in conflicts
  BY <1>3, <1>4, ConflictsAssumption
<1>6. l \in Greedy!Conflicts(n) /\ k \in Greedy!Conflicts(n)
  BY <1>3, <1>5 DEF Greedy!Conflicts
<1>7. \A x, y \in Choice(c) : x # y => <<x, y>> \notin conflicts
  BY <1>1 DEF Choice, Greedy!Serves
<1>8. k \in Greedy!Implications(l) \ {l} /\ l \in Greedy!Implications(k) \ {k}
  BY <1>3, <1>4, <1>5, SameLiterals DEF Greedy!Implications
<1>9. P \subseteq Choice(c) /\ \A x \in P : Greedy!Implications(x) \ {x} \subseteq N
  BY <1>1 DEF Allows
\* Neither side is insisted on: it would forbid the other, so that this were
\* insisted on too, and c had a conflict.
<1>10. l \notin P
  <2> SUFFICES ASSUME l \in P PROVE FALSE
    OBVIOUS
  <2>1. k \in N
    BY <1>8, <1>9
  <2>2. k \in P
    BY <1>2, <2>1
  <2> QED
    BY <2>2, <1>3, <1>5, <1>7, <1>9
<1>11. l \notin N
  BY <1>2, <1>10
<1>12. CASE \E o \in Choice(c) : o \in Greedy!Implications(l)
  <2>1. PICK o \in Choice(c) : o \in Greedy!Implications(l)
    BY <1>12
  <2>2. o \notin P
    <3> SUFFICES ASSUME o \in P PROVE FALSE
      OBVIOUS
    <3>1. o # l /\ <<l, o>> \in conflicts /\ o \in Literals
      BY <2>1, <1>10, SameLiterals DEF Greedy!Implications
    <3>2. <<o, l>> \in conflicts
      BY <3>1, <1>4, ConflictsAssumption
    <3>3. l \in Greedy!Implications(o) \ {o}
      BY <3>1, <3>2, <1>4, SameLiterals DEF Greedy!Implications
    <3> QED
      BY <3>3, <1>9, <1>11
  <2> QED
    BY <1>1, <1>6, <2>1, <2>2 DEF LeadsOn
<1>13. CASE \A o \in Choice(c) : o \notin Greedy!Implications(l)
  <2>1. l[1] \in Requests /\ l[2] \in Alternatives[l[1]] /\ l = <<l[1], l[2]>>
    BY <1>4, LiteralType
  <2> DEFINE r == l[1]
             d == [c EXCEPT ![r] = l[2]]
  <2>2. /\ d \in Greedy!Allocations
        /\ d[r] = l[2]
        /\ \A q \in Requests : q # r => d[q] = c[q]
    BY <2>1 DEF Greedy!Allocations
  <2> HIDE DEF d
  <2>3. \A q \in Requests : <<l, <<q, c[q]>>>> \notin conflicts /\ <<<<q, c[q]>>, l>> \notin conflicts
    <3> SUFFICES ASSUME NEW q \in Requests,
                        <<l, <<q, c[q]>>>> \in conflicts \/ <<<<q, c[q]>>, l>> \in conflicts
                 PROVE  FALSE
      OBVIOUS
    <3>1. <<q, c[q]>> \in Choice(c) /\ <<q, c[q]>> \in Literals
      BY <1>1 DEF Choice, Greedy!Serves, Literals
    <3>2. <<l, <<q, c[q]>>>> \in conflicts
      BY <3>1, <1>4, ConflictsAssumption
    <3>3. <<q, c[q]>> \in Greedy!Implications(l)
      BY <3>1, <3>2, SameLiterals DEF Greedy!Implications
    <3> QED
      BY <3>1, <3>3, <1>13
  <2>4. Greedy!Serves(d)
    <3>1. \A q \in Requests : d[q] \in Alternatives[q]
      BY <1>1, <2>1, <2>2 DEF Greedy!Serves
    <3>2. ASSUME NEW x \in Requests, NEW y \in Requests, x # y
          PROVE  <<<<x, d[x]>>, <<y, d[y]>>>> \notin conflicts
      <4>1. CASE x = r
        BY <4>1, <3>2, <2>1, <2>2, <2>3
      <4>2. CASE y = r
        BY <4>2, <3>2, <2>1, <2>2, <2>3
      <4>3. CASE x # r /\ y # r
        BY <4>3, <3>2, <2>2, <1>1 DEF Greedy!Serves
      <4> QED
        BY <4>1, <4>2, <4>3
    <3> QED
      BY <3>1, <3>2 DEF Greedy!Serves
  <2>5. ASSUME NEW x \in P PROVE x \in Choice(d)
    <3>1. PICK q \in Requests : x = <<q, c[q]>>
      BY <1>9 DEF Choice
    <3>2. x \in Greedy!Given(n)
      BY DEF Greedy!IsNode
    <3>3. q # r
      <4> SUFFICES ASSUME q = r PROVE FALSE
        OBVIOUS
      <4>1. x = l
        BY <3>1, <3>2, <2>1 DEF Greedy!Given
      <4> QED
        BY <4>1, <1>10
    <3> QED
      BY <3>1, <3>3, <2>2 DEF Choice
  <2>6. N \cap Choice(d) = {}
    <3> SUFFICES ASSUME NEW q \in Requests, <<q, d[q]>> \in N PROVE FALSE
      BY DEF Choice
    <3>1. q # r
      BY <2>1, <2>2, <1>11
    <3>2. <<q, c[q]>> \in N /\ <<q, c[q]>> \in Choice(c)
      BY <3>1, <2>2 DEF Choice
    <3> QED
      BY <3>2, <1>1 DEF Allows
  <2>7. Allows(n, d)
    BY <2>5, <2>6, <1>1 DEF Allows
  <2>8. l \in Choice(d)
    BY <2>1, <2>2 DEF Choice
  <2>9. l \in Greedy!Implications(l)
    BY DEF Greedy!Implications
  <2> QED
    BY <2>2, <2>4, <2>7, <2>8, <2>9, <1>6, <1>10 DEF LeadsOn
<1> QED
  BY <1>12, <1>13

\* A node that was stepped back to and still insists on something forbids what
\* it insists on: nothing is left below it.
LEMMA BackIsNotPromising ==
    ASSUME NEW n, Greedy!Backtrack(n).positive_constraints # {}
    PROVE  ~Promising(Greedy!Backtrack(n))
<1> DEFINE p == n.positive_constraints \ Greedy!Starving(n)
           m == (UNION {Greedy!Implications(l) : l \in p}) \cup (n.positive_constraints \ p)
<1>1. Greedy!Backtrack(n) = Greedy!Node(p, m)
  BY DEF Greedy!Backtrack
<1>2. Greedy!Node(p, m).positive_constraints = p /\ Greedy!Node(p, m).negative_constraints = m
  BY DEF Greedy!Node
<1>3. PICK l \in p : TRUE
  BY <1>1, <1>2
<1>4. l \in m
  BY DEF Greedy!Implications
<1> HIDE DEF p, m
<1> QED
  BY <1>1, <1>2, <1>3, <1>4 DEF Promising, Allows

\* What is promising depends on the problem alone.
LEMMA ProspectsKeep ==
    ASSUME UNCHANGED <<score, conflicts>>
    PROVE  /\ \A n : Promising(n)' <=> Promising(n)
           /\ \A n, l : LeadsOn(n, l)' <=> LeadsOn(n, l)
BY DEF Promising, LeadsOn, Allows, Sensible, Choice, Greedy!Serves, Greedy!Allocations,
       Greedy!Implications, Greedy!Of, Greedy!Literals, Literals

\* It is enough that what is pending stays so, and that what is generated is
\* pending, known before, or not promising.
LEMMA DropsNothing ==
    ASSUME NothingDropped, outcome \in {"pop", "expand"},
           UNCHANGED <<score, conflicts>>,
           \A n : Promising(n) /\ Pending(n) => Pending(n)',
           \A n \in explored' \ explored :
              Promising(n) /\ n.positive_constraints # {} => Pending(n)'
    PROVE  NothingDropped'
<1>1. \A n : Promising(n)' <=> Promising(n)
  BY ProspectsKeep
<1>2. (\E c \in Greedy!Allocations : Greedy!Serves(c))' <=> \E c \in Greedy!Allocations : Greedy!Serves(c)
  BY DEF Greedy!Serves, Greedy!Allocations
<1>3. (\E c \in Greedy!Allocations : Greedy!Serves(c)) => (\E n : Promising(n) /\ Pending(n))
  BY DEF NothingDropped
<1>4. (\E c \in Greedy!Allocations : Greedy!Serves(c))' => (\E n : Promising(n) /\ Pending(n))'
  BY <1>1, <1>2, <1>3
<1>5. ASSUME NEW n \in explored', Promising(n), n.positive_constraints # {}
      PROVE  Pending(n)'
  BY <1>5 DEF NothingDropped
<1>6. \A n \in explored' : Promising(n)' /\ n.positive_constraints # {} => Pending(n)'
  BY <1>1, <1>5
<1> QED
  BY <1>4, <1>6 DEF NothingDropped

LEMMA InitDropsNothing == ASSUME SolversInit PROVE NothingDropped
<1> SUFFICES ASSUME NEW c \in Greedy!Allocations, Greedy!Serves(c)
             PROVE  Promising(Greedy!Root) /\ Pending(Greedy!Root)
  BY DEF SolversInit, Greedy!GreedyInit, NothingDropped
<1>1. score \in [Literals -> Scores]
  BY DEF SolversInit, Init
<1>2. Sensible(Greedy!Root)
  BY <1>1, NodeIsSensible DEF Greedy!Root
<1>3. Greedy!Root.positive_constraints = {} /\ Greedy!Root.negative_constraints = {}
  BY DEF Greedy!Root, Greedy!Node
<1>4. Allows(Greedy!Root, c)
  BY <1>2, <1>3 DEF Allows
<1>5. Pending(Greedy!Root)
  BY DEF SolversInit, Greedy!GreedyInit, Pending
<1> QED
  BY <1>4, <1>5 DEF Promising

LEMMA ExpandDropsNothing ==
    ASSUME GreedyInv, NothingDropped, Greedy!Expand PROVE NothingDropped'
<1>1. PICK n \in priority_queue :
         /\ ~Greedy!Solved(n)
         /\ solution' = n
         /\ priority_queue' = priority_queue \ {n}
         /\ options' = UNION {Greedy!Implications(l) : l \in Greedy!Conflicts(n)}
  BY DEF Greedy!Expand
<1>2. /\ UNCHANGED <<score, conflicts, explored>>
      /\ outcome = "pop" /\ outcome' = "expand"
  BY DEF Greedy!Expand, Greedy!problemVars
<1>3. \A m : Promising(m)' <=> Promising(m)
  BY <1>2, ProspectsKeep
<1>4. ASSUME NEW m, Promising(m), Pending(m) PROVE Pending(m)'
  <2>1. CASE m \in priority_queue \ {n}
    BY <2>1, <1>1 DEF Pending
  <2>2. CASE \E k \in explored : Promising(k) /\ Beyond(k, m)
    BY <2>2, <1>2, <1>3 DEF Pending, Beyond
  <2>3. CASE m = n
    <3>1. Greedy!IsNode(n)
      BY DEF GreedyInv, Greedy!GreedyTypeOK
    <3>2. PICK o \in options' : LeadsOn(n, o)
      BY <3>1, <2>3, <1>1, <1>4, SomeOptionLeadsOn DEF GreedyInv
    <3> QED
      BY <3>2, <2>3, <1>1, <1>2, ProspectsKeep DEF Pending
  <2> QED
    BY <2>1, <2>2, <2>3, <1>2, <1>4 DEF Pending
<1> QED
  BY <1>2, <1>4, DropsNothing

LEMMA TryOptionDropsNothing ==
    ASSUME GreedyInv, NothingDropped, NEW l \in Literals, Greedy!TryOption(l)
    PROVE  NothingDropped'
<1> DEFINE child == Greedy!Insist(solution, l)
<1>1. /\ priority_queue' = priority_queue \cup ({child} \ explored)
      /\ explored' = explored \cup {child}
      /\ outcome' \in {"Optimal", "expand"}
      /\ options' = options \ {l}
      /\ outcome = "expand"
      /\ UNCHANGED <<score, conflicts, solution>>
  BY DEF Greedy!TryOption, Greedy!problemVars
<1>2. CASE outcome' = "Optimal"
  BY <1>2 DEF NothingDropped
<1>3. CASE outcome' = "expand"
  <2>1. Greedy!IsNode(solution)
    BY DEF GreedyInv, Greedy!GreedyTypeOK
  <2>2. LeadsOn(solution, l) => Promising(child) /\ Beyond(child, solution)
    BY <2>1, ChildLeadsOn DEF GreedyInv
  <2> HIDE DEF child
  <2>3. ASSUME NEW m, Promising(m), Pending(m) PROVE Pending(m)'
    <3>1. CASE m \in priority_queue
      BY <3>1, <1>1 DEF Pending
    <3>2. CASE \E k \in explored : Promising(k) /\ Beyond(k, m)
      BY <3>2, <1>1, ProspectsKeep DEF Pending, Beyond
    <3>3. CASE m = solution /\ LeadsOn(m, l)
      BY <3>3, <2>2, <1>1, ProspectsKeep DEF Pending, Beyond
    <3>4. CASE m = solution /\ \E k \in options \ {l} : LeadsOn(m, k)
      BY <3>4, <1>1, <1>3, ProspectsKeep DEF Pending
    <3> QED
      BY <3>1, <3>2, <3>3, <3>4, <2>3 DEF Pending
  <2>4. \A m \in explored' \ explored : Pending(m)'
    BY <1>1 DEF Pending
  <2> QED
    BY <2>3, <2>4, <1>1, DropsNothing
<1> QED
  BY <1>1, <1>2, <1>3

LEMMA StepBackDropsNothing ==
    ASSUME GreedyInv, NothingDropped, NEW l \in Literals, Greedy!StepBack(l)
    PROVE  NothingDropped'
<1> DEFINE child == Greedy!Insist(solution, l)
           back == Greedy!Backtrack(child)
<1>1. /\ explored' = explored \cup {back, child}
      /\ outcome' \in {"Optimal", "expand"}
      /\ options' = options \ {l}
      /\ outcome = "expand"
      /\ Greedy!Unallocated(child) # {}
      /\ UNCHANGED <<score, conflicts, priority_queue, solution>>
  BY DEF Greedy!StepBack, Greedy!problemVars
<1>2. CASE outcome' = "Optimal"
  BY <1>2 DEF NothingDropped
<1>3. CASE outcome' = "expand"
  <2>1. Greedy!IsNode(solution)
    BY DEF GreedyInv, Greedy!GreedyTypeOK
  <2>2. Greedy!IsNode(child)
    BY <2>1, InsistIsNode DEF GreedyInv
  <2>3. LeadsOn(solution, l) => Promising(child)
    BY <2>1, ChildLeadsOn DEF GreedyInv
  <2>4. back.positive_constraints # {} => ~Promising(back)
    BY BackIsNotPromising
  <2> HIDE DEF back, child
  <2>5. ~Promising(child)
    BY <2>2, <1>1, AllowedIsAllocated DEF Promising
  <2>6. ASSUME NEW m, Promising(m), Pending(m) PROVE Pending(m)'
    <3>1. CASE m \in priority_queue
      BY <3>1, <1>1 DEF Pending
    <3>2. CASE \E k \in explored : Promising(k) /\ Beyond(k, m)
      BY <3>2, <1>1, ProspectsKeep DEF Pending, Beyond
    <3>3. CASE m = solution /\ \E k \in options : LeadsOn(m, k)
      BY <3>3, <2>3, <2>5, <1>1, <1>3, ProspectsKeep DEF Pending
    <3> QED
      BY <3>1, <3>2, <3>3, <2>6 DEF Pending
  <2> QED
    BY <2>4, <2>5, <2>6, <1>1, DropsNothing
<1> QED
  BY <1>1, <1>2, <1>3

\* The node that was expanded is done with when no option is left, and the
\* search gives up with an empty heap.
LEMMA OthersDropNothing ==
    ASSUME NothingDropped,
           \/ Greedy!ReturnPopped \/ Greedy!NextNode \/ Greedy!GiveUp \/ Greedy!Stop
           \/ UNCHANGED <<problemVars, greedyVars>>
    PROVE  NothingDropped'
<1>1. CASE Greedy!ReturnPopped \/ Greedy!Stop
  BY <1>1 DEF Greedy!ReturnPopped, Greedy!Stop, NothingDropped
<1>2. CASE Greedy!NextNode \/ Greedy!GiveUp
  <2>1. /\ UNCHANGED <<score, conflicts, priority_queue, explored, solution>>
        /\ outcome = "expand" => options = {}
        /\ outcome \in {"pop", "expand"}
    BY <1>2 DEF Greedy!NextNode, Greedy!GiveUp, Greedy!problemVars
  <2>2. \A n : Pending(n) => Pending(n)'
    BY <2>1, ProspectsKeep DEF Pending, Beyond
  <2> QED
    BY <2>1, <2>2, DropsNothing
<1>3. CASE UNCHANGED <<problemVars, greedyVars>>
  <2>1. UNCHANGED <<score, conflicts, priority_queue, explored, solution, options, outcome>>
    BY <1>3 DEF problemVars, greedyVars
  <2>2. \A n : Pending(n)' <=> Pending(n)
    BY <2>1, ProspectsKeep DEF Pending, Beyond
  <2>3. (\E c \in Greedy!Allocations : Greedy!Serves(c))' <=> \E c \in Greedy!Allocations : Greedy!Serves(c)
    BY <2>1 DEF Greedy!Serves, Greedy!Allocations
  <2> QED
    BY <2>1, <2>2, <2>3, ProspectsKeep DEF NothingDropped
<1> QED
  BY <1>1, <1>2, <1>3

\* The search never loses sight of an assignment that serves everybody.
THEOREM DropsNothingItNeeds == SolversSpec => []NothingDropped
<1>1. SolversInit => NothingDropped
  BY InitDropsNothing
<1>2. ASSUME GreedyInv, NothingDropped, [SolversNext]_solverVars PROVE NothingDropped'
  <2>1. CASE SatThread \/ (Stop /\ UNCHANGED greedyVars) \/ UNCHANGED solverVars
    <3>1. UNCHANGED <<problemVars, greedyVars>>
      BY <2>1 DEF SatThread, Climb, Improve, Eliminate, Conclude, Stop, solverVars, vars
    <3> QED
      BY <3>1, <1>2, OthersDropNothing
  <2>2. CASE GreedyThread
    <3>1. Greedy!Search
      BY <2>2 DEF GreedyThread
    <3> QED
      BY <3>1, <1>2, ExpandDropsNothing, TryOptionDropsNothing, StepBackDropsNothing,
         OthersDropNothing, SameLiterals DEF Greedy!Search
  <2>3. CASE Greedy!Stop
    BY <2>3, <1>2, OthersDropNothing
  <2> QED
    BY <1>2, <2>1, <2>2, <2>3 DEF SolversNext, Stopped
<1> QED
  BY <1>1, <1>2, GreedyInvariant, PTL DEF SolversSpec

\* With an empty heap there is no promising node at all: each would have a
\* promising child that insists on more, and there are finitely many literals.
LEMMA NothingLeft ==
    ASSUME GreedyInv, NothingDropped, outcome = "UnSolveable", priority_queue = {}
    PROVE  \A c \in Greedy!Allocations : ~Greedy!Serves(c)
<1> DEFINE Nodes == {n \in explored : Promising(n) /\ n.positive_constraints # {}}
           Free(n) == Literals \ n.positive_constraints
           Sets == {Free(n) : n \in Nodes}
           R == StrictSubsetOrdering(Literals)
<1>1. \A n : Promising(n) /\ Pending(n) => \E m \in Nodes : Beyond(m, n)
  BY DEF Pending, Beyond
<1>2. SUFFICES ASSUME NEW c \in Greedy!Allocations, Greedy!Serves(c) PROVE FALSE
  OBVIOUS
<1>3. \E n : Promising(n) /\ Pending(n)
  BY <1>2 DEF NothingDropped
<1>4. PICK first \in Nodes : TRUE
  BY <1>1, <1>3
<1>5. \A n \in Nodes : n.positive_constraints \subseteq Literals
  BY NodeType DEF GreedyInv, Greedy!GreedyTypeOK
<1>6. Sets \subseteq FiniteSubsetsOf(Literals)
  <2> SUFFICES ASSUME NEW n \in Nodes PROVE Free(n) \in FiniteSubsetsOf(Literals)
    OBVIOUS
  <2>1. IsFiniteSet(Free(n))
    BY ConflictsAssumption, FS_Subset
  <2> QED
    BY <2>1 DEF FiniteSubsetsOf
<1>7. IsWellFoundedOn(R, FiniteSubsetsOf(Literals))
  BY FS_StrictSubsetOrderingWellFounded
<1>8. PICK E \in Sets : \A F \in Sets : <<F, E>> \notin R
  <2>1. Free(first) \in Sets
    BY <1>4
  <2> HIDE DEF Sets, R, Free, Nodes
  <2> QED
    BY <1>6, <1>7, <2>1, WFMin
<1>9. PICK n \in Nodes : E = Free(n)
  OBVIOUS
<1>10. PICK m \in Nodes : Beyond(m, n)
  <2>1. Pending(n)
    BY <1>9 DEF NothingDropped
  <2> QED
    BY <2>1, <1>1, <1>9
<1>11. <<Free(m), E>> \in R
  <2>1. Free(m) \subseteq Free(n) /\ Free(m) # Free(n)
    BY <1>5, <1>9, <1>10 DEF Beyond
  <2> QED
    BY <2>1, <1>9 DEF StrictSubsetOrdering
<1> QED
  BY <1>8, <1>10, <1>11

\* The heap is empty when the search has given up.
GaveUpEmpty == outcome = "UnSolveable" => priority_queue = {}

LEMMA GivesUpEmpty == SolversSpec => []GaveUpEmpty
<1>1. SolversInit => GaveUpEmpty
  BY DEF SolversInit, Greedy!GreedyInit, GaveUpEmpty
<1>2. ASSUME GaveUpEmpty, [SolversNext]_solverVars PROVE GaveUpEmpty'
  BY <1>2 DEF GaveUpEmpty, SolversNext, SatThread, GreedyThread, Stopped, solverVars, greedyVars,
     Greedy!Search, Greedy!ReturnPopped, Greedy!Expand, Greedy!TryOption, Greedy!StepBack,
     Greedy!NextNode, Greedy!GiveUp, Greedy!Stop
<1> QED
  BY <1>1, <1>2, PTL DEF SolversSpec

\* The search gives up only when no assignment serves everybody, for every
\* problem: what it drops was not needed.
THEOREM GreedyGivesUpRightly == SolversSpec => []GivesUpRightly
<1>1. GreedyInv /\ NothingDropped /\ GaveUpEmpty => GivesUpRightly
  BY NothingLeft DEF GivesUpRightly, Greedy!GivesUpRightly, GaveUpEmpty
<1> QED
  BY <1>1, GreedyInvariant, DropsNothingItNeeds, GivesUpEmpty, PTL
-----------------------------------------------------------------------------
(* What the search returns off the heap is optimal.                        *)

\* While the search runs, no node on the heap is solved but the root: the others
\* are looked at before they are queued.
OnlyRootSolved ==
    outcome \in {"pop", "expand"} =>
        \A n \in priority_queue : Greedy!Solved(n) => n = Greedy!Root

\* Which nodes are solved, and what the root is, depends on the problem alone.
LEMMA SolvedKeeps ==
    ASSUME UNCHANGED <<score, conflicts>>
    PROVE  /\ \A n : Greedy!Solved(n)' <=> Greedy!Solved(n)
           /\ Greedy!Root' = Greedy!Root
<1>1. \A n : Greedy!Solved(n)' <=> Greedy!Solved(n)
  BY DEF Greedy!Solved, Greedy!Conflicts, Greedy!Unallocated, Greedy!Given
<1>2. Greedy!Root' = Greedy!Root
  BY DEF Greedy!Root, Greedy!Node, Greedy!Allocated, Greedy!Of, Greedy!Cheapest
<1> QED
  BY <1>1, <1>2

LEMMA QueuedUnsolved ==
    ASSUME OnlyRootSolved, [SolversNext]_solverVars
    PROVE  OnlyRootSolved'
<1> SUFFICES ASSUME outcome' \in {"pop", "expand"}, NEW n \in priority_queue', Greedy!Solved(n)'
             PROVE  n = Greedy!Root'
  BY DEF OnlyRootSolved
<1>1. UNCHANGED <<score, conflicts>>
  BY DEF SolversNext, SatThread, GreedyThread, Stopped, Climb, Improve, Eliminate, Conclude, Stop,
     solverVars, vars, problemVars, Greedy!problemVars, Greedy!Search, Greedy!ReturnPopped,
     Greedy!Expand, Greedy!TryOption, Greedy!StepBack, Greedy!NextNode, Greedy!GiveUp, Greedy!Stop
<1>2. Greedy!Solved(n) /\ Greedy!Root' = Greedy!Root
  BY <1>1, SolvedKeeps
<1>3. CASE priority_queue' \subseteq priority_queue /\ outcome \in {"pop", "expand"}
  BY <1>2, <1>3 DEF OnlyRootSolved
<1>4. CASE \E l \in Literals : Greedy!TryOption(l)
  <2>1. PICK l \in Literals : Greedy!TryOption(l)
    BY <1>4
  <2> DEFINE child == Greedy!Insist(solution, l)
  <2>2. /\ priority_queue' = priority_queue \cup ({child} \ explored)
        /\ outcome' = IF Greedy!Solved(child) THEN "Optimal" ELSE "expand"
        /\ outcome = "expand"
    BY <2>1 DEF Greedy!TryOption
  <2> HIDE DEF child
  <2> QED
    BY <2>2, <1>2 DEF OnlyRootSolved
<1>5. ASSUME ~\E l \in Literals : Greedy!TryOption(l)
      PROVE  priority_queue' \subseteq priority_queue /\ outcome \in {"pop", "expand"}
  <2>1. CASE SatThread \/ (Stop /\ UNCHANGED greedyVars) \/ UNCHANGED solverVars
    BY <2>1 DEF SatThread, solverVars, greedyVars
  <2>2. CASE GreedyThread \/ Greedy!Stop
    BY <2>2, <1>5, SameLiterals DEF GreedyThread, Greedy!Search, Greedy!ReturnPopped, Greedy!Expand,
       Greedy!StepBack, Greedy!NextNode, Greedy!GiveUp, Greedy!Stop
  <2> QED
    BY <2>1, <2>2 DEF SolversNext, Stopped
<1> QED
  BY <1>3, <1>4, <1>5

\* The root gives every request its cheapest alternative.
LEMMA RootIsCheapest ==
    ASSUME score \in [Literals -> Scores], Greedy!Solved(Greedy!Root)
    PROVE  /\ Greedy!Root.allocation \in Assignments
           /\ \A c \in Assignments : Total(score, Greedy!Root.allocation) <= Total(score, c)
<1> DEFINE a == Greedy!Root.allocation
<1>1. a = [r \in Requests |-> Greedy!Allocated(r, {}, {})[2]]
  BY DEF Greedy!Root, Greedy!Node
<1>2. Greedy!IsNode(Greedy!Root)
  BY NodeIsNode DEF Greedy!Root, Functional
<1>3. \A r \in Requests : a[r] \in Alternatives[r]
  BY <1>2, NodeType DEF Greedy!Solved, Greedy!Unallocated
<1> HIDE DEF a
<1>4. a \in Assignments
  BY <1>1, <1>3 DEF Assignments
<1>5. ASSUME NEW r \in Requests, NEW x \in Alternatives[r]
      PROVE  score[<<r, a[r]>>] <= score[<<r, x>>]
  <2> DEFINE S == Greedy!Of(r, Literals)
             l == Greedy!Cheapest(S)
  <2>1. <<r, x>> \in S /\ S \in SUBSET Literals /\ \A k \in S : k[1] = r
    BY DEF Greedy!Of, Literals
  <2>2. l \in S /\ score[l] <= score[<<r, x>>]
    <3> HIDE DEF S
    <3> QED
      BY <2>1, CheapestIsOne
  <2>3. Greedy!Allocated(r, {}, {}) = l
    BY <2>1, SameLiterals DEF Greedy!Allocated, Greedy!Of
  <2>4. l = <<r, a[r]>>
    <3> HIDE DEF S, l
    <3>1. l \in Literals /\ l[1] = r
      BY <2>1, <2>2
    <3> QED
      BY <3>1, <2>3, <1>1, LiteralType
  <2> QED
    BY <2>2, <2>4
<1>6. ASSUME NEW c \in Assignments PROVE Total(score, a) <= Total(score, c)
  <2>1. \A r \in Requests : score[<<r, a[r]>>] <= score[<<r, c[r]>>]
    BY <1>5 DEF Assignments
  <2> QED
    BY <2>1, <1>4, TotalAssumption
<1> QED
  BY <1>4, <1>6 DEF a

\* What is returned as it leaves the heap is as cheap as any assignment, also
\* one that serves nobody; for what is returned before it is queued nothing
\* of the kind is promised.
PoppedIsCheapest ==
    outcome = "pop" /\ outcome' = "Optimal" =>
        \A c \in Assignments : Total(score, assignments') <= Total(score, c)

\* When the greedy search returns a node it has popped, its Optimal is one, for
\* every problem.
THEOREM PoppedIsOptimal == SolversSpec => [][PoppedIsCheapest]_solverVars
<1>1. SolversInit => OnlyRootSolved
  BY DEF SolversInit, Greedy!GreedyInit, OnlyRootSolved
<1>2. OnlyRootSolved /\ [SolversNext]_solverVars => OnlyRootSolved'
  BY QueuedUnsolved
<1>3. ASSUME GreedyInv, OnlyRootSolved, SolversNext PROVE PoppedIsCheapest
  <2> SUFFICES ASSUME outcome = "pop", outcome' = "Optimal", NEW c \in Assignments
               PROVE  Total(score, assignments') <= Total(score, c)
    BY DEF PoppedIsCheapest
  <2>1. Greedy!ReturnPopped
    BY <1>3 DEF SolversNext, SatThread, GreedyThread, Stopped, greedyVars, Greedy!Search,
       Greedy!Expand, Greedy!TryOption, Greedy!StepBack, Greedy!NextNode, Greedy!GiveUp, Greedy!Stop
  <2>2. PICK n \in priority_queue : Greedy!Solved(n) /\ assignments' = n.allocation
    BY <2>1 DEF Greedy!ReturnPopped
  <2>3. n = Greedy!Root
    BY <2>2, <1>3 DEF OnlyRootSolved
  <2> QED
    BY <2>2, <2>3, <1>3, RootIsCheapest DEF GreedyInv
<1>4. GreedyInv /\ OnlyRootSolved /\ [SolversNext]_solverVars => [PoppedIsCheapest]_solverVars
  BY <1>3
<1> QED
  BY <1>1, <1>2, <1>4, GreedyInvariant, PTL DEF SolversSpec
-----------------------------------------------------------------------------
(* Both threads.                                                           *)

\* The greedy thread does not disturb the hill climb: the two threads together
\* implement FixedTimeSat.
THEOREM ClimbGoesOn == SolversSpec => Spec
<1>1. SolversInit => Init
  BY DEF SolversInit
<1>2. ASSUME [SolversNext]_solverVars PROVE [Next]_vars
  <2>1. CASE SatThread
    BY <2>1 DEF SatThread, Next
  <2>2. CASE GreedyThread
    BY <2>2 DEF GreedyThread, climbVars, vars, problemVars, Greedy!Search, Greedy!problemVars,
           Greedy!ReturnPopped, Greedy!Expand, Greedy!TryOption, Greedy!StepBack,
           Greedy!NextNode, Greedy!GiveUp
  <2>3. CASE Stopped
    BY <2>3 DEF Stopped, Next, climbVars, vars, problemVars, Greedy!Stop, Greedy!problemVars
  <2>4. CASE UNCHANGED solverVars
    BY <2>4 DEF solverVars
  <2> QED
    BY <1>2, <2>1, <2>2, <2>3, <2>4 DEF SolversNext
<1> QED
  BY <1>1, <1>2, PTL DEF SolversSpec, Spec

\* The bounds, clauses, nodes and vectors of both threads keep their types.
THEOREM SolversTypeCorrect == SolversSpec => []SolversTypeOK
<1>1. Inv /\ GreedyInv => SolversTypeOK
  BY DEF Inv, GreedyInv, SolversTypeOK
<1> QED
  BY <1>1, ClimbGoesOn, SatInvariant, GreedyInvariant, PTL

\* Beside the greedy thread, too, what the hill climb reports as optimal is.
THEOREM OptimalBesideGreedy == SolversSpec => [](NothingBetterRuledOut /\ ConcludedOptimal)
<1>1. Inv => NothingBetterRuledOut /\ ConcludedOptimal
  BY DEF Inv
<1> QED
  BY <1>1, ClimbGoesOn, SatInvariant, PTL

\* When the greedy thread says that there is no assignment, the hill climb has
\* none to report, not even a partial one that it could improve on.
NothingFoundEither == outcome = "UnSolveable" => best_assignment = <<>>

\* The pool never merges an UnSolveable of a greedy thread that has run to its
\* end with an assignment of the hill climb, in whatever order they arrive.
THEOREM UnSolveableAgreed == SolversSpec => []NothingFoundEither
<1>1. ASSUME Inv, GivesUpRightly PROVE NothingFoundEither
  <2> SUFFICES ASSUME outcome = "UnSolveable", Feasible(best_assignment) PROVE FALSE
    BY <1>1 DEF Inv, BoundOfBest, NothingFoundEither
  <2>1. best_assignment \in Greedy!Allocations
    BY DEF Feasible, Assignments, Greedy!Allocations
  <2>2. Greedy!Serves(best_assignment)
    BY DEF Feasible, Assignments, Greedy!Serves
  <2> QED
    BY <1>1, <2>1, <2>2 DEF GivesUpRightly, Greedy!GivesUpRightly
<1> QED
  BY <1>1, ClimbGoesOn, SatInvariant, GreedyGivesUpRightly, PTL
=============================================================================
