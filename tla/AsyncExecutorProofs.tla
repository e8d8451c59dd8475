------------------------- MODULE AsyncExecutorProofs -------------------------
(***************************************************************************)
(* Theorems about AsyncExecutor, for every pool of algorithms and every    *)
(* number of solves.  The inductive invariant is Inv; each of its parts    *)
(* below TypeOK is needed to keep another one:                             *)
(*   Phases          which solves have a pool thread at all;               *)
(*   OwnAnswers and  what PoolPublish can put into the cell;               *)
(*   PublishReady                                                          *)
(*   SupersededStopped, NoOrphanThreads, CellIsAProposal, the goals.       *)
(* Two kinds of pools get an invariant of their own: OneAnswer where the   *)
(* one solver is flexible, ReportedSoFar where there is one hill climb.    *)
(***************************************************************************)
EXTENDS AsyncExecutor, SequenceTheorems, FiniteSetTheorems, TLAPS

\* Exactly the solves that attempt_solve has not started are idle.
Phases == \A s \in Solves : pool[s] = "idle" <=> s > execution_context

\* A pool about to publish has received something, so it proposes an answer.
PublishReady ==
    \A s \in Solves :
        pool[s] = "publish" =>
            proposed_solution[s].solve = s /\ proposed_solution[s].kind # "NotFound"

Inv ==
    /\ TypeOK
    /\ Phases
    /\ SupersededStopped
    /\ NoOrphanThreads
    /\ OwnAnswers
    /\ PublishReady
    /\ CellIsAProposal

(* What a step of any solver thread of solve s amounts to: a thread that was *)
(* running moves on, and sends at most one answer, about its own requests.  *)
SolverMoves(s) ==
    \E a \in Algorithms, to \in {"check", "search", "done"} :
        /\ thread[s][a] \in {"check", "search"}
        /\ thread' = [thread EXCEPT ![s][a] = to]

OwnMessages(s) == {msg \in AlgorithmState : msg.solve = s /\ msg.kind # "NotFound"}

SolverSends(s) ==
    \/ channel' = channel
    \/ \E msg \in OwnMessages(s) : channel' = [channel EXCEPT ![s] = Append(@, msg)]

ClimbTypeOK ==
    climb \in [Solves -> [Algorithms -> [bound : 1..Infinity, visits : Nat]]]

SolverEffect(s) ==
    /\ SolverMoves(s)
    /\ SolverSends(s)
    /\ ClimbTypeOK'
    /\ UNCHANGED <<execution_context, running, poolVars, solution>>

LEMMA MessagesOwned ==
    ASSUME NEW s \in Solves
    PROVE  /\ UnSolveable(s) \in OwnMessages(s)
           /\ Feasible(s) \in OwnMessages(s)
           /\ Optimal(s) \in OwnMessages(s)
           /\ \A c \in 1..MaxCost : Partial(s, c) \in OwnMessages(s)
BY PoolAssumption
   DEF UnSolveable, Feasible, Optimal, Partial, OwnMessages, AlgorithmState, Solves

\* Every action of every solver thread has that effect.
LEMMA SolverStep ==
    ASSUME TypeOK, NEW s \in Solves, Solver(s)
    PROVE  SolverEffect(s)
<1> DEFINE Effect(a) ==
      /\ thread[s][a] \in {"check", "search"}
      /\ \E to \in {"check", "search", "done"} : Move(s, a, to)
      /\ SolverSends(s)
      /\ ClimbTypeOK'
      /\ UNCHANGED <<execution_context, running, poolVars, solution>>
<1>1. ClimbTypeOK
  BY DEF TypeOK, ClimbTypeOK
<1>2. ASSUME UNCHANGED climb PROVE ClimbTypeOK'
  BY <1>1, <1>2 DEF ClimbTypeOK
<1>3. ASSUME NEW msg \in OwnMessages(s), Send(s, msg) PROVE SolverSends(s)
  BY <1>3 DEF Send, SolverSends
<1>4. ASSUME UNCHANGED channel PROVE SolverSends(s)
  BY <1>4 DEF SolverSends
<1>5. ASSUME NEW a \in Algorithms, climb[s][a].visits > 0,
             climb' = [climb EXCEPT ![s][a].visits = @ - 1]
      PROVE  ClimbTypeOK'
  <2>1. climb[s][a] \in [bound : 1..Infinity, visits : Nat]
    BY <1>1 DEF ClimbTypeOK
  <2>2. [climb[s][a] EXCEPT !.visits = @ - 1] \in [bound : 1..Infinity, visits : Nat]
    BY <2>1, <1>5
  <2>3. climb' = [climb EXCEPT ![s] = [climb[s] EXCEPT ![a] = [climb[s][a] EXCEPT !.visits = @ - 1]]]
    BY <1>5
  <2> QED
    BY <1>1, <2>2, <2>3 DEF ClimbTypeOK
<1>6. ASSUME NEW a \in Algorithms, StartSearch(s, a) PROVE Effect(a)
  BY <1>6, <1>2, <1>4 DEF StartSearch
<1>7. ASSUME NEW a \in Algorithms, StoppedUnSolveable(s, a) PROVE Effect(a)
  BY <1>7, <1>2, <1>3, MessagesOwned DEF StoppedUnSolveable
<1>8. ASSUME NEW a \in Algorithms, SearchAgain(s, a) PROVE Effect(a)
  BY <1>8, <1>4, <1>5 DEF SearchAgain
<1>9. ASSUME NEW a \in Algorithms, SatThread(s, a) PROVE Effect(a)
  <2>1. CASE SatStopped(s, a)
    BY <2>1, <1>2, <1>4 DEF SatStopped
  <2>2. CASE SatFindsBetter(s, a)
    <3>1. PICK score \in 1..MaxCost :
             /\ climb' = [climb EXCEPT ![s][a] = [bound |-> score, visits |-> @.visits - 1]]
             /\ Send(s, Partial(s, score))
      BY <2>2 DEF SatFindsBetter
    <3>2. climb[s][a] \in [bound : 1..Infinity, visits : Nat] /\ climb[s][a].visits > 0
      BY <1>1, <2>2 DEF ClimbTypeOK, SatFindsBetter
    <3>3. [bound |-> score, visits |-> climb[s][a].visits - 1] \in [bound : 1..Infinity, visits : Nat]
      BY <3>2, PoolAssumption DEF Infinity
    <3>4. climb' = [climb EXCEPT ![s] = [climb[s] EXCEPT ![a] =
                       [bound |-> score, visits |-> climb[s][a].visits - 1]]]
      BY <3>1
    <3>5. ClimbTypeOK'
      BY <1>1, <3>3, <3>4 DEF ClimbTypeOK
    <3>6. SolverSends(s)
      BY <3>1, <1>3, MessagesOwned
    <3> QED
      BY <2>2, <3>5, <3>6 DEF SatFindsBetter
  <2>3. CASE SatEliminates(s, a)
    BY <2>3, <1>4, <1>5 DEF SatEliminates
  <2>4. CASE SatConcludes(s, a)
    BY <2>4, <1>2, <1>3, MessagesOwned DEF SatConcludes
  <2> QED
    BY <1>6, <1>9, <2>1, <2>2, <2>3, <2>4 DEF SatThread
<1>10. ASSUME NEW a \in Algorithms, GreedyThread(s, a) PROVE Effect(a)
  <2>1. CASE GreedyConcludes(s, a)
    BY <2>1, <1>2, <1>3, MessagesOwned DEF GreedyConcludes
  <2> QED
    BY <1>6, <1>7, <1>8, <1>10, <2>1 DEF GreedyThread
<1>11. ASSUME NEW a \in Algorithms, FlexibleThread(s, a) PROVE Effect(a)
  <2>1. CASE FlexibleConcludes(s, a)
    BY <2>1, <1>2, <1>3, MessagesOwned DEF FlexibleConcludes
  <2>2. CASE FlexiblePanics(s, a)
    BY <2>2, <1>2, <1>4 DEF FlexiblePanics
  <2> QED
    BY <1>6, <1>7, <1>8, <1>11, <2>1, <2>2 DEF FlexibleThread
<1>12. PICK a \in Algorithms : Effect(a)
  BY <1>9, <1>10, <1>11 DEF Solver, Algorithms
<1> QED
  BY <1>12 DEF SolverEffect, SolverMoves, Move
-----------------------------------------------------------------------------
(* The parts of the invariant, each kept by every step.                    *)

LEMMA InitInv ==
    Init => Inv
<1> SUFFICES ASSUME Init PROVE Inv
  OBVIOUS
<1> USE PoolAssumption DEF Init, Solves
<1>1. NotFound \in AlgorithmState
  BY DEF NotFound, AlgorithmState
<1>2. TypeOK
  BY <1>1 DEF TypeOK, Infinity
<1>3. Phases /\ SupersededStopped /\ NoOrphanThreads /\ PublishReady
  BY DEF Phases, SupersededStopped, NoOrphanThreads, PublishReady, Superseded
<1>4. OwnAnswers
  BY DEF OwnAnswers
<1>5. CellIsAProposal
  BY DEF CellIsAProposal, NotFound
<1> QED
  BY <1>2, <1>3, <1>4, <1>5 DEF Inv

LEMMA MergeTyped ==
    ASSUME NEW c \in AlgorithmState, NEW m \in AlgorithmState
    PROVE  Merge(c, m) \in {c, m}
BY DEF Merge

\* What the pool thread of s holds after it has received a message.
LEMMA ReceivedAnswer ==
    ASSUME TypeOK, OwnAnswers, NEW s \in Solves, PoolReceive(s)
    PROVE  /\ proposed_solution' \in [Solves -> AlgorithmState]
           /\ channel' \in [Solves -> Seq(AlgorithmState)]
           /\ proposed_solution'[s].solve = s
           /\ proposed_solution'[s].kind # "NotFound"
           /\ \A i \in 1..Len(channel'[s]) : channel'[s][i] = channel[s][i + 1]
           /\ Len(channel'[s]) = Len(channel[s]) - 1
<1> DEFINE m == Head(channel[s])
<1>1. channel[s] \in Seq(AlgorithmState) /\ channel[s] # <<>>
  BY DEF TypeOK, PoolReceive
<1>2. m \in AlgorithmState /\ m = channel[s][1] /\ Len(channel[s]) >= 1
  BY <1>1
<1>3. m.solve = s /\ m.kind # "NotFound"
  BY <1>2 DEF OwnAnswers
<1>4. proposed_solution[s] \in AlgorithmState
  BY DEF TypeOK
<1>5. proposed_solution'[s] = Merge(proposed_solution[s], m)
  BY DEF PoolReceive, TypeOK
<1>6. Merge(proposed_solution[s], m) \in AlgorithmState
  BY <1>2, <1>4 DEF Merge
<1>7. Merge(proposed_solution[s], m).solve = s /\ Merge(proposed_solution[s], m).kind # "NotFound"
  BY <1>3, <1>4 DEF Merge, OwnAnswers, NotFound
<1>8. proposed_solution' \in [Solves -> AlgorithmState]
  BY <1>6 DEF PoolReceive, TypeOK
<1>9. Tail(channel[s]) \in Seq(AlgorithmState)
  BY <1>1
<1>10. channel' \in [Solves -> Seq(AlgorithmState)] /\ channel'[s] = Tail(channel[s])
  BY <1>9 DEF PoolReceive, TypeOK
<1>11. \A i \in 1..Len(Tail(channel[s])) : Tail(channel[s])[i] = channel[s][i + 1]
  BY <1>1
<1>12. Len(Tail(channel[s])) = Len(channel[s]) - 1
  BY <1>1
<1> QED
  BY <1>5, <1>7, <1>8, <1>10, <1>11, <1>12

LEMMA TypeStep ==
    ASSUME Inv, [Next]_vars
    PROVE  TypeOK'
<1> USE PoolAssumption DEF Inv
<1>1. CASE AttemptSolve
  BY <1>1 DEF AttemptSolve, TypeOK, Solves
<1>2. CASE Retrieve
  BY <1>2 DEF Retrieve, TypeOK, poolVars
<1>3. ASSUME NEW s \in Solves, Pool(s) PROVE TypeOK'
  <2>1. CASE PoolReceive(s)
    <3>1. /\ proposed_solution' \in [Solves -> AlgorithmState]
          /\ channel' \in [Solves -> Seq(AlgorithmState)]
      BY <2>1, ReceivedAnswer
    <3> QED
      BY <2>1, <3>1 DEF PoolReceive, TypeOK
  <2>2. CASE PoolPublish(s)
    BY <2>2 DEF PoolPublish, TypeOK
  <2>3. CASE PoolDecide(s)
    BY <2>3 DEF PoolDecide, TypeOK
  <2>4. CASE PoolTimeout(s)
    BY <2>4 DEF PoolTimeout, TypeOK
  <2>5. CASE PoolJoin(s)
    <3>1. <<>> \in Seq(AlgorithmState)
      OBVIOUS
    <3> QED
      BY <2>5, <3>1 DEF PoolJoin, TypeOK
  <2> QED
    BY <1>3, <2>1, <2>2, <2>3, <2>4, <2>5 DEF Pool
<1>4. ASSUME NEW s \in Solves, Solver(s) PROVE TypeOK'
  <2>1. SolverEffect(s)
    BY <1>4, SolverStep
  <2>2. thread' \in [Solves -> [Algorithms -> {"idle", "check", "search", "done"}]]
    BY <2>1 DEF SolverEffect, SolverMoves, TypeOK
  <2>3. channel' \in [Solves -> Seq(AlgorithmState)]
    <3>1. ASSUME NEW msg \in AlgorithmState
          PROVE  [channel EXCEPT ![s] = Append(@, msg)] \in [Solves -> Seq(AlgorithmState)]
      <4>1. channel[s] \in Seq(AlgorithmState)
        BY DEF TypeOK
      <4>2. Append(channel[s], msg) \in Seq(AlgorithmState)
        BY <4>1
      <4> QED
        BY <4>2 DEF TypeOK
    <3> QED
      BY <2>1, <3>1 DEF SolverEffect, SolverSends, OwnMessages, TypeOK
  <2> QED
    BY <2>1, <2>2, <2>3 DEF SolverEffect, ClimbTypeOK, TypeOK, poolVars
<1>5. CASE UNCHANGED vars
  BY <1>5 DEF vars, poolVars, TypeOK
<1> QED
  BY <1>1, <1>2, <1>3, <1>4, <1>5 DEF Next

LEMMA PhasesStep ==
    ASSUME Inv, [Next]_vars
    PROVE  Phases'
<1> USE PoolAssumption DEF Inv, Phases, TypeOK, Solves
<1>1. CASE AttemptSolve
  BY <1>1 DEF AttemptSolve
<1>2. CASE Retrieve
  BY <1>2 DEF Retrieve, poolVars
<1>3. ASSUME NEW s \in Solves, Pool(s) PROVE Phases'
  BY <1>3 DEF Pool, PoolReceive, PoolPublish, PoolDecide, PoolTimeout, PoolJoin
<1>4. ASSUME NEW s \in Solves, Solver(s) PROVE Phases'
  BY <1>4, SolverStep DEF SolverEffect, poolVars
<1>5. CASE UNCHANGED vars
  BY <1>5 DEF vars, poolVars
<1> QED
  BY <1>1, <1>2, <1>3, <1>4, <1>5 DEF Next

LEMMA SupersededStoppedStep ==
    ASSUME Inv, [Next]_vars
    PROVE  SupersededStopped'
<1> USE PoolAssumption DEF Inv, SupersededStopped, Superseded, TypeOK, Solves
<1>1. CASE AttemptSolve
  <2> SUFFICES ASSUME NEW s \in Solves, s <= execution_context
               PROVE  running'[s] \/ pool'[s] = "finished"
    BY <1>1 DEF AttemptSolve
  <2>1. pool'[s] = pool[s]
    BY <1>1 DEF AttemptSolve
  <2>2. running'[s] = (running[s] \/ (s = execution_context /\ pool[s] # "finished"))
    BY <1>1 DEF AttemptSolve
  <2>3. s < execution_context \/ s = execution_context
    OBVIOUS
  <2>4. s < execution_context => running[s] \/ pool[s] = "finished"
    OBVIOUS
  <2> QED
    BY <2>1, <2>2, <2>3, <2>4, Zenon
<1>2. CASE Retrieve
  BY <1>2 DEF Retrieve, poolVars
<1>3. ASSUME NEW s \in Solves, Pool(s) PROVE SupersededStopped'
  BY <1>3 DEF Pool, PoolReceive, PoolPublish, PoolDecide, PoolTimeout, PoolJoin
<1>4. ASSUME NEW s \in Solves, Solver(s) PROVE SupersededStopped'
  BY <1>4, SolverStep DEF SolverEffect, poolVars
<1>5. CASE UNCHANGED vars
  BY <1>5 DEF vars, poolVars
<1> QED
  BY <1>1, <1>2, <1>3, <1>4, <1>5 DEF Next

LEMMA NoOrphanThreadsStep ==
    ASSUME Inv, [Next]_vars
    PROVE  NoOrphanThreads'
<1> USE PoolAssumption DEF Inv, NoOrphanThreads, TypeOK, Solves
<1>1. CASE AttemptSolve
  <2>1. pool[execution_context + 1] = "idle"
    BY <1>1 DEF AttemptSolve, Phases
  <2> QED
    BY <1>1, <2>1 DEF AttemptSolve
<1>2. CASE Retrieve
  BY <1>2 DEF Retrieve, poolVars
<1>3. ASSUME NEW s \in Solves, Pool(s) PROVE NoOrphanThreads'
  <2>1. thread' = thread
    BY <1>3 DEF Pool, PoolReceive, PoolPublish, PoolDecide, PoolTimeout, PoolJoin
  <2>2. \A r \in Solves : r # s => pool'[r] = pool[r]
    BY <1>3 DEF Pool, PoolReceive, PoolPublish, PoolDecide, PoolTimeout, PoolJoin
  <2>3. pool'[s] = "finished" => \A a \in Algorithms : thread[s][a] = "done"
    BY <1>3 DEF Pool, PoolReceive, PoolPublish, PoolDecide, PoolTimeout, PoolJoin
  <2> QED
    BY <2>1, <2>2, <2>3
<1>4. ASSUME NEW s \in Solves, Solver(s) PROVE NoOrphanThreads'
  <2>1. SolverEffect(s)
    BY <1>4, SolverStep
  <2>2. pool[s] # "finished"
    BY <2>1 DEF SolverEffect, SolverMoves
  <2> QED
    BY <2>1, <2>2 DEF SolverEffect, SolverMoves, poolVars
<1>5. CASE UNCHANGED vars
  BY <1>5 DEF vars, poolVars
<1> QED
  BY <1>1, <1>2, <1>3, <1>4, <1>5 DEF Next

LEMMA OwnAnswersStep ==
    ASSUME Inv, [Next]_vars
    PROVE  OwnAnswers'
<1> USE DEF Inv
<1>1. CASE AttemptSolve
  BY <1>1 DEF AttemptSolve, OwnAnswers
<1>2. CASE Retrieve
  BY <1>2 DEF Retrieve, poolVars, OwnAnswers
<1>3. ASSUME NEW s \in Solves, Pool(s) PROVE OwnAnswers'
  <2>1. CASE PoolReceive(s)
    <3>1. ASSUME NEW r \in Solves, r # s
          PROVE channel'[r] = channel[r] /\ proposed_solution'[r] = proposed_solution[r]
      BY <2>1, <3>1 DEF PoolReceive, TypeOK
    <3>2. Len(channel[s]) \in Nat
      BY DEF TypeOK
    <3>3. \A i \in 1..Len(channel'[s]) : channel'[s][i].solve = s /\ channel'[s][i].kind # "NotFound"
      BY <2>1, <3>2, ReceivedAnswer DEF OwnAnswers
    <3> QED
      BY <2>1, <3>1, <3>3, ReceivedAnswer DEF OwnAnswers
  <2>2. CASE PoolJoin(s)
    <3>1. Len(<<>>) = 0
      OBVIOUS
    <3> QED
      BY <2>2, <3>1 DEF PoolJoin, OwnAnswers, TypeOK
  <2> QED
    BY <1>3, <2>1, <2>2 DEF Pool, PoolPublish, PoolDecide, PoolTimeout, OwnAnswers
<1>4. ASSUME NEW s \in Solves, Solver(s) PROVE OwnAnswers'
  <2>1. SolverEffect(s)
    BY <1>4, SolverStep
  <2>2. CASE channel' = channel
    BY <2>1, <2>2 DEF SolverEffect, poolVars, OwnAnswers
  <2>3. ASSUME NEW msg \in OwnMessages(s), channel' = [channel EXCEPT ![s] = Append(@, msg)]
        PROVE  OwnAnswers'
    <3>1. channel[s] \in Seq(AlgorithmState) /\ channel'[s] = Append(channel[s], msg)
      BY <2>3 DEF TypeOK
    <3>2. msg \in AlgorithmState /\ msg.solve = s /\ msg.kind # "NotFound"
      BY DEF OwnMessages
    <3>3. /\ Len(channel'[s]) = Len(channel[s]) + 1
          /\ \A i \in 1..Len(channel[s]) : channel'[s][i] = channel[s][i]
          /\ channel'[s][Len(channel[s]) + 1] = msg
      BY <3>1, <3>2
    <3>4. Len(channel[s]) \in Nat
      BY <3>1
    <3>5. \A i \in 1..Len(channel'[s]) : channel'[s][i].solve = s /\ channel'[s][i].kind # "NotFound"
      BY <3>2, <3>3, <3>4 DEF OwnAnswers
    <3>6. \A r \in Solves : r # s => channel'[r] = channel[r]
      BY <2>3 DEF TypeOK
    <3>7. proposed_solution' = proposed_solution
      BY <2>1 DEF SolverEffect, poolVars
    <3> QED
      BY <3>5, <3>6, <3>7 DEF OwnAnswers
  <2> QED
    BY <2>1, <2>2, <2>3 DEF SolverEffect, SolverSends
<1>5. CASE UNCHANGED vars
  BY <1>5 DEF vars, poolVars, OwnAnswers
<1> QED
  BY <1>1, <1>2, <1>3, <1>4, <1>5 DEF Next

LEMMA PublishReadyStep ==
    ASSUME Inv, [Next]_vars
    PROVE  PublishReady'
<1> USE DEF Inv, PublishReady, TypeOK
<1>1. CASE AttemptSolve
  BY <1>1, PoolAssumption DEF AttemptSolve, Solves
<1>2. CASE Retrieve
  BY <1>2 DEF Retrieve, poolVars
<1>3. ASSUME NEW s \in Solves, Pool(s) PROVE PublishReady'
  <2>1. CASE PoolReceive(s)
    BY <2>1, ReceivedAnswer DEF PoolReceive
  <2> QED
    BY <1>3, <2>1 DEF Pool, PoolPublish, PoolDecide, PoolTimeout, PoolJoin
<1>4. ASSUME NEW s \in Solves, Solver(s) PROVE PublishReady'
  BY <1>4, SolverStep DEF SolverEffect, poolVars
<1>5. CASE UNCHANGED vars
  BY <1>5 DEF vars, poolVars
<1> QED
  BY <1>1, <1>2, <1>3, <1>4, <1>5 DEF Next

LEMMA CellIsAProposalStep ==
    ASSUME Inv, [Next]_vars
    PROVE  CellIsAProposal'
<1> USE DEF Inv, CellIsAProposal, TypeOK
<1>0. solution.solve # 0 => solution.solve \in Solves
  BY PoolAssumption DEF AlgorithmState, Solves
<1>1. CASE AttemptSolve
  <2>1. pool[execution_context + 1] = "idle"
    BY <1>1, PoolAssumption DEF AttemptSolve, Phases, Solves
  <2> QED
    BY <1>0, <1>1, <2>1 DEF AttemptSolve
<1>2. CASE Retrieve
  BY <1>2 DEF Retrieve, poolVars
<1>3. ASSUME NEW s \in Solves, Pool(s) PROVE CellIsAProposal'
  <2>1. CASE PoolReceive(s)
    BY <1>0, <2>1 DEF PoolReceive
  <2>2. CASE PoolPublish(s)
    BY <2>2 DEF PoolPublish, PublishReady
  <2>3. CASE PoolDecide(s)
    BY <1>0, <2>3 DEF PoolDecide
  <2>4. CASE PoolTimeout(s)
    BY <1>0, <2>4 DEF PoolTimeout
  <2>5. CASE PoolJoin(s)
    BY <1>0, <2>5 DEF PoolJoin
  <2> QED
    BY <1>3, <2>1, <2>2, <2>3, <2>4, <2>5 DEF Pool
<1>4. ASSUME NEW s \in Solves, Solver(s) PROVE CellIsAProposal'
  BY <1>4, SolverStep DEF SolverEffect, poolVars
<1>5. CASE UNCHANGED vars
  BY <1>5 DEF vars, poolVars
<1> QED
  BY <1>1, <1>2, <1>3, <1>4, <1>5 DEF Next

\* The inductive invariant holds throughout.
THEOREM Invariant == Spec => []Inv
<1>1. Init => Inv
  BY InitInv
<1>2. Inv /\ [Next]_vars => Inv'
  BY TypeStep, PhasesStep, SupersededStoppedStep, NoOrphanThreadsStep,
     OwnAnswersStep, PublishReadyStep, CellIsAProposalStep DEF Inv
<1> QED
  BY <1>1, <1>2, PTL DEF Spec

\* Every variable keeps its type.
THEOREM TypeCorrect == Spec => []TypeOK
<1>1. Inv => TypeOK
  BY DEF Inv
<1> QED
  BY <1>1, Invariant, PTL

\* A superseded solve stays told to stop, whatever attempt_solve, the retrieve
\* functions and the other pools do, for any number of overlapping solves.
THEOREM SupersededStaysStopped == Spec => []SupersededStopped
<1>1. Inv => SupersededStopped
  BY DEF Inv
<1> QED
  BY <1>1, Invariant, PTL

\* A finished pool thread has joined all its solver threads.
THEOREM FinishedLeavesNoThread == Spec => []NoOrphanThreads
<1>1. Inv => NoOrphanThreads
  BY DEF Inv
<1> QED
  BY <1>1, Invariant, PTL

\* Answers are never carried from one solve's channel or pool to another's.
THEOREM AnswersStayWithTheirSolve == Spec => []OwnAnswers
<1>1. Inv => OwnAnswers
  BY DEF Inv
<1> QED
  BY <1>1, Invariant, PTL

\* The cell holds the current proposal of the pool that wrote it.
THEOREM CellHoldsAProposal == Spec => []CellIsAProposal
<1>1. Inv => CellIsAProposal
  BY DEF Inv
<1> QED
  BY <1>1, Invariant, PTL
-----------------------------------------------------------------------------
(* The executor implements the shared cell.                                *)

LEMMA CellInitStep ==
    Init => Cell!CellInit
BY DEF Init, Cell!CellInit, Cell!NoAnswer, NotFound

\* attempt_solve is NewSnapshot, a pool's write is Publish, the end of its
\* thread is Retire; every other step leaves the cell's state alone.
LEMMA CellNextStep ==
    ASSUME Inv, [Next]_vars
    PROVE  [Cell!CellNext]_(Cell!cellVars)
<1> DEFINE Live == {s \in Solves : pool[s] \notin {"idle", "finished"}}
<1> USE DEF Inv, TypeOK, Cell!cellVars
<1>1. CASE AttemptSolve
  <2>1. execution_context + 1 \in Solves /\ execution_context \in Nat
    BY <1>1, PoolAssumption DEF AttemptSolve, Solves
  <2>2. Live' = Live \cup {execution_context + 1}
    BY <1>1, <2>1 DEF AttemptSolve
  <2>3. Cell!NewSnapshot
    BY <1>1, <2>2 DEF AttemptSolve, Cell!NewSnapshot
  <2> QED
    BY <2>3 DEF Cell!CellNext
<1>2. CASE Retrieve
  BY <1>2 DEF Retrieve, poolVars
<1>3. ASSUME NEW s \in Solves, Pool(s) PROVE [Cell!CellNext]_(Cell!cellVars)
  <2>1. ASSUME pool[s] \notin {"idle", "finished"}, pool'[s] \notin {"idle", "finished"},
               \A r \in Solves : r # s => pool'[r] = pool[r]
        PROVE  Live' = Live
    BY <2>1
  <2>2. CASE PoolReceive(s)
    <3>1. Live' = Live
      BY <2>1, <2>2 DEF PoolReceive
    <3> QED
      BY <2>2, <3>1 DEF PoolReceive
  <2>3. CASE PoolPublish(s)
    <3>1. Live' = Live
      BY <2>1, <2>3 DEF PoolPublish
    <3>2. solution'.solve = s /\ solution'.kind \in Cell!PublishedKinds
      BY <2>3 DEF PoolPublish, PublishReady, AlgorithmState, Cell!PublishedKinds
    <3>3. Cell!Publish(s)
      BY <2>3, <3>1, <3>2 DEF PoolPublish, Cell!Publish
    <3>4. s \in Cell!Solves
      BY DEF Solves, Cell!Solves
    <3> QED
      BY <3>3, <3>4 DEF Cell!CellNext
  <2>4. CASE PoolDecide(s)
    <3>1. Live' = Live
      BY <2>1, <2>4 DEF PoolDecide
    <3> QED
      BY <2>4, <3>1 DEF PoolDecide
  <2>5. CASE PoolTimeout(s)
    <3>1. Live' = Live
      BY <2>1, <2>5 DEF PoolTimeout
    <3> QED
      BY <2>5, <3>1 DEF PoolTimeout
  <2>6. CASE PoolJoin(s)
    <3>1. Live' = Live \ {s} /\ s \in Live
      BY <2>6 DEF PoolJoin
    <3>2. Cell!Retire(s)
      BY <2>6, <3>1 DEF PoolJoin, Cell!Retire
    <3>3. s \in Cell!Solves
      BY DEF Solves, Cell!Solves
    <3> QED
      BY <3>2, <3>3 DEF Cell!CellNext
  <2> QED
    BY <1>3, <2>2, <2>3, <2>4, <2>5, <2>6 DEF Pool
<1>4. ASSUME NEW s \in Solves, Solver(s) PROVE [Cell!CellNext]_(Cell!cellVars)
  BY <1>4, SolverStep DEF SolverEffect, poolVars
<1>5. CASE UNCHANGED vars
  BY <1>5 DEF vars, poolVars
<1> QED
  BY <1>1, <1>2, <1>3, <1>4, <1>5 DEF Next

\* The executor implements SolutionCell: behind the threads, flags and
\* channels there is one cell that any live solve may overwrite, and none
\* that has retired.  (Fairness is left to the model checker.)
THEOREM ExecutorImplementsCell == Spec => Cell!CellSpec
<1>1. Init => Cell!CellInit
  BY CellInitStep
<1>2. Inv /\ [Next]_vars => [Cell!CellNext]_(Cell!cellVars)
  BY CellNextStep
<1> QED
  BY <1>1, <1>2, Invariant, PTL DEF Spec, Cell!CellSpec
-----------------------------------------------------------------------------
(* The flexible pool: one thread that reports once.                        *)

\* Until its one thread is done nothing has been sent; afterwards there is at
\* most one answer, in the channel or already proposed.
OneAnswer ==
    \A s \in Solves :
        /\ (\E a \in Algorithms : thread[s][a] # "done")
              => channel[s] = <<>> /\ proposed_solution[s] = NotFound
        /\ channel[s] # <<>> => Len(channel[s]) = 1 /\ proposed_solution[s] = NotFound
        /\ pool[s] = "idle" => \A a \in Algorithms : thread[s][a] = "idle"

FlexibleInv == Inv /\ OneAnswer

\* A step of the flexible thread that sends also ends the thread.
LEMMA FlexibleSendsOnce ==
    ASSUME TypeOK, SatSolvers = {}, GreedySolvers = {},
           NEW s \in Solves, Solver(s)
    PROVE  \E a \in Algorithms :
              /\ thread[s][a] # "done"
              /\ \/ UNCHANGED channel
                 \/ /\ Move(s, a, "done")
                    /\ \E msg \in OwnMessages(s) : Send(s, msg)
<1>1. PICK a \in FlexibleSolvers : FlexibleThread(s, a)
  BY DEF Solver
<1>2. CASE StoppedUnSolveable(s, a)
  BY <1>2, MessagesOwned DEF StoppedUnSolveable, Algorithms
<1>3. CASE FlexibleConcludes(s, a)
  BY <1>3, MessagesOwned DEF FlexibleConcludes, Algorithms
<1> QED
  BY <1>1, <1>2, <1>3
     DEF FlexibleThread, StartSearch, SearchAgain, FlexiblePanics, Algorithms

LEMMA OneAnswerInit ==
    Init => OneAnswer
BY DEF Init, OneAnswer

LEMMA OneAnswerStep ==
    ASSUME FlexibleInv, [Next]_vars, SatSolvers = {}, GreedySolvers = {},
           NEW f, FlexibleSolvers = {f}
    PROVE  OneAnswer'
<1> USE DEF FlexibleInv, Inv
<1>0. Algorithms = {f}
  BY DEF Algorithms
<1>1. CASE AttemptSolve
  <2> DEFINE next == execution_context + 1
  <2>1. next \in Solves /\ pool[next] = "idle"
    BY <1>1, PoolAssumption DEF AttemptSolve, Phases, Solves, TypeOK
  <2>2. channel[next] = <<>> /\ proposed_solution[next] = NotFound
    BY <1>0, <2>1 DEF OneAnswer
  <2>3. pool'[next] = "receive" /\ UNCHANGED <<channel, proposed_solution>>
    BY <1>1, <2>1 DEF AttemptSolve, TypeOK
  <2>4. \A s \in Solves : s # next => pool'[s] = pool[s] /\ thread'[s] = thread[s]
    BY <1>1 DEF AttemptSolve, TypeOK
  <2> QED
    BY <2>1, <2>2, <2>3, <2>4 DEF OneAnswer
<1>2. CASE Retrieve
  BY <1>2 DEF Retrieve, poolVars, OneAnswer
<1>3. ASSUME NEW s \in Solves, Pool(s) PROVE OneAnswer'
  <2>0. /\ thread' = thread
        /\ pool[s] # "idle" /\ pool'[s] # "idle"
        /\ \A r \in Solves : r # s => pool'[r] = pool[r]
    BY <1>3 DEF Pool, PoolReceive, PoolPublish, PoolDecide, PoolTimeout, PoolJoin, TypeOK
  <2>1. CASE PoolReceive(s)
    <3>1. channel[s] # <<>> /\ channel[s] \in Seq(AlgorithmState) /\ Len(channel[s]) = 1
      BY <2>1 DEF PoolReceive, TypeOK, OneAnswer
    <3>2. Tail(channel[s]) = <<>>
      <4>1. Tail(channel[s]) \in Seq(AlgorithmState) /\ Len(Tail(channel[s])) = 0
        BY <3>1
      <4> QED
        BY <4>1, EmptySeq
    <3>3. channel'[s] = <<>> /\ \A a \in Algorithms : thread[s][a] = "done"
      BY <2>1, <3>1, <3>2 DEF PoolReceive, TypeOK, OneAnswer
    <3>4. \A r \in Solves :
             r # s => channel'[r] = channel[r] /\ proposed_solution'[r] = proposed_solution[r]
      BY <2>1 DEF PoolReceive, TypeOK
    <3> QED
      BY <2>0, <3>3, <3>4 DEF OneAnswer
  <2>2. CASE PoolJoin(s)
    <3>1. channel'[s] = <<>> /\ \A r \in Solves : r # s => channel'[r] = channel[r]
      BY <2>2 DEF PoolJoin, TypeOK
    <3> QED
      BY <2>0, <2>2, <3>1 DEF PoolJoin, OneAnswer
  <2>3. CASE PoolPublish(s) \/ PoolDecide(s) \/ PoolTimeout(s)
    BY <2>0, <2>3 DEF PoolPublish, PoolDecide, PoolTimeout, OneAnswer
  <2> QED
    BY <1>3, <2>1, <2>2, <2>3 DEF Pool
<1>4. ASSUME NEW s \in Solves, Solver(s) PROVE OneAnswer'
  <2>1. SolverEffect(s)
    BY <1>4, SolverStep
  <2>2. /\ thread[s][f] # "done"
        /\ \/ UNCHANGED channel
           \/ /\ Move(s, f, "done")
              /\ \E msg \in OwnMessages(s) : Send(s, msg)
    BY <1>0, <1>4, FlexibleSendsOnce
  <2>3. channel[s] = <<>> /\ proposed_solution[s] = NotFound
    BY <1>0, <2>2 DEF OneAnswer
  <2>4. pool[s] # "idle"
    BY <2>1 DEF SolverEffect, SolverMoves, OneAnswer
  <2>5. UNCHANGED <<pool, proposed_solution>> /\ \A r \in Solves : r # s => thread'[r] = thread[r]
    BY <2>1 DEF SolverEffect, SolverMoves, poolVars, TypeOK
  <2>6. CASE UNCHANGED channel
    BY <2>3, <2>4, <2>5, <2>6 DEF OneAnswer
  <2>7. ASSUME NEW msg \in OwnMessages(s), Move(s, f, "done"), Send(s, msg) PROVE OneAnswer'
    <3>1. channel'[s] = Append(<<>>, msg) /\ \A r \in Solves : r # s => channel'[r] = channel[r]
      BY <2>3, <2>7 DEF Send, TypeOK
    <3>2. Len(channel'[s]) = 1
      BY <3>1
    <3>3. \A a \in Algorithms : thread'[s][a] = "done"
      BY <1>0, <2>7 DEF Move, TypeOK
    <3>4. \A r \in Solves : r # s => UNCHANGED <<channel[r], proposed_solution[r], pool[r], thread[r]>>
      BY <2>5, <3>1
    <3>5. proposed_solution'[s] = NotFound /\ pool'[s] # "idle"
      BY <2>3, <2>4, <2>5
    <3> QED
      BY <3>2, <3>3, <3>4, <3>5 DEF OneAnswer
  <2> QED
    BY <2>2, <2>6, <2>7
<1>5. CASE UNCHANGED vars
  BY <1>5 DEF vars, poolVars, OneAnswer
<1> QED
  BY <1>1, <1>2, <1>3, <1>4, <1>5 DEF Next

LEMMA ConclusionFinalStep ==
    ASSUME FlexibleInv, [Next]_vars
    PROVE  [\A s \in Solves : Concluded(s) => proposed_solution'[s] = proposed_solution[s]]_vars
<1> USE DEF FlexibleInv, Inv
<1>1. ASSUME NEW s \in Solves, PoolReceive(s), NEW r \in Solves, Concluded(r)
      PROVE  proposed_solution'[r] = proposed_solution[r]
  <2>1. proposed_solution[s] = NotFound
    BY <1>1 DEF PoolReceive, OneAnswer
  <2>2. r # s
    BY <1>1, <2>1 DEF Concluded, ShouldContinue, NotFound
  <2> QED
    BY <1>1, <2>2 DEF PoolReceive, TypeOK
<1>2. ASSUME NEW s \in Solves, Solver(s) PROVE UNCHANGED proposed_solution
  BY <1>2, SolverStep DEF SolverEffect, poolVars
<1> QED
  BY <1>1, <1>2
     DEF Next, Pool, PoolPublish, PoolDecide, PoolTimeout, PoolJoin,
         AttemptSolve, Retrieve, vars, poolVars

\* A pool with the single flexible solver, the one the flexible reservation
\* system builds, never replaces its conclusion, for any number of solves.
THEOREM FlexibleConclusionIsFinal ==
    ASSUME SatSolvers = {}, GreedySolvers = {}, NEW f, FlexibleSolvers = {f}
    PROVE  Spec => ConclusionIsFinal
<1>1. Init => OneAnswer
  BY OneAnswerInit
<1>2. Inv /\ OneAnswer /\ [Next]_vars => OneAnswer'
  BY OneAnswerStep DEF FlexibleInv
<1>3. Inv /\ OneAnswer /\ [Next]_vars
        => [\A s \in Solves : Concluded(s) => proposed_solution'[s] = proposed_solution[s]]_vars
  BY ConclusionFinalStep DEF FlexibleInv
<1> QED
  BY <1>1, <1>2, <1>3, Invariant, PTL DEF Spec, ConclusionIsFinal
-----------------------------------------------------------------------------
(* The fixed-time pool: one hill climb beside solvers without partials.    *)

\* The cost the climb of f has reached is that of the last partial in the
\* channel, or, when there is none left there, of the one the pool holds; no
\* partial under way is cheaper.  (The join drops what is in the channel.)
ReportedSoFar(f) ==
    \A s \in Solves :
        LET reached == climb[s][f].bound
            partials == {i \in 1..Len(channel[s]) : channel[s][i].kind = "Partial"}
        IN  /\ proposed_solution[s].kind = "Partial" => proposed_solution[s].cost >= reached
            /\ \A i \in partials : channel[s][i].cost >= reached
            /\ \/ \E i \in partials :
                     channel[s][i].cost = reached /\ \A j \in partials : j <= i
               \/ /\ partials = {}
                  /\ proposed_solution[s].kind = "Partial" => proposed_solution[s].cost = reached
               \/ pool[s] = "finished"

\* With one hill climb, a step of a solver thread reports a cheaper assignment
\* and lowers the bound to its cost, or keeps the bound and sends no partial.
LEMMA OnlyTheClimbReports ==
    ASSUME TypeOK, NEW f, SatSolvers = {f}, NEW s \in Solves, Solver(s)
    PROVE  \/ \E score \in 1..MaxCost :
                 /\ score < climb[s][f].bound
                 /\ climb'[s][f].bound = score
                 /\ Send(s, Partial(s, score))
           \/ /\ climb'[s][f].bound = climb[s][f].bound
              /\ \/ UNCHANGED channel
                 \/ \E msg \in OwnMessages(s) : msg.kind # "Partial" /\ Send(s, msg)
<1> DEFINE Quiet ==
      /\ climb'[s][f].bound = climb[s][f].bound
      /\ \/ UNCHANGED channel
         \/ \E msg \in OwnMessages(s) : msg.kind # "Partial" /\ Send(s, msg)
<1>0. f \in Algorithms /\ climb[s][f] \in [bound : 1..Infinity, visits : Nat]
  BY DEF Algorithms, TypeOK
<1>1. /\ UnSolveable(s) \in OwnMessages(s) /\ UnSolveable(s).kind # "Partial"
      /\ Feasible(s) \in OwnMessages(s) /\ Feasible(s).kind # "Partial"
      /\ Optimal(s) \in OwnMessages(s) /\ Optimal(s).kind # "Partial"
  BY MessagesOwned DEF UnSolveable, Feasible, Optimal
<1>2. ASSUME NEW a \in Algorithms, climb' = [climb EXCEPT ![s][a].visits = @ - 1]
      PROVE  climb'[s][f].bound = climb[s][f].bound
  BY <1>0, <1>2 DEF TypeOK
<1>3. ASSUME NEW a \in Algorithms, StartSearch(s, a) \/ SearchAgain(s, a) \/ StoppedUnSolveable(s, a)
      PROVE  Quiet
  BY <1>1, <1>2, <1>3 DEF StartSearch, SearchAgain, StoppedUnSolveable
<1>4. ASSUME NEW a \in GreedySolvers, GreedyThread(s, a) PROVE Quiet
  BY <1>1, <1>3, <1>4 DEF GreedyThread, GreedyConcludes, Algorithms
<1>5. ASSUME NEW a \in FlexibleSolvers, FlexibleThread(s, a) PROVE Quiet
  BY <1>1, <1>3, <1>5 DEF FlexibleThread, FlexibleConcludes, FlexiblePanics, Algorithms
<1>6. CASE SatThread(s, f)
  <2>1. CASE StartSearch(s, f) \/ SatStopped(s, f) \/ SatEliminates(s, f) \/ SatConcludes(s, f)
    BY <1>0, <1>1, <1>2, <1>3, <2>1 DEF SatStopped, SatEliminates, SatConcludes
  <2>2. CASE SatFindsBetter(s, f)
    <3>1. PICK score \in 1..MaxCost :
             /\ score < climb[s][f].bound
             /\ climb' = [climb EXCEPT ![s][f] = [bound |-> score, visits |-> @.visits - 1]]
             /\ Send(s, Partial(s, score))
      BY <2>2 DEF SatFindsBetter
    <3>2. climb'[s][f].bound = score
      BY <1>0, <3>1 DEF TypeOK
    <3> QED
      BY <3>1, <3>2
  <2> QED
    BY <1>6, <2>1, <2>2 DEF SatThread
<1> QED
  BY <1>4, <1>5, <1>6 DEF Solver

\* A solver thread touches the bounds and the channel of its own solve only.
LEMMA ClimbsOfOthers ==
    ASSUME TypeOK, NEW r \in Solves, Solver(r), NEW s \in Solves, s # r
    PROVE  UNCHANGED <<climb[s], channel[s], proposed_solution[s]>>
<1>1. UNCHANGED <<channel[s], proposed_solution[s]>>
  BY SolverStep DEF SolverEffect, SolverSends, poolVars, TypeOK
<1>2. \/ UNCHANGED climb
      \/ \E a \in Algorithms, c \in [bound : 1..Infinity, visits : Int] :
            climb' = [climb EXCEPT ![r] = [climb[r] EXCEPT ![a] = c]]
  <2> DEFINE Goal == \/ UNCHANGED climb
                     \/ \E a \in Algorithms, c \in [bound : 1..Infinity, visits : Int] :
                           climb' = [climb EXCEPT ![r] = [climb[r] EXCEPT ![a] = c]]
  <2>0. \A a \in Algorithms : climb[r][a] \in [bound : 1..Infinity, visits : Nat]
    BY DEF TypeOK
  <2>1. ASSUME NEW a \in Algorithms, climb' = [climb EXCEPT ![r][a].visits = @ - 1] PROVE Goal
    <3>1. [climb[r][a] EXCEPT !.visits = @ - 1] \in [bound : 1..Infinity, visits : Int]
      BY <2>0
    <3>2. climb' = [climb EXCEPT ![r] = [climb[r] EXCEPT ![a] = [climb[r][a] EXCEPT !.visits = @ - 1]]]
      BY <2>1
    <3> QED
      BY <3>1, <3>2
  <2>2. ASSUME NEW a \in Algorithms, SatFindsBetter(r, a) PROVE Goal
    <3>1. PICK score \in 1..MaxCost :
             climb' = [climb EXCEPT ![r][a] = [bound |-> score, visits |-> @.visits - 1]]
      BY <2>2 DEF SatFindsBetter
    <3>2. [bound |-> score, visits |-> climb[r][a].visits - 1] \in [bound : 1..Infinity, visits : Int]
      BY <2>0, PoolAssumption DEF Infinity
    <3>3. climb' = [climb EXCEPT ![r] = [climb[r] EXCEPT ![a] =
                       [bound |-> score, visits |-> climb[r][a].visits - 1]]]
      BY <3>1
    <3> QED
      BY <3>2, <3>3
  <2> HIDE DEF Goal
  <2>3. ASSUME NEW a \in Algorithms,
               \/ StartSearch(r, a) \/ StoppedUnSolveable(r, a) \/ SatStopped(r, a)
               \/ SatConcludes(r, a) \/ GreedyConcludes(r, a) \/ FlexibleConcludes(r, a)
               \/ FlexiblePanics(r, a)
        PROVE  Goal
    BY <2>3 DEF Goal, StartSearch, StoppedUnSolveable, SatStopped, SatConcludes, GreedyConcludes,
                FlexibleConcludes, FlexiblePanics
  <2>4. ASSUME NEW a \in Algorithms, SatEliminates(r, a) \/ SearchAgain(r, a) PROVE Goal
    BY <2>1, <2>4 DEF SatEliminates, SearchAgain
  <2> QED
    BY <2>2, <2>3, <2>4 DEF Goal, Solver, SatThread, GreedyThread, FlexibleThread, Algorithms
<1> QED
  BY <1>1, <1>2 DEF TypeOK

LEMMA ReportedInit ==
    ASSUME NEW f, SatSolvers = {f}
    PROVE  Init => ReportedSoFar(f)
BY PoolAssumption DEF Init, ReportedSoFar, NotFound

LEMMA ReportedStep ==
    ASSUME Inv, [Next]_vars, NEW f, SatSolvers = {f}, ReportedSoFar(f)
    PROVE  ReportedSoFar(f)'
<1> USE DEF Inv
<1> DEFINE Reported(s) ==
      LET reached == climb[s][f].bound
          partials == {i \in 1..Len(channel[s]) : channel[s][i].kind = "Partial"}
      IN  /\ proposed_solution[s].kind = "Partial" => proposed_solution[s].cost >= reached
          /\ \A i \in partials : channel[s][i].cost >= reached
          /\ \/ \E i \in partials :
                   channel[s][i].cost = reached /\ \A j \in partials : j <= i
             \/ /\ partials = {}
                /\ proposed_solution[s].kind = "Partial" => proposed_solution[s].cost = reached
             \/ pool[s] = "finished"
<1>0. /\ \A s \in Solves : Reported(s)
      /\ \A s \in Solves :
            /\ climb[s][f].bound \in Nat
            /\ Len(channel[s]) \in Nat
            /\ channel[s] \in Seq(AlgorithmState)
            /\ proposed_solution[s] \in AlgorithmState
  <2>1. \A s \in Solves : Reported(s)
    BY DEF ReportedSoFar
  <2>2. \A s \in Solves : climb[s][f] \in [bound : 1..Infinity, visits : Nat]
    BY DEF TypeOK, Algorithms
  <2>3. \A s \in Solves : climb[s][f].bound \in Nat
    BY <2>2, PoolAssumption DEF Infinity
  <2>4. \A s \in Solves : channel[s] \in Seq(AlgorithmState) /\ proposed_solution[s] \in AlgorithmState
    BY DEF TypeOK
  <2>5. \A s \in Solves : Len(channel[s]) \in Nat
    BY <2>4
  <2> HIDE DEF Reported
  <2> QED
    BY <2>1, <2>3, <2>4, <2>5
<1>1. SUFFICES ASSUME NEW s \in Solves PROVE Reported(s)'
  BY DEF ReportedSoFar
<1>2. CASE /\ UNCHANGED <<climb[s], channel[s], proposed_solution[s]>>
           /\ pool[s] = "finished" => pool'[s] = "finished"
  BY <1>0, <1>2
<1>3. CASE PoolReceive(s)
  <2> DEFINE m == Head(channel[s])
             n == Len(channel[s])
  <2>1. channel[s] # <<>> /\ n \in Nat \ {0} /\ m = channel[s][1] /\ m \in AlgorithmState
    BY <1>0, <1>3 DEF PoolReceive
  <2>9. \A i \in 1..n : channel[s][i].kind = "Partial" =>
           \E k \in 1..n :
              /\ channel[s][k].kind = "Partial" /\ channel[s][k].cost = climb[s][f].bound
              /\ \A j \in 1..n : channel[s][j].kind = "Partial" => j <= k
    <3>1. Reported(s) /\ pool[s] # "finished"
      BY <1>0, <1>3 DEF PoolReceive
    <3> QED
      BY <3>1
  <2>2. /\ Len(channel'[s]) = n - 1
        /\ \A i \in 1..(n - 1) : channel'[s][i] = channel[s][i + 1]
    BY <1>3, ReceivedAnswer
  <2>3. proposed_solution'[s] = Merge(proposed_solution[s], m) /\ climb'[s][f].bound = climb[s][f].bound
    BY <1>3 DEF PoolReceive, TypeOK
  <2>4. m.kind = "Partial" => m.cost >= climb[s][f].bound
    BY <1>0, <2>1
  <2>5. \A i \in 1..Len(channel'[s]) :
           channel'[s][i].kind = "Partial" => channel'[s][i].cost >= climb'[s][f].bound
    <3> SUFFICES ASSUME NEW i \in 1..(n - 1), channel[s][i + 1].kind = "Partial"
                 PROVE  channel[s][i + 1].cost >= climb[s][f].bound
      BY <2>2, <2>3
    <3>1. i + 1 \in 1..n
      BY <2>1
    <3> QED
      BY <1>0, <3>1
  <2>6. proposed_solution'[s].kind = "Partial" => proposed_solution'[s].cost >= climb'[s][f].bound
    BY <1>0, <2>3, <2>4 DEF Merge
  <2>7. CASE \A i \in 2..n : channel[s][i].kind # "Partial"
    <3>1. \A i \in 1..Len(channel'[s]) : channel'[s][i].kind # "Partial"
      <4>1. \A i \in 1..(n - 1) : i + 1 \in 2..n
        BY <2>1
      <4> QED
        BY <2>2, <2>7, <4>1
    <3>2. m.kind = "Partial" => m.cost = climb[s][f].bound
      <4> SUFFICES ASSUME m.kind = "Partial" PROVE m.cost = climb[s][f].bound
        OBVIOUS
      <4>1. PICK k \in 1..n :
               channel[s][k].kind = "Partial" /\ channel[s][k].cost = climb[s][f].bound
        BY <2>1, <2>9
      <4>2. k = 1
        BY <2>1, <2>7, <4>1
      <4> QED
        BY <2>1, <4>1, <4>2
    <3>3. m.kind # "Partial" => proposed_solution'[s].kind # "Partial"
      BY <2>3 DEF Merge
    <3>4. m.kind = "Partial" /\ proposed_solution'[s].kind = "Partial"
            => proposed_solution'[s].cost = climb'[s][f].bound
      <4>1. proposed_solution[s].cost \in Nat /\ m.cost \in Nat
        BY <1>0, <2>1 DEF AlgorithmState
      <4> QED
        BY <1>0, <2>3, <3>2, <4>1 DEF Merge
    <3> QED
      BY <2>5, <2>6, <3>1, <3>3, <3>4
  <2>8. CASE \E i \in 2..n : channel[s][i].kind = "Partial"
    <3>1. PICK i \in 1..n :
             /\ channel[s][i].kind = "Partial" /\ channel[s][i].cost = climb[s][f].bound
             /\ \A j \in 1..n : channel[s][j].kind = "Partial" => j <= i
      BY <2>1, <2>8, <2>9
    <3>2. i >= 2 /\ i - 1 \in 1..(n - 1) /\ channel'[s][i - 1] = channel[s][i]
      <4>1. PICK j \in 2..n : channel[s][j].kind = "Partial"
        BY <2>8
      <4>2. i >= 2
        BY <3>1, <4>1
      <4>3. i - 1 \in 1..(n - 1) /\ (i - 1) + 1 = i
        BY <2>1, <4>2
      <4> QED
        BY <2>2, <4>2, <4>3
    <3>3. \A j \in 1..(n - 1) : channel'[s][j].kind = "Partial" => j <= i - 1
      <4> SUFFICES ASSUME NEW j \in 1..(n - 1), channel[s][j + 1].kind = "Partial"
                   PROVE  j <= i - 1
        BY <2>2
      <4>1. j + 1 \in 1..n
        BY <2>1
      <4>2. j + 1 <= i
        BY <3>1, <4>1
      <4> QED
        BY <4>2
    <3> QED
      BY <2>2, <2>3, <2>5, <2>6, <3>1, <3>2, <3>3
  <2> QED
    BY <2>7, <2>8
<1>4. CASE PoolJoin(s)
  <2>1. channel'[s] = <<>> /\ Len(channel'[s]) = 0 /\ pool'[s] = "finished"
    BY <1>4 DEF PoolJoin, TypeOK
  <2>2. UNCHANGED <<climb, proposed_solution>>
    BY <1>4 DEF PoolJoin
  <2> QED
    BY <1>0, <2>1, <2>2
<1>5. CASE Solver(s)
  <2>0. UNCHANGED <<pool, proposed_solution>>
    BY <1>5, SolverStep DEF SolverEffect, poolVars
  <2> DEFINE n == Len(channel[s])
  <2>1. ASSUME NEW msg \in OwnMessages(s), Send(s, msg)
        PROVE  /\ Len(channel'[s]) = n + 1
               /\ \A i \in 1..n : channel'[s][i] = channel[s][i]
               /\ channel'[s][n + 1] = msg
    <3>1. channel'[s] = Append(channel[s], msg)
      BY <2>1 DEF Send, TypeOK
    <3> QED
      BY <1>0, <3>1
  <2>2. ASSUME NEW score \in 1..MaxCost, score < climb[s][f].bound,
               climb'[s][f].bound = score, Send(s, Partial(s, score))
        PROVE  Reported(s)'
    <3>1. Partial(s, score) \in OwnMessages(s)
      BY MessagesOwned
    <3>2. /\ Len(channel'[s]) = n + 1 /\ n \in Nat
          /\ \A i \in 1..n : channel'[s][i] = channel[s][i]
          /\ channel'[s][n + 1].kind = "Partial" /\ channel'[s][n + 1].cost = score
      BY <1>0, <2>1, <2>2, <3>1 DEF Partial
    <3>3. /\ \A i \in 1..n : channel[s][i].kind = "Partial" => channel[s][i].cost >= climb[s][f].bound
          /\ \A i \in 1..n : channel[s][i].cost \in Nat
          /\ proposed_solution[s].cost \in Nat
      <4>1. Reported(s)
        BY <1>0
      <4>2. \A i \in 1..n : channel[s][i] \in AlgorithmState
        BY <1>0
      <4>3. \A msg \in AlgorithmState : msg.cost \in Nat
        BY PoolAssumption DEF AlgorithmState
      <4> QED
        BY <1>0, <4>1, <4>2, <4>3
    <3>4. \A i \in 1..n : channel[s][i].kind = "Partial" => channel[s][i].cost >= score
      BY <1>0, <2>2, <3>3
    <3>5. proposed_solution[s].kind = "Partial" => proposed_solution[s].cost >= score
      BY <1>0, <2>2, <3>3
    <3>6. \A i \in 1..Len(channel'[s]) :
             channel'[s][i].kind = "Partial" => channel'[s][i].cost >= score
      BY <3>2, <3>4
    <3>7. n + 1 \in 1..Len(channel'[s]) /\ \A j \in 1..Len(channel'[s]) : j <= n + 1
      BY <3>2
    <3> QED
      BY <2>0, <2>2, <3>2, <3>5, <3>6, <3>7
  <2>3. ASSUME climb'[s][f].bound = climb[s][f].bound, UNCHANGED channel PROVE Reported(s)'
    BY <1>0, <2>0, <2>3
  <2>4. ASSUME climb'[s][f].bound = climb[s][f].bound,
               NEW msg \in OwnMessages(s), msg.kind # "Partial", Send(s, msg)
        PROVE  Reported(s)'
    <3>1. /\ Len(channel'[s]) = n + 1 /\ n \in Nat
          /\ \A i \in 1..n : channel'[s][i] = channel[s][i]
          /\ channel'[s][n + 1].kind # "Partial"
      BY <1>0, <2>1, <2>4
    <3>2. {i \in 1..Len(channel'[s]) : channel'[s][i].kind = "Partial"}
             = {i \in 1..n : channel[s][i].kind = "Partial"}
      BY <3>1
    <3> QED
      BY <1>0, <2>0, <2>4, <3>1, <3>2
  <2> QED
    BY <1>5, <2>2, <2>3, <2>4, OnlyTheClimbReports
<1>6. ASSUME NEW r \in Solves, r # s, Pool(r) \/ Solver(r)
      PROVE  UNCHANGED <<climb[s], channel[s], proposed_solution[s], pool[s]>>
  <2>1. CASE Pool(r)
    BY <1>6, <2>1
       DEF Pool, PoolReceive, PoolPublish, PoolDecide, PoolTimeout, PoolJoin, TypeOK
  <2>2. CASE Solver(r)
    BY <1>6, <2>2, ClimbsOfOthers, SolverStep DEF SolverEffect, poolVars
  <2> QED
    BY <1>6, <2>1, <2>2
<1>7. CASE AttemptSolve
  <2>1. pool[s] = "finished" => pool'[s] = "finished"
    BY <1>7 DEF AttemptSolve, Phases, TypeOK, Solves
  <2> QED
    BY <1>2, <1>7, <2>1 DEF AttemptSolve
<1>8. CASE PoolPublish(s) \/ PoolDecide(s) \/ PoolTimeout(s)
  BY <1>2, <1>8 DEF PoolPublish, PoolDecide, PoolTimeout
<1>9. CASE Retrieve \/ UNCHANGED vars
  BY <1>2, <1>9 DEF Retrieve, vars, poolVars
<1> QED
  BY <1>1, <1>2, <1>3, <1>4, <1>5, <1>6, <1>7, <1>8, <1>9 DEF Next, Pool

\* The pool of the fixed-time system, one hill climb and any other solvers,
\* never loses an assignment cheaper than the one it holds.
THEOREM NothingLost ==
    ASSUME NEW f, SatSolvers = {f}
    PROVE  Spec => []NoImprovementLost
<1>1. Init => ReportedSoFar(f)
  BY ReportedInit
<1>2. Inv /\ ReportedSoFar(f) /\ [Next]_vars => ReportedSoFar(f)'
  BY ReportedStep
<1>3. Inv /\ ReportedSoFar(f) => NoImprovementLost
  <2> SUFFICES ASSUME Inv, ReportedSoFar(f), NEW s \in Solves,
                      pool[s] = "receive", channel[s] = <<>>,
                      proposed_solution[s].kind = "Partial"
               PROVE  proposed_solution[s].cost = climb[s][f].bound
    <3>1. Inv => \A s \in Solves : proposed_solution[s].cost \in Int
      <4>1. \A msg \in AlgorithmState : msg.cost \in Int
        BY PoolAssumption DEF AlgorithmState
      <4> QED
        BY <4>1 DEF Inv, TypeOK
    <3> QED
      BY <3>1 DEF NoImprovementLost
  <2>1. Len(channel[s]) = 0
    OBVIOUS
  <2>2. {i \in 1..Len(channel[s]) : channel[s][i].kind = "Partial"} = {}
    BY <2>1
  <2> QED
    BY <2>2 DEF ReportedSoFar
<1> QED
  BY <1>1, <1>2, <1>3, Invariant, PTL DEF Spec
-----------------------------------------------------------------------------
(* A superseded solve winds down.                                          *)

\* The solver threads of s that are at one place in their loop.
At(s, place) == {a \in Algorithms : thread[s][a] = place}

\* What solve s may still do once it is told to stop: a thread that searches
\* finishes its round, each thread leaves at the next look at the flag, each
\* may send one more answer, and every answer goes once round the pool.
PoolRank == [idle |-> 0, finished |-> 0, join |-> 1, receive |-> 2, decide |-> 3, publish |-> 4]
Threads(s) == 8 * Cardinality(At(s, "search")) + 4 * Cardinality(At(s, "check"))
Rank(s) == Threads(s) + 3 * Len(channel[s]) + PoolRank[pool[s]]

\* Whatever the client and the other solves do, a superseded solve only ever
\* has less left to do.
WindsDown ==
    [][\A s \in Solves : Superseded(s) =>
          \/ UNCHANGED <<pool[s], proposed_solution[s], channel[s], thread[s]>>
          \/ Rank(s)' < Rank(s)]_vars

LEMMA RankTyped ==
    ASSUME TypeOK, NEW s \in Solves
    PROVE  /\ \A place : /\ IsFiniteSet(At(s, place))
                        /\ Cardinality(At(s, place)) \in Nat
           /\ Threads(s) \in Nat
           /\ Len(channel[s]) \in Nat
           /\ PoolRank[pool[s]] \in 0..4
<1>1. \A place : IsFiniteSet(At(s, place)) /\ Cardinality(At(s, place)) \in Nat
  <2> SUFFICES ASSUME NEW place
               PROVE  IsFiniteSet(At(s, place)) /\ Cardinality(At(s, place)) \in Nat
    OBVIOUS
  <2>1. At(s, place) \subseteq Algorithms
    BY DEF At
  <2>2. IsFiniteSet(At(s, place))
    BY <2>1, PoolAssumption, FS_Subset
  <2> QED
    BY <2>2, FS_CardinalityType
<1>2. Threads(s) \in Nat
  BY <1>1 DEF Threads
<1>3. Len(channel[s]) \in Nat
  BY DEF TypeOK
<1>4. PoolRank[pool[s]] \in 0..4
  <2>1. pool[s] \in {"idle", "receive", "publish", "decide", "join", "finished"}
    BY DEF TypeOK
  <2> QED
    BY <2>1 DEF PoolRank
<1> QED
  BY <1>1, <1>2, <1>3, <1>4

\* A thread of a solve that is told to stop starts no search: it goes from its
\* search to the flag, or ends.
LEMMA StoppedMoves ==
    ASSUME NEW s \in Solves, Solver(s), running[s]
    PROVE  \E a \in Algorithms :
              \/ thread[s][a] = "search" /\ (Move(s, a, "check") \/ Move(s, a, "done"))
              \/ thread[s][a] = "check" /\ Move(s, a, "done")
BY DEF Solver, SatThread, GreedyThread, FlexibleThread, StartSearch, SatStopped, SatFindsBetter,
       SatEliminates, SatConcludes, StoppedUnSolveable, SearchAgain, GreedyConcludes,
       FlexibleConcludes, FlexiblePanics, Algorithms

\* Such a move weighs more than the answer it may send.
LEMMA ThreadsWindDown ==
    ASSUME TypeOK, NEW s \in Solves, NEW a \in Algorithms,
           \/ thread[s][a] = "search" /\ (Move(s, a, "check") \/ Move(s, a, "done"))
           \/ thread[s][a] = "check" /\ Move(s, a, "done")
    PROVE  /\ Threads(s)' \in Nat
           /\ Threads(s)' + 4 <= Threads(s)
<1> DEFINE c == Cardinality(At(s, "check"))
           n == Cardinality(At(s, "search"))
<1>1. c \in Nat /\ n \in Nat /\ IsFiniteSet(At(s, "check")) /\ IsFiniteSet(At(s, "search"))
  BY RankTyped
<1>2. CASE thread[s][a] = "search" /\ Move(s, a, "check")
  <2>1. a \in At(s, "search") /\ a \notin At(s, "check")
    BY <1>2 DEF At
  <2>2. At(s, "search")' = At(s, "search") \ {a} /\ At(s, "check")' = At(s, "check") \cup {a}
    BY <1>2 DEF At, Move, TypeOK
  <2>3. Cardinality(At(s, "search")') = n - 1 /\ Cardinality(At(s, "check")') = c + 1
    BY <1>1, <2>1, <2>2, FS_RemoveElement, FS_AddElement
  <2>4. n - 1 \in Nat
    BY <1>1, <2>1, <2>2, <2>3, FS_RemoveElement, FS_CardinalityType
  <2> QED
    BY <1>1, <2>3, <2>4 DEF Threads
<1>3. CASE thread[s][a] = "search" /\ Move(s, a, "done")
  <2>1. a \in At(s, "search")
    BY <1>3 DEF At
  <2>2. At(s, "search")' = At(s, "search") \ {a} /\ At(s, "check")' = At(s, "check")
    BY <1>3 DEF At, Move, TypeOK
  <2>3. Cardinality(At(s, "search")') = n - 1 /\ Cardinality(At(s, "check")') = c
    BY <1>1, <2>1, <2>2, FS_RemoveElement
  <2>4. n - 1 \in Nat
    BY <1>1, <2>1, <2>2, <2>3, FS_RemoveElement, FS_CardinalityType
  <2> QED
    BY <1>1, <2>3, <2>4 DEF Threads
<1>4. CASE thread[s][a] = "check" /\ Move(s, a, "done")
  <2>1. a \in At(s, "check")
    BY <1>4 DEF At
  <2>2. At(s, "check")' = At(s, "check") \ {a} /\ At(s, "search")' = At(s, "search")
    BY <1>4 DEF At, Move, TypeOK
  <2>3. Cardinality(At(s, "check")') = c - 1 /\ Cardinality(At(s, "search")') = n
    BY <1>1, <2>1, <2>2, FS_RemoveElement
  <2>4. c - 1 \in Nat
    BY <1>1, <2>1, <2>2, <2>3, FS_RemoveElement, FS_CardinalityType
  <2> QED
    BY <1>1, <2>3, <2>4 DEF Threads
<1> QED
  BY <1>2, <1>3, <1>4

LEMMA SolverWindsDown ==
    ASSUME Inv, NEW s \in Solves, Superseded(s), Solver(s)
    PROVE  Rank(s)' < Rank(s)
<1>1. TypeOK /\ SolverEffect(s)
  BY SolverStep DEF Inv
<1>2. running[s]
  BY <1>1 DEF Inv, SupersededStopped, NoOrphanThreads, SolverEffect, SolverMoves
<1>3. Threads(s)' \in Nat /\ Threads(s)' + 4 <= Threads(s)
  BY <1>1, <1>2, StoppedMoves, ThreadsWindDown
<1>4. Len(channel'[s]) \in Nat /\ Len(channel'[s]) <= Len(channel[s]) + 1
  <2>1. CASE channel' = channel
    BY <1>1, <2>1, RankTyped
  <2>2. ASSUME NEW msg \in OwnMessages(s), channel' = [channel EXCEPT ![s] = Append(@, msg)]
        PROVE  Len(channel'[s]) \in Nat /\ Len(channel'[s]) <= Len(channel[s]) + 1
    <3>1. channel[s] \in Seq(AlgorithmState) /\ channel'[s] = Append(channel[s], msg)
      BY <1>1, <2>2 DEF TypeOK
    <3>2. msg \in AlgorithmState
      BY DEF OwnMessages
    <3> QED
      BY <3>1, <3>2
  <2> QED
    BY <1>1, <2>1, <2>2 DEF SolverEffect, SolverSends
<1>5. PoolRank[pool'[s]] = PoolRank[pool[s]]
  BY <1>1 DEF SolverEffect, poolVars
<1>6. Threads(s) \in Nat /\ Len(channel[s]) \in Nat /\ PoolRank[pool[s]] \in Nat
  BY <1>1, RankTyped
<1>7. Rank(s)' = Threads(s)' + 3 * Len(channel'[s]) + PoolRank[pool'[s]]
  BY DEF Rank
<1>8. Threads(s)' + 3 * Len(channel'[s]) < Threads(s) + 3 * Len(channel[s])
  BY <1>3, <1>4, <1>6
<1>9. Rank(s) = Threads(s) + 3 * Len(channel[s]) + PoolRank[pool[s]]
  BY DEF Rank
<1> QED
  BY <1>3, <1>4, <1>5, <1>6, <1>7, <1>8, <1>9

LEMMA PoolWindsDown ==
    ASSUME Inv, NEW s \in Solves, Pool(s)
    PROVE  Rank(s)' < Rank(s)
<1>1. TypeOK /\ Threads(s) \in Nat /\ Len(channel[s]) \in Nat
  BY RankTyped DEF Inv
<1>2. Threads(s)' = Threads(s)
  BY DEF Pool, PoolReceive, PoolPublish, PoolDecide, PoolTimeout, PoolJoin, Threads, At
<1>3. CASE PoolReceive(s)
  <2>1. Len(channel'[s]) = Len(channel[s]) - 1
    BY <1>3, ReceivedAnswer DEF Inv
  <2>2. pool[s] = "receive" /\ pool'[s] = "publish"
    BY <1>1, <1>3 DEF PoolReceive, TypeOK
  <2> QED
    BY <1>1, <1>2, <2>1, <2>2 DEF Rank, PoolRank
<1>4. CASE PoolPublish(s) \/ PoolDecide(s) \/ PoolTimeout(s)
  <2>1. channel' = channel
    BY <1>4 DEF PoolPublish, PoolDecide, PoolTimeout
  <2>2. PoolRank[pool'[s]] + 1 = PoolRank[pool[s]] /\ PoolRank[pool'[s]] \in Nat
    BY <1>1, <1>4 DEF PoolPublish, PoolDecide, PoolTimeout, PoolRank, TypeOK
  <2> QED
    BY <1>1, <1>2, <2>1, <2>2 DEF Rank
<1>5. CASE PoolJoin(s)
  <2>1. Len(channel'[s]) = 0
    BY <1>1, <1>5 DEF PoolJoin, TypeOK
  <2>2. pool[s] = "join" /\ pool'[s] = "finished"
    BY <1>1, <1>5 DEF PoolJoin, TypeOK
  <2> QED
    BY <1>1, <1>2, <2>1, <2>2 DEF Rank, PoolRank
<1> QED
  BY <1>3, <1>4, <1>5 DEF Pool

\* A superseded solve winds down: no thread of it starts another search, and
\* each step that is still its own brings it nearer to its end, for every pool
\* of algorithms and however many candidates they have left.  That it ends
\* follows, under fairness, from its rank being a natural number.
THEOREM SupersededWindsDown == Spec => WindsDown
<1>1. ASSUME Inv, Next, NEW s \in Solves, Superseded(s)
      PROVE  \/ UNCHANGED <<pool[s], proposed_solution[s], channel[s], thread[s]>>
             \/ Rank(s)' < Rank(s)
  <2>1. CASE AttemptSolve
    <3>1. s # execution_context + 1
      BY <1>1, PoolAssumption DEF Superseded, Inv, TypeOK, Solves
    <3> QED
      BY <1>1, <2>1, <3>1 DEF AttemptSolve, Inv, TypeOK
  <2>2. CASE Retrieve
    BY <2>2 DEF Retrieve, poolVars
  <2>3. ASSUME NEW r \in Solves, Pool(r) \/ Solver(r), r # s
        PROVE  UNCHANGED <<pool[s], proposed_solution[s], channel[s], thread[s]>>
    <3>0. TypeOK
      BY <1>1 DEF Inv
    <3>1. CASE Pool(r)
      <4>1. UNCHANGED <<pool[s], proposed_solution[s], channel[s]>>
        BY <2>3, <3>0, <3>1
        DEF Pool, PoolReceive, PoolPublish, PoolDecide, PoolTimeout, PoolJoin, TypeOK
      <4>2. UNCHANGED thread
        BY <3>1 DEF Pool, PoolReceive, PoolPublish, PoolDecide, PoolTimeout, PoolJoin
      <4> QED
        BY <4>1, <4>2
    <3>2. CASE Solver(r)
      <4>1. SolverEffect(r)
        BY <3>0, <3>2, SolverStep
      <4>2. UNCHANGED <<pool, proposed_solution>> /\ channel'[s] = channel[s]
        BY <2>3, <3>0, <4>1 DEF SolverEffect, SolverSends, poolVars, TypeOK
      <4>3. thread'[s] = thread[s]
        BY <2>3, <3>0, <4>1 DEF SolverEffect, SolverMoves, TypeOK
      <4> QED
        BY <4>2, <4>3
    <3> QED
      BY <2>3, <3>1, <3>2
  <2> QED
    BY <1>1, <2>1, <2>2, <2>3, SolverWindsDown, PoolWindsDown DEF Next
<1>2. Inv /\ Next => \A s \in Solves : Superseded(s) =>
                         \/ UNCHANGED <<pool[s], proposed_solution[s], channel[s], thread[s]>>
                         \/ Rank(s)' < Rank(s)
  BY <1>1
<1> QED
  BY <1>2, Invariant, PTL DEF Spec, WindsDown
-----------------------------------------------------------------------------
(* No solve ends in silence before it is superseded.                       *)

\* As long as solve s is the newest it stops, and leaves, only with an answer in
\* hand; and a hill climb or a greedy search of it that has ended has left an
\* answer, in the channel or already proposed.
AnsweredFirst ==
    \A s \in Solves : ~Superseded(s) =>
        /\ running[s] \/ pool[s] \in {"join", "finished"} => proposed_solution[s] # NotFound
        /\ \A a \in SatSolvers \cup GreedySolvers :
              thread[s][a] = "done" => channel[s] # <<>> \/ proposed_solution[s] # NotFound

\* Of these threads only the hill climb ends without an answer, on the flag.
LEMMA EndsWithAnAnswer ==
    ASSUME TypeOK, NEW s \in Solves, Solver(s),
           NEW a \in SatSolvers \cup GreedySolvers, thread'[s][a] = "done"
    PROVE  thread[s][a] = "done" \/ running[s] \/ channel'[s] # <<>>
<1>1. PICK b \in Algorithms : \/ b \in SatSolvers /\ SatThread(s, b)
                              \/ b \in GreedySolvers /\ GreedyThread(s, b)
                              \/ b \in FlexibleSolvers /\ FlexibleThread(s, b)
  BY DEF Solver, Algorithms
<1>2. ASSUME NEW msg, Send(s, msg) PROVE channel'[s] # <<>>
  <2>1. channel[s] \in Seq(AlgorithmState) /\ channel'[s] = Append(channel[s], msg)
    BY <1>2 DEF Send, TypeOK
  <2>2. channel[s] \in Seq(AlgorithmState \cup {msg})
    BY <2>1
  <2>3. Len(channel'[s]) = Len(channel[s]) + 1 /\ Len(channel[s]) \in Nat
    BY <2>1, <2>2
  <2> QED
    BY <2>3
<1>3. CASE b = a
  <2>1. ASSUME NEW to \in {"check", "search"}, Move(s, b, to) PROVE FALSE
    BY <1>3, <2>1 DEF Move, TypeOK, Algorithms
  <2>2. b \notin FlexibleSolvers
    BY <1>3, PoolAssumption
  <2>3. CASE SatThread(s, b)
    BY <1>2, <2>1, <2>3
    DEF SatThread, StartSearch, SatStopped, SatFindsBetter, SatEliminates, SatConcludes
  <2>4. CASE GreedyThread(s, b)
    BY <1>2, <2>1, <2>4
    DEF GreedyThread, StartSearch, StoppedUnSolveable, SearchAgain, GreedyConcludes
  <2> QED
    BY <1>1, <2>2, <2>3, <2>4
<1>4. CASE b # a
  <2>1. \E to : Move(s, b, to)
    BY <1>1 DEF SatThread, GreedyThread, FlexibleThread, StartSearch, SatStopped, SatFindsBetter,
         SatEliminates, SatConcludes, StoppedUnSolveable, SearchAgain, GreedyConcludes,
         FlexibleConcludes, FlexiblePanics
  <2>2. thread'[s][a] = thread[s][a]
    BY <1>4, <2>1 DEF Move, TypeOK
  <2> QED
    BY <2>2
<1> QED
  BY <1>3, <1>4

LEMMA SolverAnswersFirst ==
    ASSUME Inv, AnsweredFirst, NEW r \in Solves, Solver(r)
    PROVE  AnsweredFirst'
<1>1. TypeOK /\ SolverEffect(r)
  BY SolverStep DEF Inv
<1>2. UNCHANGED <<execution_context, running, pool, proposed_solution>>
  BY <1>1 DEF SolverEffect, poolVars
<1>3. \A s \in Solves : s # r => thread'[s] = thread[s] /\ channel'[s] = channel[s]
  BY <1>1 DEF SolverEffect, SolverMoves, SolverSends, TypeOK
<1>4. channel[r] # <<>> => channel'[r] # <<>>
  <2>1. ASSUME NEW msg \in OwnMessages(r), channel' = [channel EXCEPT ![r] = Append(@, msg)]
        PROVE  channel'[r] # <<>>
    <3>1. channel[r] \in Seq(AlgorithmState) /\ channel'[r] = Append(channel[r], msg)
      BY <1>1, <2>1 DEF TypeOK
    <3>2. msg \in AlgorithmState
      BY DEF OwnMessages
    <3>3. Len(channel'[r]) = Len(channel[r]) + 1 /\ Len(channel[r]) \in Nat
      BY <3>1, <3>2
    <3> QED
      BY <3>3
  <2> QED
    BY <1>1, <2>1 DEF SolverEffect, SolverSends
<1>5. ASSUME NEW s \in Solves, ~Superseded(s), NEW a \in SatSolvers \cup GreedySolvers,
             thread'[s][a] = "done"
      PROVE  channel'[s] # <<>> \/ proposed_solution[s] # NotFound
  <2>1. CASE s = r
    BY <1>1, <1>4, <1>5, <2>1, EndsWithAnAnswer DEF AnsweredFirst
  <2>2. CASE s # r
    BY <1>3, <1>5, <2>2 DEF AnsweredFirst
  <2> QED
    BY <2>1, <2>2
<1> QED
  BY <1>2, <1>5 DEF AnsweredFirst, Superseded

LEMMA PoolAnswersFirst ==
    ASSUME Inv, AnsweredFirst, NEW r \in Solves, Pool(r)
    PROVE  AnsweredFirst'
<1>1. TypeOK /\ UNCHANGED <<execution_context, thread>>
  BY DEF Inv, Pool, PoolReceive, PoolPublish, PoolDecide, PoolTimeout, PoolJoin
<1>2. \A s \in Solves : s # r => UNCHANGED <<running[s], pool[s], proposed_solution[s], channel[s]>>
  BY <1>1 DEF Pool, PoolReceive, PoolPublish, PoolDecide, PoolTimeout, PoolJoin, TypeOK
<1>3. CASE PoolReceive(r)
  <2>1. proposed_solution'[r] # NotFound
    BY <1>3, ReceivedAnswer DEF Inv, NotFound
  <2> QED
    BY <1>1, <1>2, <2>1 DEF AnsweredFirst, Superseded
<1>4. CASE PoolPublish(r) \/ PoolTimeout(r)
  <2>1. /\ UNCHANGED <<running, channel, proposed_solution>>
        /\ pool'[r] \in {"join", "finished"} => running[r]
    BY <1>1, <1>4 DEF PoolPublish, PoolTimeout, TypeOK
  <2> QED
    BY <1>1, <1>2, <2>1 DEF AnsweredFirst, Superseded
<1>5. CASE PoolDecide(r)
  <2>1. /\ UNCHANGED <<channel, proposed_solution>>
        /\ pool'[r] = "receive"
        /\ running'[r] => running[r] \/ ~ShouldContinue(proposed_solution[r])
    BY <1>1, <1>5 DEF PoolDecide, TypeOK
  <2>2. ~ShouldContinue(proposed_solution[r]) => proposed_solution[r] # NotFound
    BY DEF ShouldContinue, NotFound
  <2> QED
    BY <1>1, <1>2, <2>1, <2>2 DEF AnsweredFirst, Superseded
<1>6. CASE PoolJoin(r)
  <2>1. UNCHANGED <<running, proposed_solution>> /\ pool[r] = "join"
    BY <1>6 DEF PoolJoin
  <2> QED
    BY <1>1, <1>2, <2>1 DEF AnsweredFirst, Superseded
<1> QED
  BY <1>3, <1>4, <1>5, <1>6 DEF Pool

\* No solve ends, stops or lets one of its climbs and greedy searches end
\* without an answer while it is the newest: the silent exit of the hill climb
\* is only ever taken by a solve that has one, or that nobody waits for.
THEOREM NobodyEndsInSilence == Spec => []AnsweredFirst
<1>1. Init => AnsweredFirst
  BY PoolAssumption DEF Init, AnsweredFirst, Algorithms
<1>2. Inv /\ AnsweredFirst /\ [Next]_vars => AnsweredFirst'
  <2> SUFFICES ASSUME Inv, AnsweredFirst, [Next]_vars PROVE AnsweredFirst'
    OBVIOUS
  <2>1. CASE AttemptSolve
    <3> SUFFICES ASSUME NEW s \in Solves, s > execution_context
                 PROVE  /\ running'[s] \/ pool'[s] \in {"join", "finished"}
                           => proposed_solution[s] # NotFound
                        /\ \A a \in SatSolvers \cup GreedySolvers :
                              thread'[s][a] = "done" => channel[s] # <<>> \/ proposed_solution[s] # NotFound
      <4>1. \A s \in Solves : ~Superseded(s)' => s > execution_context
        BY <2>1, PoolAssumption DEF AttemptSolve, Superseded, Inv, TypeOK, Solves
      <4>2. UNCHANGED <<proposed_solution, channel>>
        BY <2>1 DEF AttemptSolve
      <4> QED
        BY <4>1, <4>2 DEF AnsweredFirst
    <3>1. ~Superseded(s) /\ s # execution_context
      BY PoolAssumption DEF Superseded, Inv, TypeOK, Solves
    <3>2. running'[s] => running[s]
      <4>1. running'[s] = (running[s] \/ (s = execution_context /\ pool[s] # "finished"))
        BY <2>1 DEF AttemptSolve
      <4> QED
        BY <3>1, <4>1, Zenon
    <3>3. pool'[s] = pool[s] \/ pool'[s] = "receive"
      BY <2>1 DEF AttemptSolve, Inv, TypeOK
    <3>4. \A a \in SatSolvers \cup GreedySolvers : thread'[s][a] = "done" => thread[s][a] = "done"
      BY <2>1 DEF AttemptSolve, Inv, TypeOK, Algorithms
    <3> QED
      BY <3>1, <3>2, <3>3, <3>4 DEF AnsweredFirst
  <2>2. CASE Retrieve
    BY <2>2 DEF Retrieve, poolVars, AnsweredFirst, Superseded, Inv, TypeOK
  <2>3. CASE UNCHANGED vars
    BY <2>3 DEF vars, poolVars, AnsweredFirst, Superseded
  <2> QED
    BY <2>1, <2>2, <2>3, PoolAnswersFirst, SolverAnswersFirst DEF Next
<1> QED
  BY <1>1, <1>2, Invariant, PTL DEF Spec
=============================================================================
