---------------------------- MODULE MCWaitPoints ----------------------------
(* An instance of WaitPoints for TLC: robots ask with every order of points. *)
EXTENDS WaitPoints, TLC

CONSTANTS p1, p2, r1, r2

\* Every non-empty list of distinct points.
OrderedLists ==
    UNION {{l \in [1..n -> Points] : \A i, j \in 1..n : l[i] = l[j] => i = j} :
              n \in 1..Cardinality(Points)}

\* Robots are interchangeable; points are not (a list orders them), but the
\* set of lists is closed under renaming them.
Symmetric == Permutations(Robots) \cup Permutations(Points)
=============================================================================
