---------------------------- MODULE MCFixedSolvers ----------------------------
(* An instance of FixedSolvers for TLC: three robots with two alternatives   *)
(* each, and every way in which these can be scored.                        *)
EXTENDS FixedSolvers, FiniteSetsExt

Robots == 1..3
TwoEach == [r \in Robots |-> 0..1]

\* The code's total: the scores of the chosen alternatives added up.
Sum(scores, c) ==
    MapThenSumSet(LAMBDA r : scores[<<r, c[r]>>], {r \in Requests : <<r, c[r]>> \in DOMAIN scores})

\* Conflict relations: a chain; all first alternatives on one resource and all
\* second ones on another, so that no three robots can be served; everything
\* on one resource, at three times; a knot that must be undone; and a robot
\* whose own alternatives overlap.
Both(x, y) == {<<x, y>>, <<y, x>>}
Chain == Both(<<1, 0>>, <<2, 0>>) \cup Both(<<2, 1>>, <<3, 0>>)
Shared == {<<x, y>> \in Literals \X Literals : x # y /\ x[2] = y[2]}
Slots == <<<<1, 2>>, <<2, 3>>, <<3, 1>>>>
Turns == {<<x, y>> \in Literals \X Literals : x # y /\ Slots[x[1]][x[2] + 1] = Slots[y[1]][y[2] + 1]}
Knot == (UNION {Both(<<1, 0>>, <<r, 0>>) : r \in {2, 3}}) \cup Both(<<2, 0>>, <<3, 1>>) \cup Both(<<2, 1>>, <<3, 0>>)
Overlap ==
    Both(<<1, 0>>, <<1, 1>>) \cup Both(<<1, 0>>, <<2, 0>>) \cup Both(<<1, 1>>, <<2, 0>>)
    \cup Both(<<2, 1>>, <<3, 0>>)
SomeConflicts == {Chain, Shared, Turns, Knot, Overlap}
=============================================================================
